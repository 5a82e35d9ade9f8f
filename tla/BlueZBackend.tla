---------------------------- MODULE BlueZBackend ----------------------------
(***************************************************************************)
(* The D-Bus half of the Bluetooth component: src/bluetooth/BlueZBackend.cpp *)
(* and the interactions of the agent it exports, BlueZAgent.cpp.           *)
(*                                                                         *)
(* A handler runs to its end on one thread, so it is an operator from a    *)
(* state to a state: "s.b" holds the backend's fields, "s.calls" the D-Bus *)
(* calls and "s.emits" the signals the handler has produced so far.  An    *)
(* action applies one handler (Run).  The bus and bluetoothd are the       *)
(* environment: calls reach the daemon in order and are answered in order, *)
(* except that StartDiscovery and the calls that talk to a device may take *)
(* any time ("held").                                                      *)
(***************************************************************************)
EXTENDS Naturals, Sequences, FiniteSets, SequencesExt

CONSTANTS
  Adapters, Devices, \* object paths
  AdapterOf,         \* the adapter a device belongs to
  None,              \* the empty string
  MaxEvents          \* bound, for TLC

Objects == Adapters \cup Devices

ASSUME BlueZConstants ==
  /\ Adapters \cap Devices = {}
  /\ IsFiniteSet(Objects)
  /\ AdapterOf \in [Devices -> Adapters]
  /\ None \notin Nat

VARIABLES
  backend,  \* the fields of BlueZBackend and of its BlueZAgent
  emitted,  \* the signals the last handler emitted, in order
  wire,     \* what the bus still delivers to the backend
  sent,     \* calls the daemon has not handled
  held,     \* calls the daemon has begun to handle
  instance, \* the running bluetoothd, or None
  world,    \* the objects it manages
  scanning, \* the adapters on which this client has a discovery session
  spent,    \* what the bounds count
  \* history
  shown,    \* the world of the last snapshot, or Nothing
  heard,    \* the newest world change this connection has told of
  named,    \* which incarnation each published id has stood for
  overlooked \* the adapters with a StartDiscovery whose session nobody would end

busVars == <<wire, sent, held, instance, world, scanning, spent>>
historyVars == <<shown, heard, named, overlooked>>
backendVars == <<backend, busVars, historyVars>>

AdapterOperations == {"PowerOn", "PowerOff", "Discoverable", "StartDiscovery", "StopDiscovery"}
DeviceOperations == {"Pair", "CancelPairing", "Connect", "Forget"}
Discovery == {"StartDiscovery", "StopDiscovery"}

Nothing == [present |-> {}, powered |-> {}, incarnation |-> <<>>, version |-> 0]

NoIds == [o \in Objects |-> None]

Live(ids) == {ids[o] : o \in Objects} \ {None}

(* MaxEvents bounds what the environment does of its own: launching the     *)
(* daemon again, changing the world, failing a call, an incoming pairing.   *)
Events == spent.launches + spent.changes + spent.errors + spent.agentCalls

Budget == Events < MaxEvents

Disturbed == Budget /\ spent' = [spent EXCEPT !.changes = @ + 1]

DevicesOn(a) == {d \in Devices : AdapterOf[d] = a}

-----------------------------------------------------------------------------
(* The handlers.                                                            *)

Unavailable == [signal |-> "snapshotChanged", available |-> FALSE, ids |-> NoIds,
                listed |-> {}, world |-> Nothing]

Finished(c, error) == [signal |-> "operationFinished", call |-> c, error |-> error]

Emit(s, e) == [s EXCEPT !.emits = Append(@, e)]

(* asyncCall() with a watcher, and without one. *)
Watched(s, call) == [s EXCEPT !.calls = Append(@, call), !.b.watchers = @ \cup {call}]
Told(s, calls) == [s EXCEPT !.calls = @ \o calls]

StopCalls(owner, paths) ==
  LET order == SetToSeq(paths)
  IN [i \in DOMAIN order |-> [kind |-> "stop", to |-> owner, object |-> order[i]]]

refresh(s) ==
  IF s.b.refreshing \/ s.b.owner = None THEN s
  ELSE Watched([s EXCEPT !.b.refreshing = TRUE],
               [kind |-> "refresh", to |-> s.b.owner, generation |-> s.b.generation,
                revision |-> s.b.revision])

changed(s) ==
  LET newer == [s EXCEPT !.b.revision = @ + 1]
  IN IF s.b.started THEN refresh(newer) ELSE newer

(* Everything of the previous connection goes, and the new daemon is asked  *)
(* for its objects.  The agent keeps the device ids it was given last.      *)
setOwner(s, new) ==
  LET reset == [s.b EXCEPT !.generation = @ + 1, !.revision = @ + 1, !.refreshing = FALSE,
                           !.registered = FALSE, !.owner = new, !.ids = NoIds,
                           !.adapters = {}, !.devices = {}, !.owned = {}, !.starting = {},
                           !.interactions = {}]
      lost == Emit([s EXCEPT !.b = reset], Unavailable)
  IN IF new = None THEN lost
     ELSE refresh(Watched(lost, [kind |-> "register", to |-> new,
                                 generation |-> lost.b.generation]))

(* idFor(): a path that has no id yet is given a new one. *)
idFor(b, o) == IF b.ids[o] # None THEN b.ids[o] ELSE <<o, b.minted[o] + 1>>

(* Mutant: open interactions outlive the devices they are about. *)
setDevices_open(s, known) == [s EXCEPT !.b.agentDevices = known]

(* Interactions with devices that are not listed any more are rejected. *)
setDevices(s, known) ==
  [s EXCEPT !.b.agentDevices = known,
            !.b.interactions = {i \in @ : i.device \in Live(known)}]

publish(s, shot) ==
  LET adapters == shot.present \cap Adapters
      devices  == {d \in shot.present \cap Devices : AdapterOf[d] \in adapters}
      live     == adapters \cup devices
      ids      == [o \in Objects |-> IF o \in live THEN idFor(s.b, o) ELSE None]
      minted   == [o \in Objects |-> IF o \in live /\ s.b.ids[o] = None
                                     THEN s.b.minted[o] + 1 ELSE s.b.minted[o]]
      kept     == [s EXCEPT !.b.ids = ids, !.b.minted = minted, !.b.adapters = adapters,
                            !.b.devices = devices,
                            !.b.owned = @ \ (adapters \ shot.powered)]
  IN Emit(setDevices(kept, [o \in Objects |-> IF o \in devices THEN ids[o] ELSE None]),
          [signal |-> "snapshotChanged", available |-> TRUE, ids |-> ids,
           listed |-> Live(ids), world |-> shot])

(* The snapshot failed: what was found on this connection is given up. *)
withdraw(s) ==
  Emit(setDevices(Told([s EXCEPT !.b.ids = NoIds, !.b.owned = {}],
                       StopCalls(s.b.owner, s.b.owned)),
                  NoIds),
       Unavailable)

(* Mutant: a snapshot that changes overtook is not asked for again. *)
refreshReply_dropped(s, w, error, shot) ==
  LET idle == [s EXCEPT !.b.refreshing = FALSE]
  IN IF w.revision # s.b.revision THEN idle
     ELSE IF error THEN withdraw(idle) ELSE publish(idle, shot)

(* A snapshot that signals overtook is asked for again. *)
refreshReply(s, w, error, shot) ==
  LET idle == [s EXCEPT !.b.refreshing = FALSE]
  IN IF w.revision # s.b.revision THEN refresh(idle)
     ELSE IF error THEN withdraw(idle) ELSE publish(idle, shot)

-----------------------------------------------------------------------------
(* start(), stop() and the subscribed signals.                              *)

start(s) ==
  Watched([s EXCEPT !.b.started = TRUE],
          [kind |-> "owner", to |-> None, generation |-> s.b.generation])

stop(s) ==
  setOwner(Told([s EXCEPT !.b.started = FALSE],
                StopCalls(s.b.owner, s.b.owned \cup s.b.starting)), None)

(* Mutant: the id of a removed object is left for the next snapshot. *)
interfacesRemoved_kept(s, o) ==
  changed([s EXCEPT !.b.owned = @ \ {o}, !.b.starting = @ \ {o}])

interfacesRemoved(s, o) ==
  LET children == IF o \in Adapters THEN s.b.devices \cap DevicesOn(o) ELSE {}
  IN changed([s EXCEPT !.b.ids = [p \in Objects |-> IF p \in children \cup {o} THEN None
                                                    ELSE s.b.ids[p]],
                       !.b.owned = @ \ {o}, !.b.starting = @ \ {o}])

(* BlueZAgent::request(): the agent knows the device, or the backend        *)
(* reserves an id for it at once and looks at the daemon's objects again.   *)
agentRequest(s, o) ==
  LET known == s.b.agentDevices[o] # None
      id == IF known THEN s.b.agentDevices[o] ELSE idFor(s.b, o)
      reserved == IF known THEN s
                  ELSE changed([s EXCEPT
                         !.b.minted[o] = IF s.b.ids[o] = None THEN @ + 1 ELSE @,
                         !.b.ids[o] = id, !.b.agentDevices[o] = id])
      interaction == [device |-> id, number |-> spent.agentCalls]
  IN Emit([reserved EXCEPT !.b.interactions = @ \cup {interaction}],
          [signal |-> "agentRequested", device |-> id])

-----------------------------------------------------------------------------
(* execute() and the lambdas that answer its calls.                         *)

(* The path an id names, if it still names one. *)
Known(b, id) == b.ids[id[1]] = id

(* The reason execute() gives up before it calls the daemon. *)
Refusal(b, c) ==
  IF ~Known(b, c.target) \/ b.owner = None THEN "Disappeared"
  ELSE IF c.operation = "Pair" /\ ~b.registered THEN "AgentUnavailable"
  ELSE IF (c.operation \in AdapterOperations) # (c.target[1] \in b.adapters) THEN "InvalidTarget"
  ELSE IF c.operation \in Discovery /\ c.target[1] \in b.starting THEN "Busy"
  ELSE "none"

(* Discovery is already as it is wanted. *)
Satisfied(b, c) ==
  /\ c.operation \in Discovery
  /\ (c.operation = "StartDiscovery") = (c.target[1] \in b.owned)

OperationCall(b, c, step) ==
  [kind |-> "operation", to |-> b.owner, generation |-> b.generation,
   object |-> c.target[1], call |-> c, step |-> step]

(* Mutant: an id that names nothing any more is not answered. *)
execute_silent(s, c) ==
  IF Refusal(s.b, c) # "none" \/ Satisfied(s.b, c) THEN s
  ELSE Watched([s EXCEPT !.b.starting = IF c.operation \in Discovery
                                        THEN @ \cup {c.target[1]} ELSE @],
               OperationCall(s.b, c, IF c.operation = "Discoverable" THEN "timeout" ELSE "only"))

(* CancelPairing also drops every open interaction; Discoverable begins     *)
(* with the visibility timeout.                                             *)
execute(s, c) ==
  IF Refusal(s.b, c) # "none" \/ Satisfied(s.b, c)
  THEN [s EXCEPT !.b.deferred = Append(@, Finished(c, Refusal(s.b, c)))]
  ELSE Watched([s EXCEPT !.b.starting = IF c.operation \in Discovery
                                        THEN @ \cup {c.target[1]} ELSE @,
                         !.b.interactions = IF c.operation = "CancelPairing" THEN {} ELSE @],
               OperationCall(s.b, c, IF c.operation = "Discoverable" THEN "timeout" ELSE "only"))

(* The timeout is written, or not; only then is the adapter made visible. *)
timeoutReply(s, w, error) ==
  IF error # "none" THEN Emit(s, Finished(w.call, error))
  ELSE IF ~Known(s.b, w.call.target) THEN Emit(s, Finished(w.call, "Disappeared"))
  ELSE Watched(s, OperationCall(s.b, w.call, "set"))

setReply(s, w, error) == changed(Emit(s, Finished(w.call, error)))

(* The discovery sessions this client owns, after an answer. *)
OwnedAfter(owned, w, error) ==
  CASE error = "none" /\ w.call.operation = "StartDiscovery" -> owned \cup {w.object}
    [] error = "none" /\ w.call.operation = "StopDiscovery" -> owned \ {w.object}
    [] OTHER -> owned

(* Mutant: an answer that comes for a retired id is dropped as it is. *)
onlyReply_ignored(s, w, error) ==
  LET answered == [s EXCEPT !.b.starting = IF w.call.operation \in Discovery
                                           THEN @ \ {w.object} ELSE @]
  IN IF ~Known(s.b, w.call.target) /\ w.call.operation # "Forget" THEN answered
     ELSE changed(Emit([answered EXCEPT !.b.owned = OwnedAfter(@, w, error)],
                       Finished(w.call, error)))

(* An answer for an id that was retired meanwhile is dropped, but a         *)
(* discovery session it acquired is given back.                             *)
onlyReply(s, w, error) ==
  LET answered == [s EXCEPT !.b.starting = IF w.call.operation \in Discovery
                                           THEN @ \ {w.object} ELSE @]
  IN IF ~Known(s.b, w.call.target) /\ w.call.operation # "Forget"
     THEN Told(answered, IF error = "none" /\ w.call.operation = "StartDiscovery"
                         THEN StopCalls(s.b.owner, {w.object}) ELSE <<>>)
     ELSE changed(Emit([answered EXCEPT
                          !.b.owned = OwnedAfter(@, w, error),
                          !.b.interactions = IF w.call.operation = "Pair" THEN {} ELSE @],
                       Finished(w.call, error)))

(* A watcher fires: replies of an earlier connection are dropped.  A failed *)
(* GetNameOwner means that nobody owns the name.                            *)
replied(s, m) ==
  LET w == m.watcher
      t == [s EXCEPT !.b.watchers = @ \ {w}]
  IN IF w \notin s.b.watchers THEN s
     ELSE IF w.generation # s.b.generation THEN t
     ELSE CASE w.kind = "owner" -> IF s.b.started THEN setOwner(t, m.owner) ELSE t
            [] w.kind = "register" -> [t EXCEPT !.b.registered = (m.error = "none")]
            [] w.kind = "refresh" -> refreshReply(t, w, m.error # "none", m.world)
            [] w.kind = "operation" /\ w.step = "timeout" -> timeoutReply(t, w, m.error)
            [] w.kind = "operation" /\ w.step = "set" -> setReply(t, w, m.error)
            [] w.kind = "operation" /\ w.step = "only" -> onlyReply(t, w, m.error)

(* Whatever the bus delivers.  Signals and agent calls are heeded between   *)
(* start() and stop(), from the daemon that owns the name.                  *)
delivered(s, m) ==
  CASE m.kind = "reply" -> replied(s, m)
    [] m.kind = "owner" -> IF s.b.started THEN setOwner(s, m.owner) ELSE s
    [] OTHER ->
         IF ~s.b.started \/ m.from # s.b.owner THEN s
         ELSE CASE m.kind = "changed" -> changed(s)
                [] m.kind = "removed" -> interfacesRemoved(s, m.object)
                [] m.kind = "agent" -> agentRequest(s, m.object)

-----------------------------------------------------------------------------
(* Actions of the backend.                                                  *)

(* What the ids of a snapshot stand for. *)
Names(e) ==
  {[id |-> e.ids[o], incarnation |-> e.world.incarnation[o]] : o \in {p \in Objects : e.ids[p] # None}}

(* The snapshot a handler emitted: one at most. *)
Snapshots(s) == {e \in ToSet(s.emits) : e.signal = "snapshotChanged"}

(* What a handler's result makes of the variables. *)
Becomes(s) ==
  /\ backend' = s.b
  /\ emitted' = s.emits
  /\ \/ Snapshots(s) = {} /\ UNCHANGED <<shown, named>>
     \/ \E e \in Snapshots(s) : shown' = e.world /\ named' = named \cup Names(e)

Idle == [b |-> backend, calls |-> <<>>, emits |-> <<>>]

Run(s) == Becomes(s) /\ sent' = sent \o s.calls

Start ==
  /\ ~backend.started /\ ~spent.stopped
  /\ Run(start(Idle))
  /\ UNCHANGED <<wire, held, instance, world, scanning, spent, heard, overlooked>>

(* The adapters with a StartDiscovery of this connection among the calls.    *)
Sought(calls) ==
  {w.object : w \in {c \in calls : /\ c.kind = "operation"
                                  /\ c.generation = backend.generation
                                  /\ c.call.operation = "StartDiscovery"}}

(* A daemon that comes anew has heard of no call before. *)
OverlookedAfter(abandoned, s) ==
  IF s.b.generation # backend.generation THEN {} ELSE overlooked \cup Sought(abandoned)

(* Two may be performed without the backend's knowledge: those that stop()   *)
(* finds unanswered and unrecorded, and those that time out.                 *)
Stop ==
  /\ backend.started
  /\ Run(stop(Idle))
  /\ spent' = [spent EXCEPT !.stopped = TRUE]
  /\ heard' = 0
  /\ overlooked' = overlooked \cup (Sought(backend.watchers) \ backend.starting)
  /\ UNCHANGED <<wire, held, instance, world, scanning>>

(* The newest change a message tells of, on the connection it arrives on. *)
HeardAfter(m, s) ==
  IF s.b.generation # backend.generation THEN 0
  ELSE IF m.kind \in {"changed", "removed"} /\ m.from = backend.owner /\ m.version > heard
  THEN m.version ELSE heard

Deliver ==
  /\ wire # <<>>
  /\ wire' = Tail(wire)
  /\ LET s == delivered(Idle, Head(wire))
     IN /\ Run(s)
        /\ heard' = HeardAfter(Head(wire), s) /\ overlooked' = OverlookedAfter({}, s)
  /\ UNCHANGED <<held, instance, world, scanning, spent>>

(* The posted emissions of execute(). *)
EmitDeferred ==
  /\ backend.deferred # <<>>
  /\ backend' = [backend EXCEPT !.deferred = Tail(@)]
  /\ emitted' = <<Head(backend.deferred)>>
  /\ UNCHANGED <<busVars, historyVars>>

(* The consumer answers an interaction, or its two minutes are over, or the *)
(* daemon cancels it.                                                       *)
Respond(i) ==
  /\ backend' = [backend EXCEPT !.interactions = @ \ {i}]
  /\ emitted' = <<>>
  /\ UNCHANGED <<busVars, historyVars>>

Failure(w) == [kind |-> "reply", watcher |-> w, error |-> "Upstream", owner |-> None,
               world |-> Nothing]

(* A call times out on this side, while the daemon may still handle it: 25  *)
(* seconds are over, or two minutes for Pair.  A StartDiscovery is taken to *)
(* have failed, and nothing ends the session it may yet begin.              *)
LocalError(w) ==
  /\ Budget
  /\ spent' = [spent EXCEPT !.errors = @ + 1]
  /\ LET s == delivered(Idle, Failure(w))
     IN /\ Run(s)
        /\ heard' = HeardAfter(Failure(w), s) /\ overlooked' = OverlookedAfter({w}, s)
  /\ UNCHANGED <<wire, held, instance, world, scanning>>

-----------------------------------------------------------------------------
(* The bus and bluetoothd.                                                  *)

Environment == emitted' = <<>> /\ UNCHANGED <<backend, historyVars>>

Answer(w) == [Failure(w) EXCEPT !.error = "none", !.owner = instance, !.world = world]

(* The world changes; sessions end with their adapter, or its power. *)
Moved(present, powered, incarnation) ==
  /\ world' = [present |-> present, powered |-> powered \cap present,
               incarnation |-> incarnation, version |-> world.version + 1]
  /\ scanning' = scanning \cap powered \cap present

(* What the daemon says of it: removals name the object, devices first. *)
Signals ==
  LET gone == world.present \ world'.present
      order == SetToSeq(gone \cap Devices) \o SetToSeq(gone \cap Adapters)
      version == world.version + 1
  IN IF instance = None THEN <<>>
     ELSE IF gone = {} THEN <<[kind |-> "changed", from |-> instance, version |-> version]>>
     ELSE [i \in DOMAIN order |-> [kind |-> "removed", object |-> order[i], from |-> instance,
                                   version |-> version]]

Plug(o) ==
  /\ Disturbed /\ o \notin world.present
  /\ o \in Devices => AdapterOf[o] \in world.present
  /\ Moved(world.present \cup {o}, world.powered, [world.incarnation EXCEPT ![o] = @ + 1])
  /\ wire' = wire \o Signals
  /\ UNCHANGED <<sent, held, instance>> /\ Environment

Without(o) == world.present \ ({o} \cup (IF o \in Adapters THEN DevicesOn(o) ELSE {}))

Unplug(o) ==
  /\ Disturbed /\ o \in world.present
  /\ Moved(Without(o), world.powered, world.incarnation)
  /\ wire' = wire \o Signals
  /\ UNCHANGED <<sent, held, instance>> /\ Environment

(* Another client switches an adapter on or off. *)
TogglePower(a) ==
  /\ Disturbed /\ a \in world.present
  /\ Moved(world.present, IF a \in world.powered THEN world.powered \ {a}
                          ELSE world.powered \cup {a}, world.incarnation)
  /\ wire' = wire \o Signals
  /\ UNCHANGED <<sent, held, instance>> /\ Environment

(* An incoming pairing: the daemon asks the registered agent. *)
AgentCall(o) ==
  /\ Budget
  /\ instance # None /\ backend.registered /\ o \in world.present
  /\ spent' = [spent EXCEPT !.agentCalls = @ + 1]
  /\ wire' = Append(wire, [kind |-> "agent", from |-> instance, object |-> o, version |-> 0])
  /\ UNCHANGED <<sent, held, instance, world, scanning>> /\ Environment

Launch ==
  /\ instance = None /\ Budget
  /\ spent' = [spent EXCEPT !.launches = @ + 1]
  /\ instance' = spent.launches + 1
  /\ wire' = Append(wire, [kind |-> "owner", owner |-> instance'])
  /\ UNCHANGED <<sent, held, world, scanning>> /\ Environment

(* The daemon dies, with its sessions and the calls it had not answered. *)
Crash ==
  /\ instance # None
  /\ instance' = None /\ held' = {} /\ scanning' = {}
  /\ wire' = Append(wire, [kind |-> "owner", owner |-> None])
  /\ UNCHANGED <<sent, world, spent>> /\ Environment

Oldest == Head(sent)

Take == sent # <<>> /\ sent' = Tail(sent) /\ UNCHANGED <<instance, spent>> /\ Environment

(* A call to a daemon that is gone; its reply would come after the news of  *)
(* that, and be dropped.                                                    *)
Undeliverable ==
  /\ Take
  /\ Oldest.kind # "owner" /\ Oldest.to # instance
  /\ UNCHANGED <<wire, held, world, scanning>>

(* GetNameOwner, GetManagedObjects and RegisterAgent: answered or refused. *)
HandleQuery ==
  /\ Take
  /\ \/ Oldest.kind = "owner"
     \/ Oldest.kind \in {"refresh", "register"} /\ Oldest.to = instance
  /\ \/ wire' = Append(wire, Answer(Oldest))
     \/ Oldest.kind # "owner" /\ wire' = Append(wire, Failure(Oldest))
  /\ UNCHANGED <<held, world, scanning>>

Ending(a) == {w \in held : w.object = a /\ w.call.operation = "StartDiscovery"}

(* The StopDiscovery calls nobody waits for.  One that finds the start in   *)
(* progress ends that.                                                      *)
HandleStop ==
  /\ Take
  /\ Oldest.kind = "stop" /\ Oldest.to = instance
  /\ scanning' = scanning \ {Oldest.object}
  /\ held' = held \ Ending(Oldest.object)
  /\ wire' = wire \o [i \in 1..Cardinality(Ending(Oldest.object)) |->
                        Failure(SetToSeq(Ending(Oldest.object))[i])]
  /\ UNCHANGED world

(* What an operation does to the world, if it can be done. *)
Performed(w) ==
  LET o == w.object
  IN /\ o \in world.present
     /\ CASE w.call.operation = "StartDiscovery" ->
               /\ o \in world.powered \ scanning
               /\ scanning' = scanning \cup {o} /\ UNCHANGED world
          [] w.call.operation = "StopDiscovery" ->
               o \in scanning /\ scanning' = scanning \ {o} /\ UNCHANGED world
          [] w.call.operation = "PowerOn" ->
               Moved(world.present, world.powered \cup {o}, world.incarnation)
          [] w.call.operation = "PowerOff" ->
               Moved(world.present, world.powered \ {o}, world.incarnation)
          [] w.call.operation = "Forget" ->
               Moved(Without(o), world.powered, world.incarnation)
          [] OTHER -> UNCHANGED <<world, scanning>>

(* An operation is performed or refused; its signals and its reply come in  *)
(* either order.                                                            *)
Handled(w) ==
  \/ /\ Performed(w)
     /\ LET signals == IF world' = world THEN <<>> ELSE Signals
        IN wire' \in {wire \o signals \o <<Answer(w)>>, wire \o <<Answer(w)>> \o signals}
  \/ wire' = Append(wire, Failure(w)) /\ UNCHANGED <<world, scanning>>

HandleOperation ==
  /\ Take
  /\ Oldest.kind = "operation" /\ Oldest.to = instance
  /\ \/ Handled(Oldest) /\ UNCHANGED held
     \/ /\ Oldest.call.operation \in {"StartDiscovery", "Pair", "Connect"}
        /\ held' = held \cup {Oldest}
        /\ UNCHANGED <<wire, world, scanning>>

(* A call that took its time is done. *)
Complete(w) ==
  /\ held' = held \ {w}
  /\ Handled(w)
  /\ UNCHANGED <<sent, instance, spent>> /\ Environment

-----------------------------------------------------------------------------
NewBackend ==
  [started |-> FALSE, owner |-> None, generation |-> 0, revision |-> 0,
   refreshing |-> FALSE, registered |-> FALSE, ids |-> NoIds,
   minted |-> [o \in Objects |-> 0], adapters |-> {}, devices |-> {},
   owned |-> {}, starting |-> {}, agentDevices |-> NoIds, interactions |-> {},
   watchers |-> {}, deferred |-> <<>>]

(* A daemon runs; it may have crashed before start(). *)
BackendInit ==
  /\ backend = NewBackend /\ emitted = <<>>
  /\ wire = <<>> /\ sent = <<>> /\ held = {} /\ instance = 0 /\ scanning = {}
  /\ \E present \in {Adapters, Objects} :
       world = [present |-> present, powered |-> Adapters, version |-> 0,
                incarnation |-> [o \in Objects |-> IF o \in present THEN 1 ELSE 0]]
  /\ spent = [stopped |-> FALSE, launches |-> 0, changes |-> 0, errors |-> 0,
              agentCalls |-> 0]
  /\ shown = Nothing /\ heard = 0 /\ named = {} /\ overlooked = {}

BackendStep ==
  \/ Start \/ Stop \/ Deliver \/ EmitDeferred
  \/ \E i \in backend.interactions : Respond(i)
  \/ \E w \in backend.watchers : LocalError(w)

DaemonStep ==
  \/ \E o \in Objects : Plug(o) \/ Unplug(o)
  \/ \E a \in Adapters : TogglePower(a)
  \/ \E d \in Devices : AgentCall(d)
  \/ Launch \/ Crash
  \/ Undeliverable \/ HandleQuery \/ HandleStop \/ HandleOperation
  \/ \E w \in held : Complete(w)
=============================================================================
