--------------------------- MODULE UDisks2Backend ---------------------------
(***************************************************************************)
(* The D-Bus half of the Storage component, src/storage/UDisks2Backend.cpp: *)
(* how the backend follows the owner of the UDisks name, keeps its opaque  *)
(* ids and its snapshot in step with the daemon, and reports operations.   *)
(*                                                                         *)
(* Each slot and each completion lambda is one action.  What it emits      *)
(* synchronously is left in "emitted", which the next step overwrites.     *)
(* The bus and the daemon are the environment:                             *)
(*   - everything the backend receives arrives in one order, "wire": owner *)
(*     changes, signals, and replies, each put there when it was sent;     *)
(*   - calls wait in "sent" until the bus or the daemon handles them, in   *)
(*     any order, and what it computes then may be "held" for some time    *)
(*     before it is sent;                                                  *)
(*   - any call may instead end in an error at any moment (LocalError): a  *)
(*     timeout, a refusal, or a daemon that died with the call.            *)
(* A device is one incarnation of an object; unplugging and plugging in    *)
(* again reuses the object path for another device.                        *)
(***************************************************************************)
EXTENDS Naturals, Sequences, FiniteSets, SequencesExt

CONSTANTS
  Drives,      \* the keys <path>#org.freedesktop.UDisks2.Drive
  Volumes,     \* the keys <path>#org.freedesktop.UDisks2.Block
  DriveOf,     \* the drive a volume is on
  None,        \* the empty string: no owner, no id
  ServiceName, \* the well-known name, which activates the daemon
  MaxStarts, MaxCalls, MaxEvents \* bounds, for TLC

Objects == Drives \cup Volumes

ASSUME BackendConstants ==
  /\ Drives \cap Volumes = {}
  /\ IsFiniteSet(Objects)
  /\ DriveOf \in [Volumes -> Drives]
  /\ None \notin Nat /\ ServiceName \notin Nat /\ None # ServiceName

VARIABLES
  \* the backend
  started, owner, generation, revision, refreshing, completions,
  ids,       \* ids_: the id of each key, or None
  minted,    \* how many ids each key has had; an id is <<key, n>>
  watchers,  \* the QDBusPendingCallWatchers that have not fired
  deferred,  \* singleShot(0) emissions of execute()
  emitted,   \* the signals the last step emitted, in order
  \* the bus and the daemon
  wire, sent, held,
  instance,  \* the running daemon, or None
  world,     \* what the daemon manages
  spent,     \* what the bounds count
  \* history
  shown,     \* the world of the last snapshot emitted, or Nothing
  heard,     \* the newest world change the current connection has told of
  named      \* which incarnation each emitted id has stood for

backendVars == <<started, owner, generation, revision, refreshing, completions,
                 ids, minted, watchers, deferred>>
busVars == <<wire, sent, held, instance, world, spent>>
historyVars == <<shown, heard, named>>
vars == <<backendVars, busVars, historyVars, emitted>>

Nothing == [present |-> {}, mounted |-> {}, incarnation |-> <<>>, version |-> 0]

VolumesOn(d) == {v \in Volumes : DriveOf[v] = d}

(* MaxEvents bounds what the environment does of its own: launching the     *)
(* daemon, changing the world, failing a call.                              *)
Budget == spent.launches + spent.changes + spent.errors < MaxEvents

Disturbed == Budget /\ spent' = [spent EXCEPT !.changes = @ + 1]

Live(identifiers) == {identifiers[o] : o \in Objects} \ {None}

-----------------------------------------------------------------------------
(* Pieces shared by the handlers.                                           *)

NoIds == [o \in Objects |-> None]

Unavailable == [signal |-> "snapshotChanged", available |-> FALSE,
                ids |-> NoIds, world |-> Nothing]

Finished(c, error, version) ==
  [signal |-> "operationFinished", call |-> c, error |-> error, version |-> version]

(* refresh(), in a state with these values of generation_, revision_ and    *)
(* owner_; "busy" is refreshing_ and "others" are the other watchers.       *)
refresh(g, rev, to, busy, others) ==
  LET call == IF busy \/ to = None THEN {}
              ELSE {[kind |-> "refresh", generation |-> g, revision |-> rev, to |-> to]}
  IN /\ refreshing' = (busy \/ call # {})
     /\ watchers' = others \cup call
     /\ sent' = sent \cup call

(* changed(): a newer revision, and a refresh unless one is outstanding. *)
changed(others) ==
  /\ revision' = revision + 1
  /\ refresh(generation, revision + 1, IF started THEN owner ELSE None,
             refreshing, others)
  /\ UNCHANGED <<started, owner, generation>>

setOwner(new, others) ==
  /\ generation' = generation + 1 /\ revision' = revision + 1
  /\ owner' = new
  /\ ids' = NoIds /\ completions' = <<>>
  /\ emitted' = <<Unavailable>> /\ shown' = Nothing /\ heard' = 0
  /\ refresh(generation + 1, revision + 1, new, FALSE, others)
  /\ UNCHANGED <<minted, named, deferred>>

(* idFor() for every key of the snapshot; the other ids are erased. *)
idsFor(shot) ==
  [o \in Objects |-> IF o \notin shot.present THEN None
                     ELSE IF ids[o] # None THEN ids[o] ELSE <<o, minted[o] + 1>>]

(* Mutant: a waiting mount is not checked against the new snapshot. *)
Verdict_unchecked(c, identifiers) == c

(* A mount whose volume is not in the snapshot has failed. *)
Verdict(c, identifiers) ==
  IF c.call.operation = "Mount" /\ c.call.target \notin Live(identifiers)
  THEN Finished(c.call, "Disappeared", c.version)
  ELSE c

(* publish() and then the completions that waited for it. *)
publish(shot) ==
  /\ ids' = idsFor(shot)
  /\ minted' = [o \in Objects |->
       IF o \in shot.present /\ ids[o] = None THEN minted[o] + 1 ELSE minted[o]]
  /\ completions' = <<>>
  /\ emitted' = <<[signal |-> "snapshotChanged", available |-> TRUE,
                   ids |-> ids', world |-> shot]>>
                  \o [i \in DOMAIN completions |-> Verdict(completions[i], ids')]
  /\ shown' = shot
  /\ named' = named \cup {[id |-> ids'[o], incarnation |-> shot.incarnation[o]] :
                            o \in shot.present}
  /\ UNCHANGED heard

(* The snapshot is withdrawn, and the results that waited are dropped. *)
refreshFailed ==
  /\ ids' = NoIds /\ completions' = <<>>
  /\ emitted' = <<Unavailable>> /\ shown' = Nothing
  /\ UNCHANGED <<minted, heard, named>>

-----------------------------------------------------------------------------
(* What the controller calls.                                               *)

start ==
  /\ ~started /\ spent.starts < MaxStarts
  /\ started' = TRUE
  /\ LET call == [kind |-> "owner", generation |-> generation, revision |-> 0,
                  to |-> ServiceName]
     IN watchers' = watchers \cup {call} /\ sent' = sent \cup {call}
  /\ spent' = [spent EXCEPT !.starts = @ + 1]
  /\ emitted' = <<>>
  /\ UNCHANGED <<owner, generation, revision, refreshing, completions, ids, minted,
                 deferred, wire, held, instance, world, historyVars>>

stop ==
  /\ started
  /\ started' = FALSE
  /\ setOwner(None, watchers)
  /\ UNCHANGED <<wire, held, instance, world, spent>>

(* Mutant: an id that names nothing any more is not answered. *)
execute_silent(c) ==
  LET named_by == {o \in (IF c.operation \in {"Eject", "PowerOff"} THEN Drives ELSE Volumes) :
                     ids[o] = c.target}
  IN /\ LET call(o) == [kind |-> "operation", generation |-> generation,
                        revision |-> 0, to |-> owner, object |-> o, call |-> c]
        IN /\ watchers' = watchers \cup {call(o) : o \in named_by}
           /\ sent' = sent \cup {call(o) : o \in named_by}
     /\ UNCHANGED <<started, owner, generation, revision, refreshing, completions,
                    ids, minted, deferred, wire, held, instance, world, historyVars>>

(* execute(): a call to the object the id names now; "tail" is what the     *)
(* call carries besides (which request and step it is for).                 *)
execute(c) ==
  LET named_by == {o \in (IF c.operation \in {"Eject", "PowerOff"} THEN Drives ELSE Volumes) :
                     ids[o] = c.target}
  IN /\ IF named_by = {} \/ owner = None
        THEN /\ deferred' = Append(deferred, c)
             /\ UNCHANGED <<watchers, sent>>
        ELSE \E o \in named_by :
               LET call == [kind |-> "operation", generation |-> generation,
                            revision |-> 0, to |-> owner, object |-> o, call |-> c]
               IN /\ watchers' = watchers \cup {call} /\ sent' = sent \cup {call}
                  /\ UNCHANGED deferred
     /\ UNCHANGED <<started, owner, generation, revision, refreshing, completions,
                    ids, minted, wire, held, instance, world, historyVars>>

-----------------------------------------------------------------------------
(* The slots and the completion lambdas.                                    *)

ownerChanged(new) ==
  IF started
  THEN setOwner(new, watchers) /\ UNCHANGED started
  ELSE /\ emitted' = <<>>
       /\ UNCHANGED <<backendVars, sent, historyVars>>

(* Signals are subscribed to between start() and stop(). *)
Unsubscribed == ~started /\ emitted' = <<>> /\ UNCHANGED <<backendVars, sent, historyVars>>

Told(version) ==
  /\ heard' = IF owner = None \/ heard > version THEN heard ELSE version
  /\ UNCHANGED <<shown, named>>

(* interfacesAdded() and propertiesChanged(). *)
propertiesChanged(version) ==
  \/ Unsubscribed
  \/ /\ started
     /\ changed(watchers)
     /\ Told(version)
     /\ emitted' = <<>>
     /\ UNCHANGED <<completions, ids, minted, deferred>>

(* Mutant: the id is left for the next snapshot to retire. *)
interfacesRemoved_kept(o, version) ==
  \/ Unsubscribed
  \/ /\ started
     /\ changed(watchers)
     /\ Told(version)
     /\ emitted' = <<>>
     /\ UNCHANGED <<completions, ids, minted, deferred>>

interfacesRemoved(o, version) ==
  \/ Unsubscribed
  \/ /\ started
     /\ ids' = [ids EXCEPT ![o] = None]
     /\ changed(watchers)
     /\ Told(version)
     /\ emitted' = <<>>
     /\ UNCHANGED <<completions, minted, deferred>>

(* A reply that belongs to an earlier connection. *)
Dropped(w) ==
  /\ watchers' = watchers \ {w}
  /\ emitted' = <<>>
  /\ UNCHANGED <<started, owner, generation, revision, refreshing, completions, ids,
                 minted, deferred, sent, historyVars>>

(* start()'s GetNameOwner.  NameHasNoOwner is the answer None. *)
ownerReply(w, error, new) ==
  \/ (~started \/ w.generation # generation) /\ Dropped(w)
  \/ /\ started /\ w.generation = generation
     /\ IF error
        THEN /\ watchers' = watchers \ {w}
             /\ emitted' = <<Unavailable>> /\ shown' = Nothing
             /\ UNCHANGED <<owner, generation, revision, refreshing, completions, ids,
                            minted, deferred, sent, heard, named>>
        ELSE setOwner(IF new = None THEN ServiceName ELSE new, watchers \ {w})
     /\ UNCHANGED started

(* Mutant: a snapshot that is too old is dropped without asking again. *)
refreshReply_dropped(w, error, shot) ==
  \/ w.generation # generation /\ Dropped(w)
  \/ /\ w.generation = generation /\ w.revision # revision
     /\ Dropped(w)
  \/ /\ w.generation = generation /\ w.revision = revision /\ ~error
     /\ publish(shot)
     /\ refreshing' = FALSE /\ watchers' = watchers \ {w}
     /\ UNCHANGED <<started, owner, generation, revision, deferred, sent>>

(* refresh()'s GetManagedObjects. *)
refreshReply(w, error, shot) ==
  \/ w.generation # generation /\ Dropped(w)
  \/ /\ w.generation = generation /\ w.revision # revision
     /\ refresh(generation, revision, owner, FALSE, watchers \ {w})
     /\ emitted' = <<>>
     /\ UNCHANGED <<started, owner, generation, revision, completions, ids, minted,
                    deferred, historyVars>>
  \/ /\ w.generation = generation /\ w.revision = revision
     /\ IF error THEN refreshFailed ELSE publish(shot)
     /\ refreshing' = FALSE /\ watchers' = watchers \ {w}
     /\ UNCHANGED <<started, owner, generation, revision, deferred, sent>>

(* Mutant: the completion waits for the outstanding refresh, if there is    *)
(* one, although that may have been computed before the operation.          *)
operationReply_joinsRefresh(w, error, version) ==
  \/ w.generation # generation /\ Dropped(w)
  \/ /\ w.generation = generation
     /\ completions' = Append(completions, Finished(w.call, error, version))
     /\ refresh(generation, revision, owner, refreshing, watchers \ {w})
     /\ Told(version)
     /\ emitted' = <<>>
     /\ UNCHANGED <<started, owner, generation, revision, ids, minted, deferred>>

(* execute()'s call: the result waits for a refresh that starts after it. *)
operationReply(w, error, version) ==
  \/ w.generation # generation /\ Dropped(w)
  \/ /\ w.generation = generation
     /\ completions' = Append(completions, Verdict(Finished(w.call, error, version), ids))
     /\ changed(watchers \ {w})
     /\ Told(version)
     /\ emitted' = <<>>
     /\ UNCHANGED <<ids, minted, deferred>>

(* The singleShot(0) of execute(). *)
reportDisappeared ==
  /\ deferred # <<>>
  /\ deferred' = Tail(deferred)
  /\ emitted' = <<Finished(Head(deferred), "Disappeared", 0)>>
  /\ UNCHANGED <<started, owner, generation, revision, refreshing, completions, ids,
                 minted, watchers, busVars, historyVars>>

-----------------------------------------------------------------------------
(* The bus: delivery, and calls that end without an answer.                 *)

Fired(w, m) ==
  \/ w.kind = "owner" /\ ownerReply(w, m.error # "none", m.owner)
  \/ w.kind = "refresh" /\ refreshReply(w, m.error # "none", m.world)
  \/ w.kind = "operation" /\ operationReply(w, m.error, m.version)

Deliver ==
  /\ wire # <<>>
  /\ wire' = Tail(wire)
  /\ LET m == Head(wire)
     IN \/ m.kind = "owner" /\ ownerChanged(m.owner)
        \/ m.kind = "changed" /\ propertiesChanged(m.version)
        \/ m.kind = "removed" /\ interfacesRemoved(m.object, m.version)
        \/ m.kind = "reply" /\ m.watcher \in watchers /\ Fired(m.watcher, m)
        \/ /\ m.kind = "reply" /\ m.watcher \notin watchers
           /\ emitted' = <<>> /\ UNCHANGED <<backendVars, sent, historyVars>>
  /\ UNCHANGED <<held, instance, world, spent>>

LocalError(w) ==
  /\ Budget
  /\ spent' = [spent EXCEPT !.errors = @ + 1]
  /\ Fired(w, [error |-> "Upstream", owner |-> None, world |-> Nothing, version |-> 0])
  /\ UNCHANGED <<wire, held, instance, world>>

-----------------------------------------------------------------------------
(* The bus and the daemon.                                                  *)

Environment == emitted' = <<>> /\ UNCHANGED <<backendVars, historyVars>>

Reply(w, error, new, shot, version) ==
  [kind |-> "reply", watcher |-> w, error |-> error, owner |-> new,
   world |-> shot, version |-> version]

Signals(removed, version) ==
  IF removed = {} THEN <<[kind |-> "changed", version |-> version]>>
  ELSE [i \in 1..Cardinality(removed) |->
          [kind |-> "removed", object |-> SetToSeq(removed)[i], version |-> version]]

World(present, mounted, incarnation) ==
  [present |-> present, mounted |-> mounted, incarnation |-> incarnation,
   version |-> world.version + 1]

(* The world changes; a running daemon says so at once. *)
Change(new) ==
  /\ world' = new
  /\ wire' = IF instance = None THEN wire
             ELSE wire \o Signals(world.present \ new.present, new.version)

Plug(o) ==
  /\ Disturbed
  /\ o \notin world.present
  /\ o \in Volumes => DriveOf[o] \in world.present
  /\ Change(World(world.present \cup {o}, world.mounted,
                  [world.incarnation EXCEPT ![o] = @ + 1]))
  /\ UNCHANGED <<sent, held, instance>> /\ Environment

Without(gone) == World(world.present \ gone, world.mounted \ gone, world.incarnation)

Unplug(o) ==
  /\ Disturbed
  /\ o \in world.present
  /\ Change(Without({o} \cup VolumesOn(o)))
  /\ UNCHANGED <<sent, held, instance>> /\ Environment

(* Another client of the daemon mounts or unmounts. *)
ToggleMount(v) ==
  /\ Disturbed /\ instance # None
  /\ v \in world.present
  /\ Change(World(world.present, IF v \in world.mounted THEN world.mounted \ {v}
                                 ELSE world.mounted \cup {v}, world.incarnation))
  /\ UNCHANGED <<sent, held, instance>> /\ Environment

HandleOwner(w) ==
  /\ w.kind = "owner"
  /\ sent' = sent \ {w}
  /\ wire' = Append(wire, Reply(w, "none", instance, Nothing, 0))
  /\ UNCHANGED <<held, instance, world, spent>> /\ Environment

Reaches(w) == instance # None /\ w.to \in {instance, ServiceName}

HandleRefresh(w) ==
  /\ w.kind = "refresh" /\ Reaches(w)
  /\ sent' = sent \ {w}
  /\ held' = held \cup {<<Reply(w, "none", None, world, world.version)>>}
  /\ UNCHANGED <<wire, instance, world, spent>> /\ Environment

Send(h) ==
  /\ held' = held \ {h}
  /\ wire' = wire \o h
  /\ UNCHANGED <<sent, instance, world, spent>> /\ Environment

Possible(operation, o) ==
  /\ o \in world.present
  /\ CASE operation = "Mount" -> o \notin world.mounted
       [] operation = "Unmount" -> o \in world.mounted
       [] OTHER -> VolumesOn(o) \cap world.mounted = {}

Performed(operation, o) ==
  CASE operation = "Mount" -> World(world.present, world.mounted \cup {o}, world.incarnation)
    [] operation = "Unmount" -> World(world.present, world.mounted \ {o}, world.incarnation)
    [] operation = "Eject" -> Without(VolumesOn(o))
    [] operation = "PowerOff" -> Without({o} \cup VolumesOn(o))

(* An operation is performed and answered, or refused.  Its signals come    *)
(* before or after the reply; a property change may also come much later.   *)
HandleOperation(w) ==
  /\ w.kind = "operation" /\ Reaches(w)
  /\ sent' = sent \ {w}
  /\ \/ /\ Possible(w.call.operation, w.object)
        /\ LET new == Performed(w.call.operation, w.object)
               signals == Signals(world.present \ new.present, new.version)
               answer == <<Reply(w, "none", None, Nothing, new.version)>>
           IN /\ world' = new
              /\ \/ /\ wire' \in {wire \o signals \o answer, wire \o answer \o signals}
                    /\ UNCHANGED held
                 \/ /\ new.present = world.present
                    /\ wire' = wire \o answer
                    /\ held' = held \cup {signals}
     \/ /\ wire' = Append(wire, Reply(w, "Upstream", None, Nothing, world.version))
        /\ UNCHANGED <<held, world>>
  /\ UNCHANGED <<instance, spent>> /\ Environment

Launch ==
  /\ instance = None /\ Budget
  /\ spent' = [spent EXCEPT !.launches = @ + 1]
  /\ instance' = spent.launches + 1
  /\ wire' = Append(wire, [kind |-> "owner", owner |-> spent.launches + 1])
  /\ UNCHANGED <<sent, held, world>> /\ Environment

(* The daemon dies; the calls it had not answered never get an answer. *)
Crash ==
  /\ instance # None
  /\ instance' = None
  /\ held' = {} /\ sent' = {w \in sent : w.kind = "owner"}
  /\ wire' = Append(wire, [kind |-> "owner", owner |-> None])
  /\ UNCHANGED <<world, spent>> /\ Environment

-----------------------------------------------------------------------------
Init ==
  /\ started = FALSE /\ owner = None /\ generation = 0 /\ revision = 0
  /\ refreshing = FALSE /\ completions = <<>>
  /\ ids = NoIds /\ minted = [o \in Objects |-> 0]
  /\ watchers = {} /\ deferred = <<>> /\ emitted = <<>>
  /\ wire = <<>> /\ sent = {} /\ held = {} /\ instance = None
  /\ world \in {[present |-> P, mounted |-> {}, version |-> 0,
                 incarnation |-> [o \in Objects |-> IF o \in P THEN 1 ELSE 0]] :
                  P \in {{}, Objects}}
  /\ spent = [starts |-> 0, calls |-> 0, launches |-> 0, changes |-> 0, errors |-> 0]
  /\ shown = Nothing /\ heard = 0 /\ named = {}

(* A call of the controller, for the id it was last shown for an object,    *)
(* which may have been retired since.                                       *)
Call(operation, target) ==
  /\ spent.calls < MaxCalls
  /\ spent' = [spent EXCEPT !.calls = @ + 1]
  /\ execute([operation |-> operation, target |-> target, tag |-> spent.calls + 1])
  /\ emitted' = <<>>

Backend ==
  \/ start \/ stop \/ reportDisappeared \/ Deliver
  \/ \E o \in Volumes, operation \in {"Mount", "Unmount"} :
       minted[o] > 0 /\ Call(operation, <<o, minted[o]>>)
  \/ \E o \in Drives, operation \in {"Eject", "PowerOff"} :
       minted[o] > 0 /\ Call(operation, <<o, minted[o]>>)
  \/ \E w \in watchers : LocalError(w)

Daemon ==
  \/ \E o \in Objects : Plug(o) \/ Unplug(o)
  \/ \E v \in Volumes : ToggleMount(v)
  \/ \E w \in sent : HandleOwner(w) \/ HandleRefresh(w) \/ HandleOperation(w)
  \/ \E h \in held : Send(h)
  \/ Launch \/ Crash

Next == Backend \/ Daemon

Spec == Init /\ [][Next]_vars

-----------------------------------------------------------------------------
(* Properties.                                                              *)

(* An id names one incarnation of one object: it is not reused for the      *)
(* device that takes over the object path (R3 "IDs must not survive         *)
(* disappearance").                                                         *)
OneDevicePerId == \A p, q \in named : p.id = q.id => p.incarnation = q.incarnation

Results == {i \in DOMAIN emitted : emitted[i].signal = "operationFinished"}

(* A successful result comes right after a snapshot that is no older than   *)
(* the operation ("upstream state is refreshed before reporting             *)
(* completion").                                                            *)
CompletionsFresh ==
  \A i \in Results :
    emitted[i].error = "none" =>
      /\ emitted[1].signal = "snapshotChanged" /\ emitted[1].available
      /\ emitted[1].world.version >= emitted[i].version

(* A mount is reported successful only for a volume of the snapshot         *)
(* published with it: the volume may have gone while the result waited.     *)
MountedVolumeListed ==
  \A i \in Results :
    (emitted[i].error = "none" /\ emitted[i].call.operation = "Mount") =>
      emitted[i].call.target \in Live(emitted[1].ids)

(* When nothing travels between backend and daemon any more, the consumer   *)
(* is shown the world as it is, whatever was lost or overtaken before; only *)
(* a call that failed may leave it without (it is not repeated).            *)
QuietShowsWorld ==
  (started /\ instance # None /\ spent.errors = 0
     /\ wire = <<>> /\ sent = {} /\ held = {}) => shown = world

=============================================================================
