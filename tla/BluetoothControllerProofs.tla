----------------------- MODULE BluetoothControllerProofs -----------------------
(***************************************************************************)
(* Ids, snapshots and interactions of the Bluetooth component, for any     *)
(* objects, requests and bounds: OneObjectPerId, Settled,                  *)
(* InteractionsListed and NoOrphanScan.                                    *)
(*                                                                         *)
(* A handler takes a state "s" of the backend to another, while "q" is     *)
(* what the bus still delivers.  The invariant is therefore stated of any  *)
(* such pair, and each handler is shown to keep it: a snapshot that may    *)
(* still be published was asked for after everything told so far, and      *)
(* whatever was unplugged since is told before it, which makes it stale,   *)
(* or after it, which retires the id.                                      *)
(*                                                                         *)
(* The discovery sessions have an invariant of their own, ScanInv, which   *)
(* follows each StartDiscovery from its request to its answer.             *)
(***************************************************************************)
EXTENDS BluetoothController, FiniteSetTheorems, TLAPS

Ids == (Objects \X Nat) \cup {None}
Owners == Nat \cup {None}
Results == {"none", "Upstream", "Disappeared", "AgentUnavailable", "InvalidTarget", "Busy"}
Requests == [request : RequestIds, operation : Operations, target : Objects \X Nat]

Queries == [kind : {"owner", "register"}, to : Owners, generation : Nat]
Collections == [kind : {"refresh"}, to : Owners, generation : Nat, revision : Nat]
Orders == [kind : {"operation"}, to : Owners, generation : Nat, object : Objects,
           call : Requests, step : {"timeout", "set", "only"}]
Calls == Queries \cup Collections \cup Orders
Stops == [kind : {"stop"}, to : Owners, object : Objects]

Worlds == [present : SUBSET Objects, powered : SUBSET Objects, incarnation : [Objects -> Nat],
           version : Nat]
OwnerSignals == [kind : {"owner"}, owner : Owners]
ChangeSignals == [kind : {"changed"}, from : Nat, version : Nat]
RemovalSignals == [kind : {"removed"}, object : Objects, from : Nat, version : Nat]
AgentCalls == [kind : {"agent"}, from : Nat, object : Objects, version : Nat]
Answers == [kind : {"reply"}, watcher : Calls, error : {"none"}, owner : Owners, world : Worlds]
Failures == [kind : {"reply"}, watcher : Calls, error : {"Upstream"}, owner : {None},
             world : {Nothing}]
Replies == Answers \cup Failures
Messages == OwnerSignals \cup ChangeSignals \cup RemovalSignals \cup AgentCalls \cup Replies

Finishes == [signal : {"operationFinished"}, call : Requests, error : Results]
Prompts == [signal : {"agentRequested"}, device : Ids]
Pictures == [signal : {"snapshotChanged"}, available : BOOLEAN, ids : [Objects -> Ids],
             listed : SUBSET Ids, world : Worlds \cup {Nothing}]

Backends ==
  [started : BOOLEAN, owner : Owners, generation : Nat, revision : Nat, refreshing : BOOLEAN,
   registered : BOOLEAN, ids : [Objects -> Ids], minted : [Objects -> Nat],
   adapters : SUBSET Objects, devices : SUBSET Objects, owned : SUBSET Objects,
   starting : SUBSET Objects, agentDevices : [Objects -> Ids],
   interactions : SUBSET [device : Ids, number : Nat], watchers : SUBSET Calls,
   deferred : Seq(Finishes)]

States == [b : Backends, calls : Seq(Calls \cup Stops),
           emits : Seq(Finishes \cup Prompts \cup Pictures)]

(* The bus and the daemon, and what the controller passes to execute(). *)
Types ==
  /\ wire \in Seq(Messages)
  /\ held \subseteq Orders /\ IsFiniteSet(held)
  /\ instance \in Owners /\ world \in Worlds
  /\ spent \in [stopped : BOOLEAN, launches : Nat, changes : Nat, errors : Nat, agentCalls : Nat]
  /\ request \in [RequestIds -> [operation : Operations \cup {"none"},
                                 target : (Objects \X Nat) \cup {None},
                                 error : {"none", "Unavailable", "Busy"}]]
  /\ pending \subseteq RequestIds
  /\ \A r \in pending : request[r].operation \in Operations /\ request[r].target \in Objects \X Nat

-----------------------------------------------------------------------------
(* The calls for snapshots. *)

Answered(q) == {q[i].watcher : i \in {j \in 1..Len(q) : q[j].kind = "reply"}}

Under(s, q) == ToSet(sent) \cup ToSet(s.calls) \cup Answered(q)

Refreshes(b, calls) == {w \in calls : w.kind = "refresh" /\ w.generation = b.generation}

(* No call is of a later connection, or asks for a later revision; of this    *)
(* connection one is waited for at most, and none is newer.                   *)
Asks(s, q) ==
  /\ \A w \in s.b.watchers \cup Under(s, q) : w.kind = "refresh" =>
       w.generation <= s.b.generation /\ w.revision <= s.b.revision
  /\ \A w \in Refreshes(s.b, s.b.watchers) :
       /\ s.b.refreshing /\ s.b.owner # None /\ w.to = s.b.owner
       /\ \A x \in Refreshes(s.b, s.b.watchers) : x = w
       /\ \A x \in Refreshes(s.b, Under(s, q)) : x.revision <= w.revision

(* A reply that will be published if it arrives now. *)
Publishable(b, m) ==
  /\ m.kind = "reply" /\ m.error = "none"
  /\ m.watcher \in Refreshes(b, b.watchers) /\ m.watcher.revision = b.revision

-----------------------------------------------------------------------------
(* The daemon the backend is connected to. *)

Changes(q) == \E j \in 1..Len(q) : q[j].kind = "owner"

Connection(s, q) ==
  /\ ~s.b.started => s.b.owner = None
  /\ s.b.owner = None => s.b.ids = NoIds /\ s.b.interactions = {}
  /\ s.b.owner = instance \/ s.b.owner = None \/ Changes(q)

(* A message "m" says truly who owns the name, before the messages "r". *)
TellsOwner(m) == m.kind = "owner" \/ (m.kind = "reply" /\ m.watcher.kind = "owner" /\ m.error = "none")

(* What makes an answer of daemon f stale, and what retires the id of o.      *)
Disturbs(m, f) == m.kind = "owner" \/ (m.kind \in {"changed", "removed"} /\ m.from = f)
Retires(m, f, o) == m.kind = "owner" \/ (m.kind = "removed" /\ m.from = f /\ m.object = o)
Calm(q, k, f) == \A j \in 1..Len(q) : j < k => ~Disturbs(q[j], f)
Retired(q, k, f, o) == \E j \in 1..Len(q) : k < j /\ Retires(q[j], f, o)

(* Who owns the name, and which device asks to be paired, is as told, or what *)
(* became of it is told later.                                                *)
Announced(q) ==
  \A k \in 1..Len(q) :
    /\ TellsOwner(q[k]) =>
         q[k].owner = instance \/ \E j \in 1..Len(q) : k < j /\ q[j].kind = "owner"
    /\ q[k].kind = "agent" =>
         \/ Retired(q, k, q[k].from, q[k].object)
         \/ instance = q[k].from /\ q[k].object \in world.present

-----------------------------------------------------------------------------
(* Ids. *)

(* The ids that have been published once the handler is done. *)
NamedBy(s) == named \cup UNION {Names(e) : e \in Snapshots(s)}

(* An id carries the number of ids its object has had. *)
Minted(s) ==
  /\ \A p \in NamedBy(s) : \E o \in Objects : \E n \in 1..s.b.minted[o] : p.id = <<o, n>>
  /\ \A o \in Objects : s.b.ids[o] # None => \E n \in 1..s.b.minted[o] : s.b.ids[o] = <<o, n>>

OneObject(s) == \A p, r \in NamedBy(s) : p.id = r.id => p.incarnation = r.incarnation

(* The daemon runs, and manages this incarnation of o. *)
Managed(o, n) == instance # None /\ o \in world.present /\ world.incarnation[o] = n

(* If the id was ever published, it was for this incarnation. *)
For(s, id, n) == \A p \in NamedBy(s) : p.id = id => p.incarnation = n

(* The id of an object is that of the device that is there, or will retire.   *)
IdsStand(s, q) ==
  \A o \in Objects : s.b.ids[o] # None =>
    \/ Retired(q, 0, s.b.owner, o)
    \/ \E n \in Nat : Managed(o, n) /\ For(s, s.b.ids[o], n)

(* An answer at place k agrees with the ids there are, and the devices it     *)
(* lists are there unless their end is told after it.                         *)
Agrees(s, q, shot, k) ==
  \A o \in shot.present :
    /\ s.b.ids[o] # None => For(s, s.b.ids[o], shot.incarnation[o])
    /\ Retired(q, k, s.b.owner, o) \/ Managed(o, shot.incarnation[o])

AnswersStand(s, q) ==
  \A k \in 1..Len(q) :
    Publishable(s.b, q[k]) /\ Calm(q, k, s.b.owner) => Agrees(s, q, q[k].world, k)

(* With no refresh outstanding the agent knows the ids in use alone. *)
Interacts(s) ==
  ~s.b.refreshing =>
    /\ \A i \in s.b.interactions : i.device \in Live(s.b.ids)
    /\ s.b.owner # None =>
         \A o \in Objects : s.b.agentDevices[o] # None => s.b.ids[o] = s.b.agentDevices[o]

(* What holds in the middle of a handler, too. *)
Base(s, q) ==
  /\ s \in States /\ sent \in Seq(Calls \cup Stops)
  /\ Asks(s, q) /\ Connection(s, q) /\ Announced(q)
  /\ Minted(s) /\ OneObject(s) /\ IdsStand(s, q)

Sound(s, q) == Base(s, q) /\ AnswersStand(s, q) /\ Interacts(s)

(* The world of the last snapshot, once the handler is done. *)
ShownBy(s) == IF Snapshots(s) = {} THEN shown ELSE (CHOOSE e \in Snapshots(s) : TRUE).world

(* What is shown, or on its way to be, is no older than h.                    *)
Fresh(s, q, h) ==
  /\ \A e, f \in Snapshots(s) : e = f
  /\ s.b.owner = None => ShownBy(s) = Nothing
  /\ (ShownBy(s) # Nothing /\ ~s.b.refreshing) => ShownBy(s).version >= h
  /\ \A k \in 1..Len(q) : Publishable(s.b, q[k]) => q[k].world.version >= h

(* What was told, the world is or has been.                                   *)
Versions ==
  /\ heard \in Nat /\ heard <= world.version
  /\ \A k \in 1..Len(wire) : wire[k].kind \in {"changed", "removed"} => wire[k].version <= world.version

Emissions == Finishes \cup Prompts \cup Pictures

(* Between two handlers. *)
Session == Sound(Idle, wire) /\ Fresh(Idle, wire, heard) /\ emitted \in Seq(Emissions)

IInv == Types /\ Session /\ Versions

-----------------------------------------------------------------------------
LEMMA SetOfAppended ==
  ASSUME NEW S, NEW q \in Seq(S), NEW x \in S
  PROVE  ToSet(Append(q, x)) = ToSet(q) \cup {x}
<1>1. /\ Append(q, x) \in Seq(S) /\ Len(Append(q, x)) = Len(q) + 1 /\ Len(q) \in Nat
      /\ \A i \in 1..Len(q) : Append(q, x)[i] = q[i]
      /\ Append(q, x)[Len(q) + 1] = x
      /\ DOMAIN q = 1..Len(q) /\ DOMAIN Append(q, x) = 1..(Len(q) + 1)
  OBVIOUS
<1> DEFINE r == Append(q, x)
<1> HIDE DEF r
<1>2. \A i \in 1..Len(q) : i \in DOMAIN r /\ r[i] = q[i]
  BY <1>1 DEF r
<1>3. Len(q) + 1 \in DOMAIN r /\ r[Len(q) + 1] = x
  BY <1>1 DEF r
<1>4. \A i \in DOMAIN r : i \in 1..Len(q) \/ i = Len(q) + 1
  BY <1>1 DEF r
<1>5. ToSet(r) \subseteq ToSet(q) \cup {x}
  BY <1>1, <1>2, <1>3, <1>4 DEF ToSet
<1>6. ToSet(q) \cup {x} \subseteq ToSet(r)
  BY <1>1, <1>2, <1>3 DEF ToSet
<1> QED
  BY <1>5, <1>6 DEF r

(* The pieces handlers are made of. *)

LEMMA WatchedDoes ==
  ASSUME NEW s \in States, NEW w \in Calls
  PROVE  /\ Watched(s, w) \in States
         /\ Watched(s, w).b = [s.b EXCEPT !.watchers = @ \cup {w}]
         /\ Watched(s, w).calls = Append(s.calls, w) /\ Watched(s, w).emits = s.emits
<1>1. Watched(s, w) = [s EXCEPT !.calls = Append(s.calls, w), !.b = [s.b EXCEPT !.watchers = @ \cup {w}]]
  BY DEF Watched, States
<1>2. [s.b EXCEPT !.watchers = @ \cup {w}] \in Backends
  BY DEF States, Backends
<1>3. Append(s.calls, w) \in Seq(Calls \cup Stops)
  BY DEF States
<1> QED
  BY <1>1, <1>2, <1>3 DEF States

LEMMA ToldDoes ==
  ASSUME NEW s \in States, NEW calls \in Seq(Calls \cup Stops)
  PROVE  /\ Told(s, calls) \in States /\ Told(s, calls).b = s.b
         /\ Told(s, calls).calls = s.calls \o calls /\ Told(s, calls).emits = s.emits
<1>1. s.calls \o calls \in Seq(Calls \cup Stops)
  BY DEF States
<1> QED
  BY <1>1 DEF Told, States

LEMMA EmitDoes ==
  ASSUME NEW s \in States, NEW e \in Finishes \cup Prompts \cup Pictures
  PROVE  /\ Emit(s, e) \in States /\ Emit(s, e).b = s.b
         /\ Emit(s, e).calls = s.calls /\ Emit(s, e).emits = Append(s.emits, e)
         /\ Snapshots(Emit(s, e)) = IF e.signal = "snapshotChanged" THEN Snapshots(s) \cup {e}
                                    ELSE Snapshots(s)
<1>1. s.emits \in Seq(Finishes \cup Prompts \cup Pictures)
  BY DEF States
<1>2. Append(s.emits, e) \in Seq(Finishes \cup Prompts \cup Pictures)
  BY <1>1
<1>3. /\ Emit(s, e) \in States /\ Emit(s, e).b = s.b
      /\ Emit(s, e).calls = s.calls /\ Emit(s, e).emits = Append(s.emits, e)
  BY <1>2 DEF Emit, States
<1>4. ToSet(Append(s.emits, e)) = ToSet(s.emits) \cup {e}
  BY <1>1, SetOfAppended
<1> QED
  BY <1>3, <1>4 DEF Snapshots

-----------------------------------------------------------------------------
(* What the invariant depends on. *)

SameLinks(b, c) ==
  /\ b.started => c.started
  /\ c.owner = b.owner
  /\ c.generation = b.generation /\ c.revision = b.revision /\ c.refreshing = b.refreshing
  /\ c.ids = b.ids /\ c.minted = b.minted /\ c.agentDevices = b.agentDevices

(* No refresh is asked for, or waited for, that was not before. *)
AsksNoMore(s, t) ==
  /\ \A w \in t.b.watchers : w.kind = "refresh" => w \in s.b.watchers
  /\ \A w \in ToSet(t.calls) : w.kind = "refresh" => w \in ToSet(s.calls)

LEMMA KeptBase ==
  ASSUME NEW s, NEW t \in States, NEW q, Base(s, q),
         SameLinks(s.b, t.b), AsksNoMore(s, t), Snapshots(t) = Snapshots(s),
         t.b.owner = None => t.b.interactions = {}
  PROVE  /\ Base(t, q)
         /\ AnswersStand(s, q) => AnswersStand(t, q)
         /\ \A h : Fresh(s, q, h) => Fresh(t, q, h)
<1>1. NamedBy(t) = NamedBy(s) /\ ShownBy(t) = ShownBy(s)
  BY DEF NamedBy, ShownBy
<1>2. /\ Refreshes(t.b, t.b.watchers) \subseteq Refreshes(s.b, s.b.watchers)
      /\ Refreshes(t.b, Under(t, q)) \subseteq Refreshes(s.b, Under(s, q))
      /\ \A w \in t.b.watchers \cup Under(t, q) : w.kind = "refresh" =>
           w \in s.b.watchers \cup Under(s, q)
  BY DEF SameLinks, AsksNoMore, Refreshes, Under
<1>3. Asks(t, q)
  BY <1>2 DEF Base, Asks, SameLinks
<1>4. Connection(t, q) /\ Announced(q)
  BY DEF Base, Connection, SameLinks
<1>5. Minted(t) /\ OneObject(t) /\ IdsStand(t, q)
  BY <1>1 DEF Base, Minted, OneObject, IdsStand, For, SameLinks
<1>6. \A m : Publishable(t.b, m) => Publishable(s.b, m)
  BY <1>2 DEF Publishable, SameLinks
<1>7. AnswersStand(s, q) => AnswersStand(t, q)
  BY <1>1, <1>6 DEF AnswersStand, Agrees, For, SameLinks
<1>8. ASSUME NEW h, Fresh(s, q, h) PROVE Fresh(t, q, h)
  BY <1>1, <1>6, <1>8 DEF Fresh, SameLinks
<1> QED
  BY <1>3, <1>4, <1>5, <1>7, <1>8 DEF Base

LEMMA KeptSound ==
  ASSUME NEW s, NEW t \in States, NEW q, NEW h, Sound(s, q), Fresh(s, q, h),
         SameLinks(s.b, t.b), AsksNoMore(s, t), Snapshots(t) = Snapshots(s),
         t.b.interactions \subseteq s.b.interactions
  PROVE  Sound(t, q) /\ Fresh(t, q, h)
<1>1. t.b.owner = None => t.b.interactions = {}
  BY DEF Sound, Base, Connection, SameLinks
<1>2. Base(t, q) /\ AnswersStand(t, q) /\ Fresh(t, q, h)
  BY <1>1, KeptBase DEF Sound
<1>3. Interacts(t)
  BY DEF Sound, Interacts, SameLinks
<1> QED
  BY <1>2, <1>3 DEF Sound

LEMMA CallKinds ==
  ASSUME NEW w \in Calls \cup Stops
  PROVE  /\ w.kind = "refresh" => w \in Collections /\ w.generation \in Nat /\ w.revision \in Nat
         /\ w.kind = "operation" => w \in Orders
         /\ w.kind \in {"owner", "register"} => w \in Queries
         /\ w.kind = "stop" => w \in Stops
         /\ w.kind \in {"owner", "register", "refresh", "operation", "stop"}
         /\ w \in Calls => w.generation \in Nat /\ w.kind # "stop"
BY DEF Calls, Stops, Queries, Collections, Orders

LEMMA MessageKinds ==
  ASSUME NEW m \in Messages
  PROVE  /\ m.kind = "owner" => m \in OwnerSignals
         /\ m.kind = "changed" => m \in ChangeSignals
         /\ m.kind = "removed" => m \in RemovalSignals
         /\ m.kind = "agent" => m \in AgentCalls
         /\ m.kind = "reply" => m \in Replies
         /\ m.kind \in {"owner", "changed", "removed", "agent", "reply"}
BY DEF Messages, OwnerSignals, ChangeSignals, RemovalSignals, AgentCalls, Replies, Answers, Failures

LEMMA ReplyTyped ==
  ASSUME NEW m \in Replies
  PROVE  /\ m.kind = "reply" /\ m.watcher \in Calls /\ m.error \in {"none", "Upstream"}
         /\ m.owner \in Owners /\ m.world \in Worlds \cup {Nothing}
         /\ m.error = "none" => m.world \in Worlds
         /\ m.error # "none" => m.owner = None
<1> USE DEF Replies, Answers, Failures
<1>1. None \in Owners
  BY DEF Owners
<1> HIDE DEF Calls, Worlds, Nothing, Owners
<1> QED
  BY <1>1

LEMMA UnderTyped ==
  ASSUME NEW s \in States, NEW q \in Seq(Messages), NEW w \in s.b.watchers \cup Under(s, q),
         sent \in Seq(Calls \cup Stops)
  PROVE  /\ w \in Calls \cup Stops
         /\ w.kind = "refresh" => w.generation \in Nat /\ w.revision \in Nat
<1>1. s.b.watchers \subseteq Calls
  BY DEF States, Backends
<1>2. ToSet(sent) \cup ToSet(s.calls) \subseteq Calls \cup Stops
  BY DEF States, ToSet
<1>3. ASSUME NEW i \in 1..Len(q), q[i].kind = "reply" PROVE q[i].watcher \in Calls
  BY <1>3, MessageKinds, ReplyTyped
<1>4. w \in Calls \cup Stops
  BY <1>1, <1>2, <1>3 DEF Under, Answered
<1> QED
  BY <1>4, CallKinds

-----------------------------------------------------------------------------
(* refresh(), when no refresh of the present revision was asked for. *)
LEMMA RefreshSound ==
  ASSUME NEW s, NEW q \in Seq(Messages), NEW h, Base(s, q),
         \A x \in Refreshes(s.b, s.b.watchers \cup Under(s, q)) : x.revision < s.b.revision,
         \A e, f \in Snapshots(s) : e = f, s.b.owner = None => ShownBy(s) = Nothing
  PROVE  /\ Sound(refresh(s), q) /\ Fresh(refresh(s), q, h)
         /\ refresh(s).b.owner # None => refresh(s).b.refreshing
         /\ refresh(s).b.generation = s.b.generation /\ refresh(s).b.ids = s.b.ids
         /\ refresh(s).b.agentDevices = s.b.agentDevices
         /\ refresh(s).b.minted = s.b.minted
         /\ refresh(s).b.owner = s.b.owner
         /\ Snapshots(refresh(s)) = Snapshots(s)
<1> DEFINE t == refresh(s)
<1>0. s \in States /\ Asks(s, q) /\ s.b.revision \in Nat /\ s.b.generation \in Nat /\ s.b.owner \in Owners
  BY DEF Base, States, Backends
<1>a. CASE s.b.refreshing \/ s.b.owner = None
  <2>1. t = s
    BY <1>a DEF refresh
  <2>2. \A m : ~Publishable(s.b, m)
    BY <1>0 DEF Publishable, Refreshes
  <2>3. AnswersStand(s, q)
    BY <2>2 DEF AnswersStand
  <2>4. Interacts(s)
    BY <1>a DEF Interacts, Base, Connection
  <2>5. Fresh(s, q, h)
    BY <1>a, <2>2 DEF Fresh
  <2> QED
    BY <1>a, <2>1, <2>3, <2>4, <2>5 DEF Sound
<1>b. CASE ~s.b.refreshing /\ s.b.owner # None
  <2> DEFINE w == [kind |-> "refresh", to |-> s.b.owner, generation |-> s.b.generation,
                   revision |-> s.b.revision]
             u == [s EXCEPT !.b.refreshing = TRUE]
  <2>1. w \in Calls
    BY <1>0 DEF Calls, Collections
  <2>2. /\ u \in States /\ u.b = [s.b EXCEPT !.refreshing = TRUE]
        /\ u.calls = s.calls /\ u.emits = s.emits
    BY <1>0 DEF States, Backends
  <2>3. t = Watched(u, w)
    BY <1>b DEF refresh
  <2>10. /\ w.kind = "refresh" /\ w.generation = s.b.generation /\ w.revision = s.b.revision
         /\ w.to = s.b.owner
    OBVIOUS
  <2> HIDE DEF t, u, w
  <2>4. /\ t \in States /\ t.b = [u.b EXCEPT !.watchers = @ \cup {w}]
        /\ t.calls = Append(s.calls, w) /\ t.emits = s.emits
    BY <2>1, <2>2, <2>3, WatchedDoes
  <2>5. /\ t.b.started = s.b.started /\ t.b.owner = s.b.owner
        /\ t.b.generation = s.b.generation /\ t.b.revision = s.b.revision /\ t.b.refreshing = TRUE
        /\ t.b.ids = s.b.ids /\ t.b.minted = s.b.minted /\ t.b.agentDevices = s.b.agentDevices
        /\ t.b.interactions = s.b.interactions /\ t.b.watchers = s.b.watchers \cup {w}
    BY <1>0, <2>2, <2>4 DEF States, Backends
  <2>6. ToSet(t.calls) = ToSet(s.calls) \cup {w}
    BY <1>0, <2>4, SetOfAppended DEF States
  <2>7. Under(t, q) = Under(s, q) \cup {w}
    BY <2>6 DEF Under
  <2>8. Snapshots(t) = Snapshots(s) /\ NamedBy(t) = NamedBy(s) /\ ShownBy(t) = ShownBy(s)
    BY <2>4 DEF Snapshots, NamedBy, ShownBy
  <2>9. Refreshes(s.b, s.b.watchers) = {}
    BY <1>0, <1>b DEF Asks
  <2>11. Refreshes(t.b, t.b.watchers) = {w}
    BY <2>5, <2>9, <2>10 DEF Refreshes
  <2>12. Refreshes(t.b, Under(t, q)) = Refreshes(s.b, Under(s, q)) \cup {w}
    BY <2>5, <2>7, <2>10 DEF Refreshes
  <2>13. Asks(t, q)
    <3>1. \A x \in t.b.watchers \cup Under(t, q) : x.kind = "refresh" =>
            x.generation <= t.b.generation /\ x.revision <= t.b.revision
      BY <1>0, <2>5, <2>7, <2>10 DEF Asks
    <3>2. \A x \in Refreshes(t.b, Under(t, q)) : x.revision <= w.revision
      <4>1. \A x \in Refreshes(s.b, Under(s, q)) : x.revision <= w.revision
        BY <1>0, <2>10 DEF Asks, Refreshes
      <4>2. w.revision <= w.revision
        BY <1>0, <2>10
      <4> QED
        BY <2>12, <4>1, <4>2
    <3> QED
      BY <1>b, <2>5, <2>10, <2>11, <3>1, <3>2 DEF Asks
  <2>14. \A k \in 1..Len(q) : ~Publishable(t.b, q[k])
    <3> SUFFICES ASSUME NEW k \in 1..Len(q), Publishable(t.b, q[k]) PROVE FALSE
      OBVIOUS
    <3>1. q[k].kind = "reply" /\ q[k].watcher = w
      BY <2>11 DEF Publishable
    <3>2. w \in Under(s, q)
      BY <3>1 DEF Under, Answered
    <3>3. w \in Refreshes(s.b, s.b.watchers \cup Under(s, q))
      BY <2>10, <3>2 DEF Refreshes
    <3> QED
      BY <1>0, <2>10, <3>3
  <2>15. Connection(t, q) /\ Announced(q)
    BY <2>5 DEF Base, Connection
  <2>16. Minted(t) /\ OneObject(t) /\ IdsStand(t, q)
    BY <2>5, <2>8 DEF Base, Minted, OneObject, IdsStand, For
  <2>17. AnswersStand(t, q) /\ Interacts(t) /\ Fresh(t, q, h)
    BY <2>5, <2>8, <2>14 DEF AnswersStand, Interacts, Fresh
  <2> QED
    BY <2>4, <2>5, <2>8, <2>13, <2>15, <2>16, <2>17 DEF Sound, Base, t
<1> QED
  BY <1>0, <1>a, <1>b DEF States, Backends

-----------------------------------------------------------------------------
(* changed() and setOwner(). *)

(* One of a kind, and none while nobody is connected to. *)
ShowsOnce(s) == (\A e, f \in Snapshots(s) : e = f) /\ (s.b.owner = None => ShownBy(s) = Nothing)

LEMMA RevisionDoes ==
  ASSUME NEW s \in States, NEW revision \in Nat
  PROVE  LET n == [s EXCEPT !.b.revision = revision]
         IN /\ n \in States /\ n.b = [s.b EXCEPT !.revision = revision]
            /\ n.calls = s.calls /\ n.emits = s.emits
BY DEF States, Backends

LEMMA NoIdsTyped == NoIds \in [Objects -> Ids]
BY DEF NoIds, Ids

LEMMA ChangedSound ==
  ASSUME NEW s, NEW q \in Seq(Messages), NEW h, Base(s, q), ShowsOnce(s)
  PROVE  /\ Sound(changed(s), q) /\ Fresh(changed(s), q, h)
         /\ changed(s).b.owner # None => changed(s).b.refreshing
         /\ changed(s).b.generation = s.b.generation /\ changed(s).b.ids = s.b.ids
         /\ changed(s).b.agentDevices = s.b.agentDevices
         /\ changed(s).b.minted = s.b.minted
         /\ changed(s).b.owner = s.b.owner
         /\ Snapshots(changed(s)) = Snapshots(s)
<1> DEFINE n == [s EXCEPT !.b.revision = @ + 1]
<1>0. /\ s \in States /\ Asks(s, q) /\ s.b.revision \in Nat /\ s.b.generation \in Nat
      /\ sent \in Seq(Calls \cup Stops)
  BY DEF Base, States, Backends
<1>1. /\ n \in States /\ n.b = [s.b EXCEPT !.revision = @ + 1]
      /\ n.calls = s.calls /\ n.emits = s.emits
  BY <1>0, RevisionDoes, s.b.revision + 1 \in Nat
<1>2. changed(s) = refresh(n)
  <2>1. CASE s.b.started
    BY <2>1 DEF changed
  <2>2. CASE ~s.b.started
    <3>1. n.b.owner = None
      BY <1>0, <1>1, <2>2 DEF Base, Connection, States, Backends
    <3> QED
      BY <2>2, <3>1 DEF changed, refresh
  <2> QED
    BY <2>1, <2>2
<1> HIDE DEF n
<1>3. /\ n.b.started = s.b.started /\ n.b.owner = s.b.owner
      /\ n.b.generation = s.b.generation /\ n.b.revision = s.b.revision + 1
      /\ n.b.refreshing = s.b.refreshing
      /\ n.b.ids = s.b.ids /\ n.b.minted = s.b.minted /\ n.b.agentDevices = s.b.agentDevices
      /\ n.b.interactions = s.b.interactions /\ n.b.watchers = s.b.watchers
  BY <1>0, <1>1 DEF States, Backends
<1>4. /\ Under(n, q) = Under(s, q) /\ Snapshots(n) = Snapshots(s) /\ NamedBy(n) = NamedBy(s)
      /\ ShownBy(n) = ShownBy(s)
  BY <1>1 DEF Under, Snapshots, NamedBy, ShownBy
<1>5. \A calls : Refreshes(n.b, calls) = Refreshes(s.b, calls)
  BY <1>3 DEF Refreshes
<1>6. \A w \in s.b.watchers \cup Under(s, q) : w.kind = "refresh" =>
        w.revision \in Nat /\ w.revision <= s.b.revision /\ w.generation <= s.b.generation
  <2>1. \A w \in s.b.watchers \cup Under(s, q) : w.kind = "refresh" => w.revision \in Nat
    BY <1>0, UnderTyped
  <2> QED
    BY <1>0, <2>1 DEF Asks
<1>7. Asks(n, q)
  <2>1. \A w \in n.b.watchers \cup Under(n, q) : w.kind = "refresh" =>
          w.generation <= n.b.generation /\ w.revision <= n.b.revision
    BY <1>0, <1>3, <1>4, <1>6
  <2> QED
    BY <1>0, <1>3, <1>4, <1>5, <2>1 DEF Asks
<1>8. Base(n, q)
  <2>1. Connection(n, q) /\ Announced(q)
    BY <1>3 DEF Base, Connection
  <2>2. Minted(n) /\ OneObject(n) /\ IdsStand(n, q)
    BY <1>3, <1>4 DEF Base, Minted, OneObject, IdsStand, For
  <2> QED
    BY <1>1, <1>7, <2>1, <2>2 DEF Base
<1>9. \A x \in Refreshes(n.b, n.b.watchers \cup Under(n, q)) : x.revision < n.b.revision
  BY <1>0, <1>3, <1>4, <1>5, <1>6 DEF Refreshes
<1>10. (\A e, f \in Snapshots(n) : e = f) /\ (n.b.owner = None => ShownBy(n) = Nothing)
  BY <1>3, <1>4 DEF ShowsOnce
<1>11. /\ Sound(refresh(n), q) /\ Fresh(refresh(n), q, h)
       /\ refresh(n).b.owner # None => refresh(n).b.refreshing
       /\ refresh(n).b.generation = n.b.generation /\ refresh(n).b.ids = n.b.ids
       /\ refresh(n).b.agentDevices = n.b.agentDevices
       /\ refresh(n).b.minted = n.b.minted
       /\ refresh(n).b.owner = n.b.owner
       /\ Snapshots(refresh(n)) = Snapshots(n)
  BY <1>8, <1>9, <1>10, RefreshSound
<1> QED
  BY <1>2, <1>3, <1>4, <1>11

LEMMA UnavailableTyped ==
  /\ Unavailable \in Pictures /\ Unavailable.signal = "snapshotChanged"
  /\ Unavailable.world = Nothing /\ Names(Unavailable) = {}
<1>1. NoIds \in [Objects -> Ids] /\ Unavailable.ids = NoIds
  BY DEF NoIds, Ids, Unavailable
<1>2. Names(Unavailable) = {}
  BY <1>1 DEF Names, NoIds
<1> QED
  BY <1>1, <1>2 DEF Unavailable, Pictures

LEMMA OwnerSound ==
  ASSUME NEW s \in States, sent \in Seq(Calls \cup Stops), NEW q \in Seq(Messages), NEW new \in Owners,
         Asks(s, q), Announced(q), Minted(s), OneObject(s), Snapshots(s) = {},
         new = instance \/ new = None \/ Changes(q), new # None => s.b.started
  PROVE  /\ Sound(setOwner(s, new), q) /\ Fresh(setOwner(s, new), q, 0)
         /\ setOwner(s, new).b.generation = s.b.generation + 1
<1> DEFINE reset == [s.b EXCEPT !.generation = @ + 1, !.revision = @ + 1, !.refreshing = FALSE,
                           !.registered = FALSE, !.owner = new, !.ids = NoIds,
                           !.adapters = {}, !.devices = {}, !.owned = {}, !.starting = {},
                           !.interactions = {}]
           cleared == [s EXCEPT !.b = reset]
           lost == Emit(cleared, Unavailable)
           w == [kind |-> "register", to |-> new, generation |-> lost.b.generation]
           v == IF new = None THEN lost ELSE Watched(lost, w)
<1>0. /\ s.b \in Backends /\ s.b.revision \in Nat /\ s.b.generation \in Nat
      /\ s.b.revision + 1 \in Nat /\ s.b.generation + 1 \in Nat
  BY DEF States, Backends
<1>b. setOwner(s, new) = IF new = None THEN lost ELSE refresh(Watched(lost, w))
  BY DEF setOwner
<1>c. /\ reset \in Backends /\ reset.started = s.b.started /\ reset.owner = new
      /\ reset.generation = s.b.generation + 1 /\ reset.revision = s.b.revision + 1
      /\ reset.refreshing = FALSE /\ reset.ids = NoIds /\ reset.minted = s.b.minted
      /\ reset.interactions = {} /\ reset.watchers = s.b.watchers
  <2>1. PICK g \in Nat : g = s.b.generation + 1
    BY <1>0
  <2>2. PICK n \in Nat : n = s.b.revision + 1
    BY <1>0
  <2>3. reset = [s.b EXCEPT !.generation = g, !.revision = n, !.refreshing = FALSE,
                           !.registered = FALSE, !.owner = new, !.ids = NoIds,
                           !.adapters = {}, !.devices = {}, !.owned = {}, !.starting = {},
                           !.interactions = {}]
    BY <2>1, <2>2
  <2> HIDE DEF reset
  <2>4. /\ reset \in Backends /\ reset.started = s.b.started /\ reset.owner = new
        /\ reset.generation = g /\ reset.revision = n
        /\ reset.refreshing = FALSE /\ reset.ids = NoIds /\ reset.minted = s.b.minted
        /\ reset.interactions = {} /\ reset.watchers = s.b.watchers
    BY <1>0, <2>3, NoIdsTyped DEF Backends
  <2> QED
    BY <2>1, <2>2, <2>4
<1> HIDE DEF reset
<1>1. /\ cleared \in States /\ cleared.b = reset
      /\ cleared.calls = s.calls /\ cleared.emits = s.emits
  BY <1>c DEF States
<1> HIDE DEF cleared
<1>2. Snapshots(cleared) = {}
  BY <1>1 DEF Snapshots
<1>3. /\ lost \in States /\ lost.b = cleared.b /\ lost.calls = s.calls
      /\ Snapshots(lost) = {Unavailable}
  BY <1>1, <1>2, EmitDoes, UnavailableTyped
<1> HIDE DEF lost
<1>4. w \in Calls /\ w.kind = "register"
  BY <1>0, <1>1, <1>3, <1>c DEF Calls, Queries
<1> HIDE DEF w
<1>5. setOwner(s, new) = refresh(v)
  <2>1. CASE new = None
    BY <1>1, <1>3, <1>c, <1>b, <2>1 DEF refresh
  <2>2. CASE new # None
    BY <1>b, <2>2
  <2> QED
    BY <2>1, <2>2
<1>6. /\ v \in States /\ v.b.started = s.b.started /\ v.b.owner = new
      /\ v.b.generation = s.b.generation + 1 /\ v.b.revision = s.b.revision + 1
      /\ v.b.refreshing = FALSE /\ v.b.ids = NoIds /\ v.b.minted = s.b.minted
      /\ v.b.interactions = {} /\ s.b.watchers \subseteq v.b.watchers
      /\ v.b.watchers \subseteq s.b.watchers \cup {w}
      /\ \A x \in ToSet(v.calls) : x \in ToSet(s.calls) \/ x = w
      /\ Snapshots(v) = {Unavailable}
  <2>1. CASE new = None
    BY <1>1, <1>3, <1>c, <2>1
  <2>2. CASE new # None
    <3>1. /\ v \in States /\ v.b = [lost.b EXCEPT !.watchers = @ \cup {w}]
          /\ v.calls = Append(lost.calls, w) /\ v.emits = lost.emits
      BY <1>3, <1>4, <2>2, WatchedDoes
    <3>2. ToSet(Append(s.calls, w)) = ToSet(s.calls) \cup {w}
      <4>1. s.calls \in Seq(Calls \cup Stops)
        BY DEF States
      <4> QED
        BY <1>4, <4>1, SetOfAppended
    <3>3. Snapshots(v) = {Unavailable}
      BY <1>3, <3>1 DEF Snapshots
    <3>4. lost.b \in Backends
      BY <1>3 DEF States
    <3> HIDE DEF v
    <3>5. /\ v.b.started = lost.b.started /\ v.b.owner = lost.b.owner
          /\ v.b.generation = lost.b.generation /\ v.b.revision = lost.b.revision
          /\ v.b.refreshing = lost.b.refreshing /\ v.b.ids = lost.b.ids
          /\ v.b.minted = lost.b.minted /\ v.b.interactions = lost.b.interactions
          /\ v.b.watchers = lost.b.watchers \cup {w}
      BY <3>1, <3>4 DEF Backends
    <3> QED
      BY <1>1, <1>3, <1>c, <3>1, <3>2, <3>3, <3>5
  <2> QED
    BY <2>1, <2>2
<1> HIDE DEF v
<1>7. \A x \in v.b.watchers \cup Under(v, q) : x.kind = "refresh" =>
        x \in s.b.watchers \cup Under(s, q)
  BY <1>4, <1>6 DEF Under
<1>8. \A x \in s.b.watchers \cup Under(s, q) : x.kind = "refresh" =>
        /\ x.revision \in Nat /\ x.revision <= s.b.revision
        /\ x.generation \in Nat /\ x.generation <= s.b.generation
  BY UnderTyped DEF Asks
<1>9. Refreshes(v.b, v.b.watchers) = {} /\ Refreshes(v.b, v.b.watchers \cup Under(v, q)) = {}
  BY <1>0, <1>6, <1>7, <1>8 DEF Refreshes
<1>10. Asks(v, q)
  <2>1. \A x \in v.b.watchers \cup Under(v, q) : x.kind = "refresh" =>
          x.generation <= v.b.generation /\ x.revision <= v.b.revision
    BY <1>0, <1>6, <1>7, <1>8
  <2> QED
    BY <1>9, <2>1 DEF Asks
<1>11. NamedBy(v) = NamedBy(s) /\ ShownBy(v) = Nothing
  BY <1>6, UnavailableTyped DEF NamedBy, ShownBy
<1>12. Connection(v, q)
  BY <1>6 DEF Connection
<1>13. Minted(v) /\ OneObject(v) /\ IdsStand(v, q)
  BY <1>6, <1>11 DEF Minted, OneObject, IdsStand, NoIds
<1>14. Base(v, q) /\ ShowsOnce(v)
  BY <1>6, <1>10, <1>11, <1>12, <1>13 DEF Base, ShowsOnce
<1> QED
  BY <1>5, <1>6, <1>9, <1>14, RefreshSound DEF ShowsOnce

-----------------------------------------------------------------------------
(* The reply to a refresh: publish(), withdraw(), or the next refresh.        *)

LEMMA StopCallsTyped ==
  ASSUME NEW owner \in Owners, NEW paths \in SUBSET Objects
  PROVE  /\ StopCalls(owner, paths) \in Seq(Calls \cup Stops)
         /\ \A w \in ToSet(StopCalls(owner, paths)) : w.kind = "stop"
<1> DEFINE n == Cardinality(paths)
           order == SetToSeq(paths)
           call(i) == [kind |-> "stop", to |-> owner, object |-> order[i]]
<1>1. IsFiniteSet(paths) /\ n \in Nat /\ ExistsBijection(1..n, paths)
  BY FS_Subset, FS_CardinalityType, BlueZConstants
<1>2. PICK f \in Bijection(1..n, paths) : TRUE
  BY <1>1 DEF ExistsBijection
<1>3. f \in [1..n -> paths] /\ IsInjective(f)
  BY <1>2 DEF Bijection, Injection
<1>4. order \in [1..n -> paths]
  BY <1>3 DEF SetToSeq
<1> HIDE DEF n, order
<1>5. StopCalls(owner, paths) = [i \in 1..n |-> call(i)]
  BY <1>4 DEF StopCalls, n, order
<1>6. \A i \in 1..n : call(i) \in Calls \cup Stops /\ call(i).kind = "stop"
  BY <1>4 DEF Stops
<1> HIDE DEF call
<1>7. StopCalls(owner, paths) \in Seq(Calls \cup Stops)
  BY <1>1, <1>5, <1>6
<1> QED
  BY <1>5, <1>6, <1>7 DEF ToSet

LEMMA SetOfJoined ==
  ASSUME NEW S, NEW q \in Seq(S), NEW r \in Seq(S)
  PROVE  ToSet(q \o r) = ToSet(q) \cup ToSet(r)
<1> DEFINE j == q \o r
<1>1. /\ Len(q) \in Nat /\ Len(r) \in Nat /\ DOMAIN j = 1..(Len(q) + Len(r))
      /\ DOMAIN q = 1..Len(q) /\ DOMAIN r = 1..Len(r)
      /\ \A i \in 1..Len(q) : j[i] = q[i]
      /\ \A i \in 1..Len(r) : j[Len(q) + i] = r[i]
  OBVIOUS
<1> HIDE DEF j
<1>2. ASSUME NEW i \in DOMAIN j PROVE j[i] \in ToSet(q) \cup ToSet(r)
  <2>1. CASE i <= Len(q)
    BY <1>1, <2>1 DEF ToSet
  <2>2. CASE ~(i <= Len(q))
    <3>1. i - Len(q) \in 1..Len(r) /\ i = Len(q) + (i - Len(q))
      BY <1>1, <2>2
    <3> QED
      BY <1>1, <3>1 DEF ToSet
  <2> QED
    BY <2>1, <2>2
<1>3. \A i \in 1..Len(q) : i \in DOMAIN j
  BY <1>1
<1>4. \A i \in 1..Len(r) : Len(q) + i \in DOMAIN j
  BY <1>1
<1> QED
  BY <1>1, <1>2, <1>3, <1>4 DEF ToSet, j

LEMMA SetDevicesDoes ==
  ASSUME NEW s \in States, NEW known \in [Objects -> Ids]
  PROVE  /\ setDevices(s, known) \in States
         /\ setDevices(s, known).b = [s.b EXCEPT !.agentDevices = known,
                                       !.interactions = {i \in @ : i.device \in Live(known)}]
         /\ setDevices(s, known).calls = s.calls /\ setDevices(s, known).emits = s.emits
<1> DEFINE kept == {i \in s.b.interactions : i.device \in Live(known)}
<1>1. kept \in SUBSET [device : Ids, number : Nat]
  BY DEF States, Backends
<1>2. /\ setDevices(s, known).b = [s.b EXCEPT !.agentDevices = known, !.interactions = kept]
      /\ setDevices(s, known) = [s EXCEPT !.b = [s.b EXCEPT !.agentDevices = known, !.interactions = kept]]
  BY DEF setDevices, States, Backends
<1> HIDE DEF kept
<1>3. [s.b EXCEPT !.agentDevices = known, !.interactions = kept] \in Backends
  BY <1>1 DEF States, Backends
<1> QED
  BY <1>2, <1>3 DEF States, kept

(* Steps that ask for nothing. *)
LEMMA AsksKept ==
  ASSUME NEW s, NEW t, NEW q, Asks(s, q), AsksNoMore(s, t),
         t.b.generation = s.b.generation, t.b.revision = s.b.revision,
         t.b.owner = s.b.owner, t.b.refreshing = s.b.refreshing \/ Refreshes(s.b, s.b.watchers) = {}
  PROVE  /\ Asks(t, q)
         /\ Refreshes(t.b, t.b.watchers) \subseteq Refreshes(s.b, s.b.watchers)
         /\ Refreshes(t.b, Under(t, q)) \subseteq Refreshes(s.b, Under(s, q))
<1>1. /\ Refreshes(t.b, t.b.watchers) \subseteq Refreshes(s.b, s.b.watchers)
      /\ Refreshes(t.b, Under(t, q)) \subseteq Refreshes(s.b, Under(s, q))
      /\ \A w \in t.b.watchers \cup Under(t, q) : w.kind = "refresh" =>
           w \in s.b.watchers \cup Under(s, q)
  BY DEF AsksNoMore, Refreshes, Under
<1> QED
  BY <1>1 DEF Asks

LEMMA WithdrawSound ==
  ASSUME NEW s, NEW q \in Seq(Messages), NEW h, Base(s, q), Snapshots(s) = {},
         Refreshes(s.b, s.b.watchers) = {}
  PROVE  /\ Sound(withdraw(s), q) /\ Fresh(withdraw(s), q, h)
         /\ withdraw(s).b.generation = s.b.generation
<1> DEFINE u == [s EXCEPT !.b.ids = NoIds, !.b.owned = {}]
           v == Told(u, StopCalls(s.b.owner, s.b.owned))
           x == setDevices(v, NoIds)
           t == Emit(x, Unavailable)
<1>0. s \in States /\ s.b.owner \in Owners /\ s.b.owned \in SUBSET Objects
  BY DEF Base, States, Backends
<1>1. /\ u \in States /\ u.b = [s.b EXCEPT !.ids = NoIds, !.owned = {}]
      /\ u.calls = s.calls /\ u.emits = s.emits
  BY <1>0, NoIdsTyped DEF States, Backends
<1>2. withdraw(s) = t
  BY DEF withdraw
<1> HIDE DEF u
<1>3. /\ v \in States /\ v.b = u.b /\ v.emits = s.emits
      /\ v.calls = s.calls \o StopCalls(s.b.owner, s.b.owned)
  <2>1. StopCalls(s.b.owner, s.b.owned) \in Seq(Calls \cup Stops)
    BY <1>0, StopCallsTyped
  <2>2. u \in States /\ u.calls = s.calls /\ u.emits = s.emits
    BY <1>1
  <2> QED
    BY <2>1, <2>2, ToldDoes
<1> HIDE DEF v
<1>4. /\ x \in States /\ x.calls = v.calls /\ x.emits = v.emits
      /\ x.b = [v.b EXCEPT !.agentDevices = NoIds,
                           !.interactions = {i \in @ : i.device \in Live(NoIds)}]
  BY <1>3, SetDevicesDoes, NoIdsTyped
<1> HIDE DEF x
<1>5. /\ t \in States /\ t.b = x.b /\ t.calls = x.calls
      /\ Snapshots(t) = {Unavailable}
  <2>1. Snapshots(x) = {}
    BY <1>3, <1>4 DEF Snapshots
  <2> QED
    BY <1>4, <2>1, EmitDoes, UnavailableTyped
<1> HIDE DEF t
<1>6. Live(NoIds) = {}
  BY DEF Live, NoIds
<1>7. /\ t.b.started = s.b.started /\ t.b.owner = s.b.owner
      /\ t.b.generation = s.b.generation /\ t.b.revision = s.b.revision
      /\ t.b.refreshing = s.b.refreshing /\ t.b.ids = NoIds /\ t.b.agentDevices = NoIds
      /\ t.b.minted = s.b.minted /\ t.b.interactions = {} /\ t.b.watchers = s.b.watchers
  BY <1>0, <1>1, <1>3, <1>4, <1>5, <1>6 DEF States, Backends
<1>8. ToSet(t.calls) = ToSet(s.calls) \cup ToSet(StopCalls(s.b.owner, s.b.owned))
  <2>1. s.calls \in Seq(Calls \cup Stops)
    BY <1>0 DEF States
  <2> QED
    BY <1>0, <1>3, <1>4, <1>5, <2>1, SetOfJoined, StopCallsTyped
<1>9. AsksNoMore(s, t)
  BY <1>0, <1>7, <1>8, StopCallsTyped DEF AsksNoMore
<1>10. Asks(t, q) /\ Refreshes(t.b, t.b.watchers) = {}
  BY <1>7, <1>9, AsksKept DEF Base
<1>11. NamedBy(t) = NamedBy(s) /\ ShownBy(t) = Nothing
  BY <1>5, UnavailableTyped DEF NamedBy, ShownBy
<1>12. Connection(t, q) /\ Announced(q)
  BY <1>7 DEF Base, Connection
<1>13. Minted(t) /\ OneObject(t) /\ IdsStand(t, q)
  BY <1>7, <1>11 DEF Base, Minted, OneObject, IdsStand, NoIds
<1>14. AnswersStand(t, q) /\ Fresh(t, q, h)
  BY <1>5, <1>10, <1>11 DEF AnswersStand, Fresh, Publishable
<1>15. Interacts(t)
  BY <1>7 DEF Interacts, NoIds
<1> QED
  BY <1>2, <1>5, <1>7, <1>10, <1>12, <1>13, <1>14, <1>15 DEF Base, Sound

LEMMA PairsAlike ==
  ASSUME NEW a, NEW b, NEW c, NEW d, <<a, b>> = <<c, d>>
  PROVE  a = c /\ b = d
OBVIOUS

LEMMA PublishSound ==
  ASSUME NEW s, NEW q \in Seq(Messages), NEW h, NEW shot \in Worlds,
         Base(s, q), Snapshots(s) = {}, Refreshes(s.b, s.b.watchers) = {},
         s.b.owner # None, Agrees(s, q, shot, 0), shot.version >= h
  PROVE  /\ Sound(publish(s, shot), q) /\ Fresh(publish(s, shot), q, h)
         /\ publish(s, shot).b.generation = s.b.generation
<1> DEFINE adapters == shot.present \cap Adapters
           devices == {d \in shot.present \cap Devices : AdapterOf[d] \in adapters}
           live == adapters \cup devices
           ids == [o \in Objects |-> IF o \in live THEN idFor(s.b, o) ELSE None]
           minted == [o \in Objects |-> IF o \in live /\ s.b.ids[o] = None
                                        THEN s.b.minted[o] + 1 ELSE s.b.minted[o]]
           known == [o \in Objects |-> IF o \in devices THEN ids[o] ELSE None]
           kept == [s EXCEPT !.b.ids = ids, !.b.minted = minted, !.b.adapters = adapters,
                             !.b.devices = devices, !.b.owned = @ \ (adapters \ shot.powered)]
           e == [signal |-> "snapshotChanged", available |-> TRUE, ids |-> ids,
                 listed |-> Live(ids), world |-> shot]
           x == setDevices(kept, known)
           t == Emit(x, e)
<1>0. /\ s \in States /\ s.b \in Backends /\ s.b.owner \in Owners /\ s.b.owned \in SUBSET Objects
      /\ s.b.ids \in [Objects -> Ids] /\ s.b.minted \in [Objects -> Nat]
      /\ shot.present \in SUBSET Objects /\ shot.incarnation \in [Objects -> Nat]
  BY DEF Base, States, Backends, Worlds
<1>1. publish(s, shot) = t
  BY DEF publish
<1>2. live \subseteq shot.present /\ adapters \in SUBSET Objects /\ devices \in SUBSET Objects
  BY <1>0 DEF Objects
<1> HIDE DEF live, adapters, devices
<1>3. ids \in [Objects -> Ids] /\ minted \in [Objects -> Nat]
  <2>1. \A o \in Objects : s.b.ids[o] \in Ids /\ s.b.minted[o] \in Nat /\ s.b.minted[o] + 1 \in Nat
    BY <1>0
  <2>2. \A o \in Objects : idFor(s.b, o) \in Ids
    BY <2>1 DEF idFor, Ids
  <2>3. None \in Ids
    BY DEF Ids
  <2> QED
    BY <2>1, <2>2, <2>3
<1>4. /\ \A o \in Objects \ live : ids[o] = None
      /\ \A o \in Objects : o \in live /\ s.b.ids[o] # None =>
           ids[o] = s.b.ids[o] /\ minted[o] = s.b.minted[o]
      /\ \A o \in Objects : o \in live /\ s.b.ids[o] = None =>
           ids[o] = <<o, s.b.minted[o] + 1>> /\ minted[o] = s.b.minted[o] + 1
      /\ \A o \in Objects : minted[o] >= s.b.minted[o]
  BY <1>0 DEF idFor
<1> HIDE DEF ids, minted
<1>5. /\ known \in [Objects -> Ids]
      /\ \A o \in Objects : known[o] # None => known[o] = ids[o]
  BY <1>3 DEF Ids
<1> HIDE DEF known
<1>6. e \in Pictures /\ e.signal = "snapshotChanged" /\ e.ids = ids /\ e.world = shot
  <2>1. Live(ids) \in SUBSET Ids
    BY <1>3 DEF Live
  <2> QED
    BY <1>3, <2>1 DEF Pictures
<1> HIDE DEF e
<1>7. /\ kept \in States /\ kept.b = [s.b EXCEPT !.ids = ids, !.minted = minted,
                                       !.adapters = adapters, !.devices = devices,
                                       !.owned = @ \ (adapters \ shot.powered)]
      /\ kept.calls = s.calls /\ kept.emits = s.emits
  <2> DEFINE owned == s.b.owned \ (adapters \ shot.powered)
  <2>1. owned \in SUBSET Objects
    BY <1>0
  <2> HIDE DEF owned
  <2> QED
    BY <1>0, <1>2, <1>3, <2>1 DEF States, Backends, owned
<1> HIDE DEF kept
<1>8. /\ x \in States /\ x.calls = s.calls /\ x.emits = s.emits
      /\ x.b = [kept.b EXCEPT !.agentDevices = known,
                              !.interactions = {i \in @ : i.device \in Live(known)}]
  BY <1>5, <1>7, SetDevicesDoes
<1> HIDE DEF x
<1>9. /\ t \in States /\ t.b = x.b /\ t.calls = s.calls /\ Snapshots(t) = {e}
  <2>1. Snapshots(x) = {}
    BY <1>8 DEF Snapshots
  <2> QED
    BY <1>6, <1>8, <2>1, EmitDoes
<1> HIDE DEF t
<1>10. /\ t.b.started = s.b.started /\ t.b.owner = s.b.owner
       /\ t.b.generation = s.b.generation /\ t.b.revision = s.b.revision
       /\ t.b.refreshing = s.b.refreshing /\ t.b.ids = ids /\ t.b.agentDevices = known
       /\ t.b.minted = minted /\ t.b.watchers = s.b.watchers
       /\ \A i \in t.b.interactions : i.device \in Live(known)
  BY <1>0, <1>7, <1>8, <1>9 DEF States, Backends
<1>11. AsksNoMore(s, t)
  BY <1>9, <1>10 DEF AsksNoMore
<1>12. Asks(t, q) /\ Refreshes(t.b, t.b.watchers) = {}
  BY <1>10, <1>11, AsksKept DEF Base
<1>13. NamedBy(s) = named /\ NamedBy(t) = named \cup Names(e) /\ ShownBy(t) = shot
  BY <1>6, <1>9 DEF NamedBy, ShownBy
<1>14. \A r \in Names(e) : \E o \in Objects : /\ o \in live /\ ids[o] # None /\ r.id = ids[o]
                                              /\ r.incarnation = shot.incarnation[o]
  BY <1>4, <1>6 DEF Names
<1>15. \A o \in Objects : o \in live => \E n \in 1..minted[o] : ids[o] = <<o, n>>
  <2> SUFFICES ASSUME NEW o \in Objects, o \in live PROVE \E n \in 1..minted[o] : ids[o] = <<o, n>>
    OBVIOUS
  <2>1. CASE s.b.ids[o] # None
    BY <1>4, <2>1 DEF Base, Minted
  <2>2. CASE s.b.ids[o] = None
    <3>1. s.b.minted[o] + 1 \in 1..minted[o]
      BY <1>0, <1>4, <2>2
    <3> QED
      BY <1>4, <2>2, <3>1
  <2> QED
    BY <2>1, <2>2
(* An id that was published before is kept, and stands for what it stood for. *)
<1>16. ASSUME NEW o \in Objects, o \in live, NEW p \in named, p.id = ids[o]
       PROVE  p.incarnation = shot.incarnation[o]
  <2>1. CASE s.b.ids[o] # None
    BY <1>2, <1>4, <1>13, <1>16, <2>1 DEF Agrees, For
  <2>2. CASE s.b.ids[o] = None
    <3>1. PICK r \in Objects : \E n \in 1..s.b.minted[r] : p.id = <<r, n>>
      BY <1>13, <1>16 DEF Base, Minted
    <3>2. PICK n \in 1..s.b.minted[r] : p.id = <<r, n>>
      BY <3>1
    <3>3. r = o /\ n = s.b.minted[o] + 1
      <4>1. <<r, n>> = <<o, s.b.minted[o] + 1>>
        BY <1>4, <1>16, <2>2, <3>2
      <4> QED
        BY <4>1, PairsAlike
    <3> QED
      BY <1>0, <3>2, <3>3
  <2> QED
    BY <2>1, <2>2
<1>17. ASSUME NEW o \in Objects, o \in live, NEW r \in Names(e), r.id = ids[o]
       PROVE  r.incarnation = shot.incarnation[o]
  <2>1. PICK p \in Objects : /\ p \in live /\ r.id = ids[p]
                             /\ r.incarnation = shot.incarnation[p]
    BY <1>14
  <2>2. (\E n \in 1..minted[o] : ids[o] = <<o, n>>) /\ (\E n \in 1..minted[p] : ids[p] = <<p, n>>)
    BY <1>15, <1>17, <2>1
  <2>3. p = o
    <3>1. PICK n \in 1..minted[o] : ids[o] = <<o, n>>
      BY <2>2
    <3>2. PICK m \in 1..minted[p] : ids[p] = <<p, m>>
      BY <2>2
    <3>3. <<o, n>> = <<p, m>>
      BY <1>17, <2>1, <3>1, <3>2
    <3> QED
      BY <3>3, PairsAlike
  <2> QED
    BY <2>1, <2>3
<1>18. \A o \in Objects : o \in live => For(t, ids[o], shot.incarnation[o])
  BY <1>13, <1>16, <1>17 DEF For
<1>19. Minted(t)
  <2>1. ASSUME NEW p \in named
        PROVE  \E o \in Objects : \E n \in 1..minted[o] : p.id = <<o, n>>
    <3>1. PICK o \in Objects : \E n \in 1..s.b.minted[o] : p.id = <<o, n>>
      BY <1>13, <2>1 DEF Base, Minted
    <3>2. 1..s.b.minted[o] \subseteq 1..minted[o]
      BY <1>0, <1>3, <1>4
    <3> QED
      BY <3>1, <3>2
  <2>2. \A r \in Names(e) : \E o \in Objects : \E n \in 1..minted[o] : r.id = <<o, n>>
    BY <1>14, <1>15
  <2>3. \A o \in Objects : ids[o] # None => \E n \in 1..minted[o] : ids[o] = <<o, n>>
    BY <1>4, <1>15
  <2> QED
    BY <1>10, <1>13, <2>1, <2>2, <2>3 DEF Minted
<1>20. OneObject(t)
  <2>1. \A p, r \in named : p.id = r.id => p.incarnation = r.incarnation
    BY <1>13 DEF Base, OneObject
  <2>2. ASSUME NEW p \in NamedBy(t), NEW r \in Names(e), p.id = r.id
        PROVE  p.incarnation = r.incarnation
    BY <1>13, <1>14, <1>16, <1>17, <2>2
  <2> QED
    BY <1>13, <2>1, <2>2 DEF OneObject
<1>21. IdsStand(t, q)
  <2> SUFFICES ASSUME NEW o \in Objects, ids[o] # None
               PROVE  \/ Retired(q, 0, s.b.owner, o)
                      \/ \E n \in Nat : Managed(o, n) /\ For(t, ids[o], n)
    BY <1>10 DEF IdsStand
  <2>1. o \in live /\ o \in shot.present
    BY <1>2, <1>4
  <2>2. Retired(q, 0, s.b.owner, o) \/ Managed(o, shot.incarnation[o])
    BY <2>1 DEF Agrees
  <2> QED
    BY <1>0, <1>18, <2>1, <2>2
<1>22. Connection(t, q) /\ Announced(q)
  BY <1>10 DEF Base, Connection
<1>23. AnswersStand(t, q) /\ Fresh(t, q, h)
  BY <1>9, <1>10, <1>12, <1>13 DEF AnswersStand, Fresh, Publishable
<1>24. Interacts(t)
  <2>1. Live(known) \subseteq Live(ids)
    BY <1>5 DEF Live
  <2> QED
    BY <1>5, <1>10, <2>1 DEF Interacts
<1> QED
  BY <1>1, <1>9, <1>10, <1>12, <1>19, <1>20, <1>21, <1>22, <1>23, <1>24 DEF Base, Sound

-----------------------------------------------------------------------------
(* The other replies.                                                        *)

(* A handler that is done keeps the invariant, whatever h has become.          *)
Done(s, q, h) == Sound(s, q) /\ Fresh(s, q, h) /\ s.b.generation = backend.generation

LEMMA OperationTyped ==
  ASSUME NEW b \in Backends, NEW c \in Requests, NEW step \in {"timeout", "set", "only"},
         NEW error \in Results
  PROVE  /\ OperationCall(b, c, step) \in Calls /\ OperationCall(b, c, step).kind = "operation"
         /\ Finished(c, error) \in Finishes
         /\ Finished(c, error).signal = "operationFinished"
<1>1. c.target[1] \in Objects /\ b.owner \in Owners /\ b.generation \in Nat
  BY DEF Requests, Backends
<1>2. OperationCall(b, c, step) \in Orders
  BY <1>1 DEF OperationCall, Orders
<1> QED
  BY <1>2 DEF Calls, OperationCall, Finished, Finishes

LEMMA ReportKeeps ==
  ASSUME NEW s, NEW q \in Seq(Messages), NEW h, Done(s, q, h), NEW e \in Finishes
  PROVE  /\ Done(Emit(s, e), q, h) /\ Emit(s, e).b = s.b
         /\ Snapshots(Emit(s, e)) = Snapshots(s)
<1>1. s \in States /\ e.signal = "operationFinished"
  BY DEF Done, Sound, Base, Finishes
<1>2. /\ Emit(s, e) \in States /\ Emit(s, e).b = s.b /\ Emit(s, e).calls = s.calls
      /\ Snapshots(Emit(s, e)) = Snapshots(s)
  BY <1>1, EmitDoes
<1>3. SameLinks(s.b, Emit(s, e).b) /\ AsksNoMore(s, Emit(s, e))
  BY <1>2 DEF SameLinks, AsksNoMore
<1> QED
  BY <1>2, <1>3, KeptSound DEF Done

LEMMA CallKeeps ==
  ASSUME NEW s, NEW q \in Seq(Messages), NEW h, Done(s, q, h), NEW w \in Calls,
         w.kind # "refresh"
  PROVE  Done(Watched(s, w), q, h)
<1> DEFINE t == Watched(s, w)
<1>1. s \in States
  BY DEF Done, Sound, Base
<1>2. /\ t \in States /\ t.b = [s.b EXCEPT !.watchers = @ \cup {w}]
      /\ t.calls = Append(s.calls, w) /\ t.emits = s.emits
  BY <1>1, WatchedDoes
<1> HIDE DEF t
<1>3. /\ SameLinks(s.b, t.b) /\ t.b.interactions = s.b.interactions
      /\ t.b.watchers = s.b.watchers \cup {w}
  BY <1>1, <1>2 DEF SameLinks, States, Backends
<1>4. ToSet(t.calls) = ToSet(s.calls) \cup {w}
  BY <1>1, <1>2, SetOfAppended DEF States
<1>5. AsksNoMore(s, t) /\ Snapshots(t) = Snapshots(s)
  BY <1>2, <1>3, <1>4 DEF AsksNoMore, Snapshots
<1>6. Done(t, q, h)
  BY <1>2, <1>3, <1>5, KeptSound DEF Done, SameLinks
<1> QED
  BY <1>6 DEF t

LEMMA StopsKeep ==
  ASSUME NEW s, NEW q \in Seq(Messages), NEW h, Done(s, q, h),
         NEW calls \in Seq(Calls \cup Stops), \A w \in ToSet(calls) : w.kind # "refresh"
  PROVE  Done(Told(s, calls), q, h)
<1> DEFINE t == Told(s, calls)
<1>1. s \in States /\ s.calls \in Seq(Calls \cup Stops)
  BY DEF Done, Sound, Base, States
<1>2. t \in States /\ t.b = s.b /\ t.calls = s.calls \o calls /\ t.emits = s.emits
  BY <1>1, ToldDoes
<1> HIDE DEF t
<1>3. ToSet(t.calls) = ToSet(s.calls) \cup ToSet(calls)
  BY <1>1, <1>2, SetOfJoined
<1>4. AsksNoMore(s, t) /\ SameLinks(s.b, t.b) /\ Snapshots(t) = Snapshots(s)
  BY <1>2, <1>3 DEF AsksNoMore, SameLinks, Snapshots
<1>5. Done(t, q, h)
  BY <1>2, <1>4, KeptSound DEF Done, SameLinks
<1> QED
  BY <1>5 DEF t

(* Fields that the invariant does not depend on. *)
LEMMA FieldsKeep ==
  ASSUME NEW s, NEW q \in Seq(Messages), NEW h, Done(s, q, h),
         NEW b \in Backends, NEW t, t = [s EXCEPT !.b = b], SameLinks(s.b, b),
         b.watchers \subseteq s.b.watchers, b.interactions \subseteq s.b.interactions
  PROVE  Done(t, q, h) /\ t.b = b /\ t.calls = s.calls /\ t.emits = s.emits
<1>1. t \in States /\ t.b = b /\ t.calls = s.calls /\ t.emits = s.emits
  BY DEF Done, Sound, Base, States
<1>2. AsksNoMore(s, t) /\ Snapshots(t) = Snapshots(s)
  BY <1>1 DEF AsksNoMore, Snapshots
<1> QED
  BY <1>1, <1>2, KeptSound DEF Done, SameLinks

LEMMA ChangeKeeps ==
  ASSUME NEW s, NEW q \in Seq(Messages), NEW h, Done(s, q, h)
  PROVE  Done(changed(s), q, h)
<1>1. Base(s, q) /\ ShowsOnce(s)
  BY DEF Done, Sound, Fresh, ShowsOnce
<1> QED
  BY <1>1, ChangedSound DEF Done

(* timeoutReply(), setReply() and onlyReply(): the answers to an operation.  *)
LEMMA OperationAnswered ==
  ASSUME NEW s, NEW q \in Seq(Messages), NEW h, Done(s, q, h),
         NEW w \in Orders, NEW error \in {"none", "Upstream"}
  PROVE  /\ Done(timeoutReply(s, w, error), q, h)
         /\ Done(setReply(s, w, error), q, h)
         /\ Done(onlyReply(s, w, error), q, h)
<1>0. /\ s \in States /\ s.b \in Backends /\ w.call \in Requests /\ w.object \in Objects
      /\ s.b.owner \in Owners /\ s.b.starting \in SUBSET Objects /\ s.b.owned \in SUBSET Objects
  BY DEF Done, Sound, Base, States, Backends, Orders
<1>1. /\ Finished(w.call, error) \in Finishes /\ Finished(w.call, "Disappeared") \in Finishes
      /\ OperationCall(s.b, w.call, "set") \in Calls
      /\ OperationCall(s.b, w.call, "set").kind # "refresh"
  BY <1>0, OperationTyped DEF Results
<1>2. Done(timeoutReply(s, w, error), q, h)
  <2>1. /\ Done(Emit(s, Finished(w.call, error)), q, h)
        /\ Done(Emit(s, Finished(w.call, "Disappeared")), q, h)
        /\ Done(Watched(s, OperationCall(s.b, w.call, "set")), q, h)
    BY <1>1, ReportKeeps, CallKeeps
  <2> QED
    BY <2>1 DEF timeoutReply
<1>3. Done(setReply(s, w, error), q, h)
  <2>1. Done(Emit(s, Finished(w.call, error)), q, h)
    BY <1>1, ReportKeeps
  <2> QED
    BY <2>1, ChangeKeeps DEF setReply
<1>4. Done(onlyReply(s, w, error), q, h)
  <2> DEFINE starting == IF w.call.operation \in Discovery THEN s.b.starting \ {w.object}
                         ELSE s.b.starting
             b == [s.b EXCEPT !.starting = starting]
             answered == [s EXCEPT !.b = b]
             owned == OwnedAfter(s.b.owned, w, error)
             interactions == IF w.call.operation = "Pair" THEN {} ELSE s.b.interactions
             c == [b EXCEPT !.owned = owned, !.interactions = interactions]
             settled == [answered EXCEPT !.b = c]
  <2>1. starting \in SUBSET Objects /\ owned \in SUBSET Objects
    BY <1>0 DEF OwnedAfter
  <2>2. interactions \subseteq s.b.interactions
    OBVIOUS
  <2>3. onlyReply(s, w, error) =
          IF ~Known(s.b, w.call.target) /\ w.call.operation # "Forget"
          THEN Told(answered, IF error = "none" /\ w.call.operation = "StartDiscovery"
                              THEN StopCalls(s.b.owner, {w.object}) ELSE <<>>)
          ELSE changed(Emit(settled, Finished(w.call, error)))
    <3>1. answered = [s EXCEPT !.b.starting = starting] /\ answered.b = b
      BY <1>0 DEF States, Backends
    <3>2. b.owned = s.b.owned /\ b.interactions = s.b.interactions
      BY <1>0 DEF States, Backends
    <3>3. [answered EXCEPT !.b.owned = OwnedAfter(@, w, error),
                           !.b.interactions = IF w.call.operation = "Pair" THEN {} ELSE @] = settled
      <4>1. answered \in [b : {b}, calls : {s.calls}, emits : {s.emits}]
        BY <1>0 DEF States
      <4>2. /\ OwnedAfter(answered.b.owned, w, error) = owned
            /\ (IF w.call.operation = "Pair" THEN {} ELSE answered.b.interactions) = interactions
        BY <3>1, <3>2
      <4>3. [answered EXCEPT !.b.owned = owned, !.b.interactions = interactions] = settled
        <5> HIDE DEF answered, b, owned, interactions
        <5> QED
          BY <4>1
      <4> QED
        BY <4>2, <4>3
    <3>4. answered = [s EXCEPT !.b.starting = IF w.call.operation \in Discovery
                                             THEN @ \ {w.object} ELSE @]
      BY <3>1
    <3> HIDE DEF settled, answered
    <3> QED
      BY <3>3, <3>4 DEF onlyReply
  <2> HIDE DEF starting, owned, interactions
  <2>4. b \in Backends /\ SameLinks(s.b, b) /\ b.watchers = s.b.watchers
        /\ b.interactions = s.b.interactions
    BY <1>0, <2>1 DEF Backends, SameLinks
  <2>5. c \in Backends /\ SameLinks(b, c) /\ c.watchers = b.watchers
        /\ c.interactions = interactions
    <3>1. interactions \in SUBSET [device : Ids, number : Nat]
      BY <1>0, <2>2 DEF Backends
    <3> HIDE DEF b
    <3> QED
      BY <2>1, <2>4, <3>1 DEF Backends, SameLinks
  <2> HIDE DEF b, c
  <2>6. Done(answered, q, h) /\ answered.b = b
    BY <2>4, FieldsKeep
  <2> HIDE DEF answered
  <2>7. Done(settled, q, h)
    BY <2>2, <2>4, <2>5, <2>6, FieldsKeep
  <2> HIDE DEF settled
  <2>8. Done(changed(Emit(settled, Finished(w.call, error))), q, h)
    BY <1>1, <2>7, ReportKeeps, ChangeKeeps
  <2>9. Done(Told(answered, StopCalls(s.b.owner, {w.object})), q, h)
    <3>1. {w.object} \in SUBSET Objects
      BY <1>0
    <3> QED
      BY <1>0, <2>6, <3>1, StopsKeep, StopCallsTyped
  <2>10. Done(Told(answered, <<>>), q, h)
    <3>1. <<>> \in Seq(Calls \cup Stops) /\ ToSet(<<>>) = {}
      BY DEF ToSet
    <3> QED
      BY <2>6, <3>1, StopsKeep
  <2> QED
    BY <2>3, <2>8, <2>9, <2>10
<1> QED
  BY <1>2, <1>3, <1>4

LEMMA ExecuteKeeps ==
  ASSUME NEW s, NEW q \in Seq(Messages), NEW h, Done(s, q, h), NEW c \in Requests
  PROVE  Done(execute(s, c), q, h)
<1> DEFINE report == Append(s.b.deferred, Finished(c, Refusal(s.b, c)))
           step == IF c.operation = "Discoverable" THEN "timeout" ELSE "only"
           refused == [s.b EXCEPT !.deferred = report]
           starting == IF c.operation \in Discovery THEN s.b.starting \cup {c.target[1]}
                       ELSE s.b.starting
           interactions == IF c.operation = "CancelPairing" THEN {} ELSE s.b.interactions
           begun == [s.b EXCEPT !.starting = starting, !.interactions = interactions]
<1>0. /\ s \in States /\ s.b \in Backends /\ s.b.starting \in SUBSET Objects
      /\ s.b.deferred \in Seq(Finishes) /\ c.target[1] \in Objects
      /\ step \in {"timeout", "set", "only"}
  BY DEF Done, Sound, Base, States, Backends, Requests
<1>1. Refusal(s.b, c) \in Results
  BY DEF Refusal, Results
<1>2. /\ Finished(c, Refusal(s.b, c)) \in Finishes
      /\ OperationCall(s.b, c, step) \in Calls
      /\ OperationCall(s.b, c, step).kind # "refresh"
  BY <1>0, <1>1, OperationTyped
<1>3. report \in Seq(Finishes)
  BY <1>0, <1>2
<1>4. /\ starting \in SUBSET Objects /\ interactions \subseteq s.b.interactions
      /\ interactions \in SUBSET [device : Ids, number : Nat]
  BY <1>0 DEF Backends
<1>5. execute(s, c) = IF Refusal(s.b, c) # "none" \/ Satisfied(s.b, c) THEN [s EXCEPT !.b = refused]
                      ELSE Watched([s EXCEPT !.b = begun], OperationCall(s.b, c, step))
  <2>1. [s EXCEPT !.b = refused] = [s EXCEPT !.b.deferred = report]
    BY <1>0 DEF States
  <2>2. [s EXCEPT !.b = begun] = [s EXCEPT !.b.starting = starting, !.b.interactions = interactions]
    BY <1>0 DEF States, Backends
  <2> QED
    BY <2>1, <2>2 DEF execute
<1> HIDE DEF report, step, starting, interactions
<1>6. /\ refused \in Backends /\ SameLinks(s.b, refused) /\ refused.watchers = s.b.watchers
      /\ refused.interactions = s.b.interactions
  BY <1>0, <1>3 DEF Backends, SameLinks
<1>7. /\ begun \in Backends /\ SameLinks(s.b, begun) /\ begun.watchers = s.b.watchers
      /\ begun.interactions = interactions
  BY <1>0, <1>4 DEF Backends, SameLinks
<1> HIDE DEF refused, begun
<1>8. Done([s EXCEPT !.b = refused], q, h)
  BY <1>6, FieldsKeep
<1>9. Done(Watched([s EXCEPT !.b = begun], OperationCall(s.b, c, step)), q, h)
  <2>1. Done([s EXCEPT !.b = begun], q, h)
    BY <1>4, <1>7, FieldsKeep
  <2> QED
    BY <1>2, <2>1, CallKeeps
<1> QED
  BY <1>5, <1>8, <1>9

(* refreshReply(): t is the state without the watcher.                        *)
LEMMA RefreshAnswered ==
  ASSUME NEW q \in Seq(Messages), NEW h, Done(Idle, q, h), NEW m \in Replies,
         m.watcher \in Refreshes(backend, backend.watchers),
         Publishable(backend, m) => Agrees(Idle, q, m.world, 0) /\ m.world.version >= h,
         NEW t, Done(t, q, h), t.emits = <<>>, t.calls = <<>>,
         t.b = [backend EXCEPT !.watchers = @ \ {m.watcher}]
  PROVE  Done(refreshReply(t, m.watcher, m.error # "none", m.world), q, h)
<1> DEFINE w == m.watcher
           b == [t.b EXCEPT !.refreshing = FALSE]
           idle == [t EXCEPT !.b = b]
<1>0. /\ t \in States /\ t.b \in Backends /\ backend \in Backends
      /\ Base(t, q) /\ Base(Idle, q) /\ Asks(Idle, q) /\ sent \in Seq(Calls \cup Stops)
      /\ backend.revision \in Nat /\ Idle.b = backend
  <2>1. Base(t, q) /\ Base(Idle, q) /\ Idle.b = backend
    BY DEF Done, Sound, Idle
  <2>2. /\ t \in States /\ Idle \in States /\ Asks(Idle, q) /\ sent \in Seq(Calls \cup Stops)
    BY <2>1 DEF Base
  <2>3. t.b \in Backends /\ backend \in Backends
    BY <2>1, <2>2 DEF States
  <2> QED
    BY <2>1, <2>2, <2>3 DEF Backends
<1>1. /\ w \in backend.watchers /\ w.kind = "refresh" /\ w.revision \in Nat
      /\ w.revision <= backend.revision
      /\ Refreshes(backend, backend.watchers) = {w} /\ backend.owner # None
      /\ \A x \in Refreshes(backend, Under(Idle, q)) : x.revision <= w.revision
  <2>1. w \in Calls /\ w.kind = "refresh"
    BY ReplyTyped DEF Refreshes
  <2> QED
    BY <1>0, <2>1, CallKinds DEF Asks, Refreshes
<1> HIDE DEF w
<1>2. /\ b \in Backends /\ b.started = backend.started /\ b.owner = backend.owner
      /\ b.generation = backend.generation /\ b.revision = backend.revision
      /\ b.refreshing = FALSE /\ b.ids = backend.ids /\ b.minted = backend.minted
      /\ b.agentDevices = backend.agentDevices /\ b.interactions = backend.interactions
      /\ b.watchers = backend.watchers \ {w} /\ b.watchers = t.b.watchers
      /\ t.b.started = backend.started /\ t.b.owner = backend.owner
      /\ t.b.generation = backend.generation /\ t.b.revision = backend.revision
      /\ t.b.ids = backend.ids /\ t.b.minted = backend.minted
      /\ t.b.interactions = backend.interactions
  BY <1>0 DEF Backends, w
<1> HIDE DEF b
<1>3. /\ idle \in States /\ idle.b = b /\ idle.calls = <<>> /\ idle.emits = <<>>
      /\ idle = [t EXCEPT !.b.refreshing = FALSE]
  BY <1>0, <1>2 DEF States, b
<1> HIDE DEF idle
<1>4. /\ Snapshots(idle) = {} /\ Snapshots(t) = {} /\ Snapshots(Idle) = {}
      /\ NamedBy(idle) = NamedBy(t) /\ NamedBy(idle) = NamedBy(Idle)
      /\ ShownBy(idle) = ShownBy(Idle) /\ Under(idle, q) = Under(Idle, q)
  BY <1>3 DEF Snapshots, ToSet, NamedBy, ShownBy, Under, Idle
<1>5. Refreshes(b, b.watchers) = {} /\ Refreshes(t.b, t.b.watchers) = {}
  BY <1>1, <1>2 DEF Refreshes
<1>6. AsksNoMore(t, idle)
  BY <1>2, <1>3 DEF AsksNoMore
<1>7. Asks(idle, q)
  <2>1. Asks(t, q)
    BY <1>0 DEF Base
  <2>2. /\ idle.b.generation = t.b.generation /\ idle.b.revision = t.b.revision
        /\ idle.b.owner = t.b.owner
    BY <1>2, <1>3
  <2> QED
    BY <1>5, <1>6, <2>1, <2>2, AsksKept
<1>8. Base(idle, q)
  <2>1. Connection(idle, q) /\ Announced(q)
    BY <1>0, <1>2, <1>3 DEF Base, Connection
  <2>2. Minted(idle) /\ OneObject(idle) /\ IdsStand(idle, q)
    BY <1>0, <1>2, <1>3, <1>4 DEF Base, Minted, OneObject, IdsStand, For
  <2> QED
    BY <1>0, <1>3, <1>7, <2>1, <2>2 DEF Base
<1>a. CASE w.revision # backend.revision
  <2>1. \A x \in Refreshes(b, b.watchers \cup Under(idle, q)) : x.revision < b.revision
    <3> SUFFICES ASSUME NEW x \in Refreshes(b, b.watchers \cup Under(idle, q))
                 PROVE  x.revision < b.revision
      OBVIOUS
    <3>1. x \in Refreshes(backend, Under(Idle, q)) /\ x.kind = "refresh"
      BY <1>2, <1>4, <1>5 DEF Refreshes
    <3>2. x \in idle.b.watchers \cup Under(idle, q)
      BY <1>3 DEF Refreshes
    <3>3. x.revision \in Nat
      BY <1>0, <1>3, <3>1, <3>2, UnderTyped
    <3>4. x.revision <= w.revision
      BY <1>1, <3>1
    <3> QED
      BY <1>0, <1>1, <1>2, <1>a, <3>3, <3>4
  <2>2. (\A e, f \in Snapshots(idle) : e = f) /\ (b.owner = None => ShownBy(idle) = Nothing)
    BY <1>1, <1>2, <1>4
  <2>3. /\ Sound(refresh(idle), q) /\ Fresh(refresh(idle), q, h)
        /\ refresh(idle).b.generation = b.generation
    BY <1>3, <1>8, <2>1, <2>2, RefreshSound
  <2> QED
    BY <1>2, <1>3, <1>a, <2>3 DEF refreshReply, Done, w
<1>b. CASE w.revision = backend.revision /\ m.error # "none"
  <2>1. /\ Sound(withdraw(idle), q) /\ Fresh(withdraw(idle), q, h)
        /\ withdraw(idle).b.generation = b.generation
    BY <1>3, <1>4, <1>5, <1>8, WithdrawSound
  <2> QED
    BY <1>2, <1>3, <1>b, <2>1 DEF refreshReply, Done, w
<1>c. CASE w.revision = backend.revision /\ m.error = "none"
  <2>1. Publishable(backend, m)
    BY <1>c, ReplyTyped DEF Publishable, w
  <2>2. Agrees(idle, q, m.world, 0) /\ m.world.version >= h /\ m.world \in Worlds
    BY <1>0, <1>2, <1>3, <1>4, <1>c, <2>1, ReplyTyped DEF Agrees, For
  <2>3. idle.b.owner # None /\ Refreshes(idle.b, idle.b.watchers) = {}
    BY <1>1, <1>2, <1>3, <1>5
  <2>4. /\ Sound(publish(idle, m.world), q) /\ Fresh(publish(idle, m.world), q, h)
        /\ publish(idle, m.world).b.generation = idle.b.generation
    BY <1>4, <1>8, <2>2, <2>3, PublishSound
  <2> QED
    BY <1>2, <1>3, <1>c, <2>4 DEF refreshReply, Done, w
<1> QED
  BY <1>a, <1>b, <1>c

(* Nothing that this connection was told counts for the next one.              *)
Kept(s, q, h) ==
  Sound(s, q) /\ Fresh(s, q, IF s.b.generation # backend.generation THEN 0 ELSE h)

LEMMA DoneIsKept ==
  ASSUME NEW s, NEW q, NEW h, Done(s, q, h)
  PROVE  Kept(s, q, h)
BY DEF Done, Kept

LEMMA OwnerKept ==
  ASSUME NEW s \in States, sent \in Seq(Calls \cup Stops), NEW q \in Seq(Messages), NEW h,
         NEW new \in Owners, Asks(s, q), Announced(q), Minted(s), OneObject(s), Snapshots(s) = {},
         new = instance \/ new = None \/ Changes(q), new # None => s.b.started,
         s.b.generation = backend.generation
  PROVE  Kept(setOwner(s, new), q, h)
<1>1. s.b.generation \in Nat
  BY DEF States, Backends
<1>2. setOwner(s, new).b.generation # backend.generation
  BY <1>1, OwnerSound
<1> QED
  BY <1>2, OwnerSound DEF Kept

LEMMA RepliedKeeps ==
  ASSUME NEW q \in Seq(Messages), NEW h, Done(Idle, q, h), NEW m \in Replies,
         Publishable(backend, m) => Agrees(Idle, q, m.world, 0) /\ m.world.version >= h,
         m.watcher.kind = "owner" => m.owner = instance \/ m.owner = None \/ Changes(q)
  PROVE  Kept(replied(Idle, m), q, h)
<1> DEFINE w == m.watcher
           b == [backend EXCEPT !.watchers = @ \ {w}]
           t == [Idle EXCEPT !.b = b]
<1>0. /\ Idle \in States /\ backend \in Backends /\ Idle.b = backend
      /\ w \in Calls /\ m.error \in {"none", "Upstream"} /\ m.owner \in Owners
  BY ReplyTyped DEF Done, Sound, Base, States, Idle
<1>1. /\ b \in Backends /\ SameLinks(backend, b) /\ b.watchers = backend.watchers \ {w}
      /\ b.interactions = backend.interactions /\ b.started = backend.started
      /\ b.owner = backend.owner /\ b.generation = backend.generation
  BY <1>0 DEF Backends, SameLinks
<1>2. t = [Idle EXCEPT !.b.watchers = @ \ {w}]
  BY <1>0 DEF States
<1>3. /\ Done(t, q, h) /\ t.b = b /\ t.calls = <<>> /\ t.emits = <<>>
  <2> HIDE DEF b
  <2>1. Done(t, q, h) /\ t.b = b /\ t.calls = Idle.calls /\ t.emits = Idle.emits
    BY <1>0, <1>1, FieldsKeep
  <2> QED
    BY <2>1 DEF Idle
<1> HIDE DEF t, b
<1>4. Kept(t, q, h) /\ Kept(Idle, q, h)
  BY <1>3, DoneIsKept
<1>5. replied(Idle, m) =
        IF w \notin backend.watchers THEN Idle
        ELSE IF w.generation # backend.generation THEN t
        ELSE CASE w.kind = "owner" -> IF backend.started THEN setOwner(t, m.owner) ELSE t
               [] w.kind = "register" -> [t EXCEPT !.b.registered = (m.error = "none")]
               [] w.kind = "refresh" -> refreshReply(t, w, m.error # "none", m.world)
               [] w.kind = "operation" /\ w.step = "timeout" -> timeoutReply(t, w, m.error)
               [] w.kind = "operation" /\ w.step = "set" -> setReply(t, w, m.error)
               [] w.kind = "operation" /\ w.step = "only" -> onlyReply(t, w, m.error)
  BY <1>0, <1>2 DEF replied
<1>a. CASE w \notin backend.watchers \/ w.generation # backend.generation
  BY <1>4, <1>5, <1>a
<1>b. CASE w \in backend.watchers /\ w.generation = backend.generation /\ w.kind = "owner"
  <2>1. /\ t \in States /\ sent \in Seq(Calls \cup Stops) /\ Asks(t, q) /\ Announced(q)
        /\ Minted(t) /\ OneObject(t) /\ Snapshots(t) = {}
    BY <1>3 DEF Done, Sound, Base, Snapshots, ToSet
  <2>2. CASE backend.started
    <3>1. Kept(setOwner(t, m.owner), q, h)
      BY <1>0, <1>1, <1>3, <1>b, <2>1, <2>2, OwnerKept
    <3> QED
      BY <1>5, <1>b, <2>2, <3>1
  <2>3. CASE ~backend.started
    BY <1>4, <1>5, <1>b, <2>3
  <2> QED
    BY <2>2, <2>3
<1>c. CASE w \in backend.watchers /\ w.generation = backend.generation /\ w.kind = "register"
  <2> DEFINE r == (m.error = "none")
             c == [b EXCEPT !.registered = r]
             u == [t EXCEPT !.b = c]
  <2>1. r \in BOOLEAN
    OBVIOUS
  <2> HIDE DEF r
  <2>2. c \in Backends /\ SameLinks(b, c) /\ c.watchers = b.watchers /\ c.interactions = b.interactions
    BY <1>1, <2>1 DEF Backends, SameLinks
  <2>3. t \in States
    BY <1>3 DEF Done, Sound, Base
  <2>4. u = [t EXCEPT !.b.registered = r]
    BY <1>3, <2>3 DEF States
  <2> HIDE DEF c
  <2>5. Done(u, q, h)
    BY <1>3, <2>2, FieldsKeep
  <2> HIDE DEF u
  <2> QED
    BY <1>5, <1>c, <2>4, <2>5, DoneIsKept DEF r
<1>d. CASE w \in backend.watchers /\ w.generation = backend.generation /\ w.kind = "refresh"
  <2>1. w \in Refreshes(backend, backend.watchers)
    BY <1>d DEF Refreshes
  <2>2. Done(refreshReply(t, w, m.error # "none", m.world), q, h)
    BY <1>3, <2>1, RefreshAnswered DEF b
  <2> QED
    BY <1>5, <1>d, <2>2, DoneIsKept
<1>e. CASE w \in backend.watchers /\ w.generation = backend.generation /\ w.kind = "operation"
  <2>1. w \in Orders /\ w.step \in {"timeout", "set", "only"}
    BY <1>0, <1>e, CallKinds DEF Orders
  <2>2. /\ Done(timeoutReply(t, w, m.error), q, h)
        /\ Done(setReply(t, w, m.error), q, h)
        /\ Done(onlyReply(t, w, m.error), q, h)
    BY <1>0, <1>3, <2>1, OperationAnswered
  <2> QED
    BY <1>5, <1>e, <2>1, <2>2, DoneIsKept
<1> QED
  BY <1>0, <1>a, <1>b, <1>c, <1>d, <1>e, CallKinds

-----------------------------------------------------------------------------
(* The head of the queue is taken.                                           *)

LEMMA RestTyped ==
  ASSUME NEW q \in Seq(Messages), q # <<>>
  PROVE  /\ Tail(q) \in Seq(Messages) /\ Head(q) \in Messages
         /\ 1 \in 1..Len(q) /\ q[1] = Head(q) /\ Len(q) \in Nat
         /\ \A k \in 1..Len(Tail(q)) : /\ k \in Nat /\ k + 1 \in Nat /\ 1 < k + 1
                                      /\ k + 1 \in 1..Len(q) /\ Tail(q)[k] = q[k + 1]
         /\ \A j \in 1..Len(q) : j = 1 \/ \E k \in 1..Len(Tail(q)) : j = k + 1 /\ Tail(q)[k] = q[j]
<1>1. /\ Tail(q) \in Seq(Messages) /\ Head(q) \in Messages /\ Len(q) \in Nat /\ Len(q) >= 1
      /\ Len(Tail(q)) = Len(q) - 1 /\ q[1] = Head(q)
      /\ \A k \in 1..(Len(q) - 1) : Tail(q)[k] = q[k + 1]
  OBVIOUS
<1> DEFINE r == Tail(q)
<1> HIDE DEF r
<1>2. \A j \in 1..Len(q) : j = 1 \/ (j - 1 \in 1..(Len(q) - 1) /\ j = (j - 1) + 1)
  BY <1>1
<1> QED
  BY <1>1, <1>2

LEMMA RestDoes ==
  ASSUME NEW q \in Seq(Messages), q # <<>>
  PROVE  /\ Answered(Tail(q)) \subseteq Answered(q)
         /\ Announced(q) => Announced(Tail(q))
         /\ \A f, o : Retired(q, 1, f, o) => Retired(Tail(q), 0, f, o)
         /\ \A f, o : \A k \in 1..Len(Tail(q)) : Retired(q, k + 1, f, o) => Retired(Tail(q), k, f, o)
         /\ \A f, o : Retired(q, 0, f, o) => Retires(Head(q), f, o) \/ Retired(Tail(q), 0, f, o)
         /\ \A f : \A k \in 1..Len(Tail(q)) :
              Calm(Tail(q), k, f) /\ ~Disturbs(Head(q), f) => Calm(q, k + 1, f)
         /\ Changes(q) => Head(q).kind = "owner" \/ Changes(Tail(q))
<1> DEFINE r == Tail(q)
<1>1. /\ 1 \in 1..Len(q) /\ q[1] = Head(q) /\ Len(q) \in Nat
      /\ \A k \in 1..Len(r) : k \in Nat /\ 1 < k + 1 /\ k + 1 \in 1..Len(q) /\ r[k] = q[k + 1]
      /\ \A j \in 1..Len(q) : j = 1 \/ \E k \in 1..Len(r) : j = k + 1 /\ r[k] = q[j]
  BY RestTyped
<1> HIDE DEF r
<1>2. Answered(r) \subseteq Answered(q)
  BY <1>1 DEF Answered
<1>3. ASSUME NEW f, NEW o, NEW k \in Nat, Retired(q, k + 1, f, o) PROVE Retired(r, k, f, o)
  <2>1. PICK j \in 1..Len(q) : k + 1 < j /\ Retires(q[j], f, o)
    BY <1>3 DEF Retired
  <2>2. j # 1
    BY <2>1
  <2>3. PICK i \in 1..Len(r) : j = i + 1 /\ r[i] = q[j]
    BY <1>1, <2>2
  <2>4. k < i
    BY <2>1, <2>3
  <2> QED
    BY <2>1, <2>3, <2>4 DEF Retired
<1>4. \A f, o : Retired(q, 1, f, o) => Retired(r, 0, f, o)
  BY <1>3, 0 + 1 = 1
<1>5. \A f, o : \A k \in 1..Len(r) : Retired(q, k + 1, f, o) => Retired(r, k, f, o)
  BY <1>1, <1>3
<1>6. ASSUME NEW f, NEW o, Retired(q, 0, f, o), ~Retires(Head(q), f, o) PROVE Retired(r, 0, f, o)
  <2>1. PICK j \in 1..Len(q) : Retires(q[j], f, o)
    BY <1>6 DEF Retired
  <2>2. PICK k \in 1..Len(r) : j = k + 1 /\ r[k] = q[j]
    BY <1>1, <1>6, <2>1
  <2>3. 0 < k
    OBVIOUS
  <2> QED
    BY <2>1, <2>2, <2>3 DEF Retired
<1>7. ASSUME NEW f, NEW k \in 1..Len(r), Calm(r, k, f), ~Disturbs(Head(q), f)
      PROVE  Calm(q, k + 1, f)
  <2> SUFFICES ASSUME NEW j \in 1..Len(q), j < k + 1 PROVE ~Disturbs(q[j], f)
    BY DEF Calm
  <2>1. CASE j = 1
    BY <1>1, <1>7, <2>1
  <2>2. CASE j # 1
    <3>1. PICK i \in 1..Len(r) : j = i + 1 /\ r[i] = q[j]
      BY <1>1, <2>2
    <3>2. i < k
      BY <3>1
    <3> QED
      BY <1>7, <3>1, <3>2 DEF Calm
  <2> QED
    BY <2>1, <2>2
<1>8. Changes(q) => Head(q).kind = "owner" \/ Changes(r)
  BY <1>1 DEF Changes
<1>9. ASSUME Announced(q) PROVE Announced(r)
  <2> SUFFICES ASSUME NEW k \in 1..Len(r)
               PROVE  /\ TellsOwner(r[k]) =>
                           r[k].owner = instance \/ \E j \in 1..Len(r) : k < j /\ r[j].kind = "owner"
                      /\ r[k].kind = "agent" =>
                           \/ Retired(r, k, r[k].from, r[k].object)
                           \/ instance = r[k].from /\ r[k].object \in world.present
    BY DEF Announced
  <2>1. k + 1 \in 1..Len(q) /\ r[k] = q[k + 1]
    BY <1>1
  <2>2. ASSUME NEW j \in 1..Len(q), k + 1 < j
        PROVE  \E i \in 1..Len(r) : k < i /\ r[i] = q[j]
    <3>1. PICK i \in 1..Len(r) : j = i + 1 /\ r[i] = q[j]
      BY <1>1, <2>2
    <3> QED
      BY <2>2, <3>1
  <2>3. TellsOwner(r[k]) =>
          r[k].owner = instance \/ \E j \in 1..Len(r) : k < j /\ r[j].kind = "owner"
    BY <1>9, <2>1, <2>2 DEF Announced
  <2>4. r[k].kind = "agent" =>
          \/ Retired(r, k, r[k].from, r[k].object)
          \/ instance = r[k].from /\ r[k].object \in world.present
    BY <1>5, <1>9, <2>1 DEF Announced
  <2> QED
    BY <2>3, <2>4
<1> QED
  BY <1>2, <1>4, <1>5, <1>6, <1>7, <1>8, <1>9 DEF r

LEMMA HeadTaken ==
  ASSUME NEW s, NEW q \in Seq(Messages), q # <<>>, Base(s, q),
         \/ s.b.owner = None
         \/ /\ Head(q).kind # "owner"
            /\ \A o \in Objects : s.b.ids[o] # None => ~Retires(Head(q), s.b.owner, o)
  PROVE  /\ Base(s, Tail(q))
         /\ AnswersStand(s, q) /\ (s.b.owner = None \/ ~Disturbs(Head(q), s.b.owner)) =>
              AnswersStand(s, Tail(q))
         /\ \A h : Fresh(s, q, h) => Fresh(s, Tail(q), h)
<1> DEFINE r == Tail(q)
<1>1. /\ Answered(r) \subseteq Answered(q) /\ (Announced(q) => Announced(r))
      /\ \A f, o : \A k \in 1..Len(r) : Retired(q, k + 1, f, o) => Retired(r, k, f, o)
      /\ \A f, o : Retired(q, 0, f, o) => Retires(Head(q), f, o) \/ Retired(r, 0, f, o)
      /\ \A f : \A k \in 1..Len(r) : Calm(r, k, f) /\ ~Disturbs(Head(q), f) => Calm(q, k + 1, f)
      /\ Changes(q) => Head(q).kind = "owner" \/ Changes(r)
  BY RestDoes
<1>2. \A k \in 1..Len(r) : k + 1 \in 1..Len(q) /\ r[k] = q[k + 1]
  BY RestTyped
<1> HIDE DEF r
<1>3. Asks(s, r) /\ Announced(r)
  <2>1. Under(s, r) \subseteq Under(s, q)
    BY <1>1 DEF Under
  <2>2. Refreshes(s.b, Under(s, r)) \subseteq Refreshes(s.b, Under(s, q))
    BY <2>1 DEF Refreshes
  <2> QED
    BY <1>1, <2>1, <2>2 DEF Base, Asks
<1>4. s.b.owner = None => s.b.ids = NoIds /\ \A m : ~Publishable(s.b, m)
  BY DEF Base, Connection, Asks, Publishable
<1>5. Connection(s, r)
  BY <1>1 DEF Base, Connection
<1>6. IdsStand(s, r)
  BY <1>1, <1>4 DEF Base, IdsStand, NoIds
<1>7. Base(s, r)
  BY <1>3, <1>5, <1>6 DEF Base
<1>8. ASSUME AnswersStand(s, q), s.b.owner = None \/ ~Disturbs(Head(q), s.b.owner)
      PROVE  AnswersStand(s, r)
  <2> SUFFICES ASSUME NEW k \in 1..Len(r), Publishable(s.b, r[k]), Calm(r, k, s.b.owner)
               PROVE  Agrees(s, r, r[k].world, k)
    BY DEF AnswersStand
  <2>1. Agrees(s, q, r[k].world, k + 1)
    BY <1>1, <1>2, <1>4, <1>8 DEF AnswersStand
  <2> QED
    BY <1>1, <2>1 DEF Agrees
<1>9. ASSUME NEW h, Fresh(s, q, h) PROVE Fresh(s, r, h)
  BY <1>2, <1>9 DEF Fresh
<1> QED
  BY <1>7, <1>8, <1>9 DEF r

LEMMA IdleDoes ==
  /\ Idle.b = backend /\ Idle.calls = <<>> /\ Idle.emits = <<>> /\ Snapshots(Idle) = {}
  /\ NamedBy(Idle) = named /\ ShownBy(Idle) = shown
BY DEF Idle, Snapshots, NamedBy, ShownBy, ToSet

(* The ids a removal retires. *)
LEMMA RemovedKeeps ==
  ASSUME NEW q \in Seq(Messages), q # <<>>, NEW h, Sound(Idle, q), Fresh(Idle, q, h),
         Head(q).kind = "removed", backend.owner # None,
         NEW l
  PROVE  /\ Sound(interfacesRemoved(Idle, Head(q).object), Tail(q))
         /\ Fresh(interfacesRemoved(Idle, Head(q).object), Tail(q), l)
         /\ interfacesRemoved(Idle, Head(q).object).b.generation = backend.generation
<1> DEFINE o == Head(q).object
           children == IF o \in Adapters THEN backend.devices \cap DevicesOn(o) ELSE {}
           ids == [p \in Objects |-> IF p \in children \cup {o} THEN None ELSE backend.ids[p]]
           b == [backend EXCEPT !.ids = ids, !.owned = @ \ {o}, !.starting = @ \ {o}]
           u == [Idle EXCEPT !.b = b]
<1>0. /\ Idle \in States /\ backend \in Backends /\ Base(Idle, q) /\ Tail(q) \in Seq(Messages)
      /\ backend.ids \in [Objects -> Ids]
  BY IdleDoes, RestTyped DEF Sound, Base, States, Backends
<1>1. interfacesRemoved(Idle, o) = changed(u)
  BY <1>0, IdleDoes DEF interfacesRemoved, States, Backends
<1>2. /\ ids \in [Objects -> Ids] /\ (o \in Objects => ids[o] = None)
      /\ \A p \in Objects : ids[p] # None => p # o /\ ids[p] = backend.ids[p]
  BY <1>0 DEF Ids
<1> HIDE DEF ids
<1>3. /\ b \in Backends /\ b.started = backend.started /\ b.owner = backend.owner
      /\ b.generation = backend.generation /\ b.revision = backend.revision
      /\ b.refreshing = backend.refreshing /\ b.ids = ids /\ b.minted = backend.minted
      /\ b.watchers = backend.watchers
  BY <1>0, <1>2 DEF Backends
<1> HIDE DEF b
<1>4. u \in States /\ u.b = b /\ u.calls = <<>> /\ u.emits = <<>>
  BY <1>0, <1>3, IdleDoes DEF States
<1> HIDE DEF u
<1>5. /\ Snapshots(u) = {} /\ NamedBy(u) = named /\ ShownBy(u) = shown
      /\ Under(u, q) = Under(Idle, q)
  BY <1>4, IdleDoes DEF Snapshots, ToSet, NamedBy, ShownBy, Under
<1>6. Base(u, q)
  <2>1. Asks(u, q)
    BY <1>0, <1>3, <1>4, <1>5, IdleDoes DEF Base, Asks, Refreshes
  <2>2. Connection(u, q) /\ Announced(q)
    BY <1>0, <1>3, <1>4, IdleDoes DEF Base, Connection
  <2>3. Minted(u) /\ OneObject(u)
    BY <1>0, <1>2, <1>3, <1>4, <1>5, IdleDoes DEF Base, Minted, OneObject
  <2>4. IdsStand(u, q)
    BY <1>0, <1>2, <1>3, <1>4, <1>5, IdleDoes DEF Base, IdsStand, For
  <2> QED
    BY <1>0, <1>4, <2>1, <2>2, <2>3, <2>4 DEF Base
<1>7. Base(u, Tail(q))
  <2>1. \A p \in Objects : u.b.ids[p] # None => ~Retires(Head(q), u.b.owner, p)
    BY <1>2, <1>3, <1>4 DEF Retires
  <2> QED
    BY <1>6, <2>1, HeadTaken
<1>8. ShowsOnce(u)
  BY <1>3, <1>4, <1>5, IdleDoes DEF ShowsOnce, Fresh
<1> QED
  BY <1>0, <1>1, <1>3, <1>4, <1>7, <1>8, ChangedSound

(* What a device is called when it asks to be paired. *)
(* What agentRequest() makes of a device that is not known: the id it has, or *)
(* a new one, before the daemon is asked again.                               *)
Reserved(s, o, id, n) ==
  /\ s \in States /\ s.calls = <<>> /\ s.emits = <<>>
  /\ s.b.started = backend.started /\ s.b.owner = backend.owner
  /\ s.b.generation = backend.generation /\ s.b.revision = backend.revision
  /\ s.b.refreshing = backend.refreshing /\ s.b.watchers = backend.watchers
  /\ s.b.owned = backend.owned
  /\ s.b.ids[o] = id /\ \A p \in Objects : p # o => s.b.ids[p] = backend.ids[p]
  /\ s.b.minted[o] = n /\ \A p \in Objects : p # o => s.b.minted[p] = backend.minted[p]
  /\ id \in Ids /\ n \in Nat
  /\ id = IF backend.ids[o] = None THEN <<o, backend.minted[o] + 1>> ELSE backend.ids[o]
  /\ n = IF backend.ids[o] = None THEN backend.minted[o] + 1 ELSE backend.minted[o]

LEMMA ReservedSound ==
  ASSUME NEW q \in Seq(Messages), NEW h, Base(Idle, q), Fresh(Idle, q, h),
         NEW o \in Objects, backend.owner # None, world \in Worlds,
         Retired(q, 0, backend.owner, o) \/ (instance # None /\ o \in world.present),
         NEW id, NEW n, NEW s, Reserved(s, o, id, n)
  PROVE  /\ Sound(changed(s), q) /\ Fresh(changed(s), q, h)
         /\ changed(s).b.generation = backend.generation /\ changed(s).b.owner = backend.owner
         /\ changed(s).b.refreshing
<1> DEFINE ids == s.b.ids  minted == s.b.minted
<1>0. /\ backend.ids \in [Objects -> Ids] /\ backend.minted \in [Objects -> Nat]
  BY IdleDoes DEF Base, States, Backends
<1>1. n \in Nat /\ n >= backend.minted[o]
  BY <1>0 DEF Reserved
<1>a. /\ id = (IF backend.ids[o] = None THEN <<o, backend.minted[o] + 1>> ELSE backend.ids[o])
      /\ n = (IF backend.ids[o] = None THEN backend.minted[o] + 1 ELSE backend.minted[o])
  BY DEF Reserved
<1>b. /\ s.b.started = backend.started /\ s.b.owner = backend.owner
      /\ s.b.generation = backend.generation /\ s.b.revision = backend.revision
      /\ s.b.refreshing = backend.refreshing /\ s.b.watchers = backend.watchers
      /\ s.b.ids = ids /\ s.b.minted = minted
      /\ s \in States /\ s.calls = <<>> /\ s.emits = <<>>
  BY DEF Reserved
<1>2. /\ minted[o] = n /\ \A p \in Objects : p # o => minted[p] = backend.minted[p]
      /\ ids[o] = id /\ \A p \in Objects : p # o => ids[p] = backend.ids[p]
      /\ minted \in [Objects -> Nat]
  BY DEF Reserved, States, Backends
<1> HIDE DEF ids, minted
<1>3. /\ Snapshots(s) = {} /\ NamedBy(s) = named /\ ShownBy(s) = shown
      /\ Under(s, q) = Under(Idle, q)
  BY <1>b, IdleDoes DEF Snapshots, ToSet, NamedBy, ShownBy, Under
<1>4. Asks(s, q)
  <2>1. Asks(Idle, q)
    BY DEF Base
  <2>2. \A calls : Refreshes(s.b, calls) = Refreshes(backend, calls)
    BY <1>b DEF Refreshes
  <2> QED
    BY <1>b, <1>3, <2>1, <2>2, IdleDoes DEF Asks
<1>5. Connection(s, q) /\ Announced(q)
  BY <1>b, IdleDoes DEF Base, Connection
<1>6. Minted(s) /\ OneObject(s)
  <2>1. \A p \in Objects : 1..backend.minted[p] \subseteq 1..minted[p]
    <3>1. \A p \in Objects : /\ backend.minted[p] \in Nat /\ minted[p] \in Nat
                             /\ backend.minted[p] <= minted[p]
      BY <1>0, <1>1, <1>2
    <3> QED
      BY <3>1
  <2>2. \A p \in named : \E r \in Objects : \E k \in 1..backend.minted[r] : p.id = <<r, k>>
    BY IdleDoes DEF Base, Minted
  <2>3. \A p \in Objects : backend.ids[p] # None => \E k \in 1..backend.minted[p] : backend.ids[p] = <<p, k>>
    BY IdleDoes DEF Base, Minted
  <2>4. ASSUME ids[o] # None PROVE \E k \in 1..minted[o] : ids[o] = <<o, k>>
    <3>1. CASE backend.ids[o] # None
      BY <1>a, <1>2, <2>1, <2>3, <3>1
    <3>2. CASE backend.ids[o] = None
      <4>1. backend.minted[o] \in Nat
        BY <1>0
      <4>2. backend.minted[o] + 1 \in 1..minted[o]
        BY <1>a, <1>2, <3>2, <4>1
      <4> QED
        BY <1>a, <1>2, <3>2, <4>2
    <3> QED
      BY <3>1, <3>2
  <2>5. \A p \in Objects : ids[p] # None => \E k \in 1..minted[p] : ids[p] = <<p, k>>
    BY <1>2, <2>1, <2>3, <2>4
  <2>6. \A p \in named : \E r \in Objects : \E k \in 1..minted[r] : p.id = <<r, k>>
    BY <2>1, <2>2
  <2>7. OneObject(s)
    BY <1>3, IdleDoes DEF Base, OneObject
  <2> QED
    BY <1>b, <1>3, <2>5, <2>6, <2>7 DEF Minted
<1>7. IdsStand(s, q)
  <2> SUFFICES ASSUME NEW p \in Objects, ids[p] # None, ~Retired(q, 0, backend.owner, p)
               PROVE  \E k \in Nat : Managed(p, k) /\ For(s, ids[p], k)
    BY <1>b DEF IdsStand
  <2>1. CASE p # o \/ backend.ids[o] # None
    <3>1. ids[p] = backend.ids[p]
      BY <1>a, <1>2, <2>1
    <3>2. PICK k \in Nat : Managed(p, k) /\ For(Idle, backend.ids[p], k)
      BY <3>1, IdleDoes DEF Base, IdsStand
    <3> QED
      BY <1>3, <3>1, <3>2, IdleDoes DEF For
  <2>2. CASE p = o /\ backend.ids[o] = None
    <3>1. ids[o] = <<o, backend.minted[o] + 1>>
      BY <1>a, <1>2, <2>2
    <3>2. world.incarnation[o] \in Nat
      BY DEF Worlds
    <3>3. Managed(o, world.incarnation[o])
      BY <2>2 DEF Managed
    <3>4. \A r \in named : r.id # ids[o]
      <4> SUFFICES ASSUME NEW r \in named, r.id = ids[o] PROVE FALSE
        OBVIOUS
      <4>1. PICK x \in Objects : \E k \in 1..backend.minted[x] : r.id = <<x, k>>
        BY IdleDoes DEF Base, Minted
      <4>2. PICK k \in 1..backend.minted[x] : r.id = <<x, k>>
        BY <4>1
      <4>3. <<x, k>> = <<o, backend.minted[o] + 1>>
        BY <3>1, <4>2
      <4>4. x = o /\ k = backend.minted[o] + 1
        BY <4>3, PairsAlike
      <4> QED
        BY <1>0, <4>2, <4>4
    <3> QED
      BY <1>3, <2>2, <3>2, <3>3, <3>4 DEF For
  <2> QED
    BY <2>1, <2>2
<1>8. Base(s, q) /\ ShowsOnce(s)
  BY <1>b, <1>3, <1>4, <1>5, <1>6, <1>7, IdleDoes DEF Base, ShowsOnce, Fresh
<1> QED
  BY <1>b, <1>8, ChangedSound

Reserves(o, id) ==
  [Idle EXCEPT !.b.minted[o] = IF Idle.b.ids[o] = None THEN @ + 1 ELSE @,
               !.b.ids[o] = id, !.b.agentDevices[o] = id]

LEMMA ReservedDoes ==
  ASSUME NEW q, Base(Idle, q), NEW o \in Objects
  PROVE  \E id, n : id = idFor(backend, o) /\ Reserved(Reserves(o, id), o, id, n)
<1> DEFINE id == idFor(backend, o)
           s == Reserves(o, id)
           n == IF backend.ids[o] = None THEN backend.minted[o] + 1 ELSE backend.minted[o]
           minted == [backend.minted EXCEPT ![o] = n]
           ids == [backend.ids EXCEPT ![o] = id]
           known == [backend.agentDevices EXCEPT ![o] = id]
           b == [backend EXCEPT !.minted = minted, !.ids = ids, !.agentDevices = known]
<1>0. /\ Idle \in States /\ backend \in Backends /\ backend.ids \in [Objects -> Ids]
      /\ backend.minted \in [Objects -> Nat] /\ backend.agentDevices \in [Objects -> Ids]
  BY IdleDoes DEF Base, States, Backends
<1>1. n \in Nat /\ id \in Ids
  <2>1. backend.minted[o] \in Nat /\ backend.ids[o] \in Ids
    BY <1>0
  <2>2. <<o, backend.minted[o] + 1>> \in Ids
    BY <2>1 DEF Ids
  <2> QED
    BY <2>1, <2>2 DEF idFor
<1>2. s = [b |-> b, calls |-> <<>>, emits |-> <<>>]
  <2>1. Idle = [b |-> backend, calls |-> <<>>, emits |-> <<>>]
    BY DEF Idle
  <2>2. s = [Idle EXCEPT !.b.minted[o] = n, !.b.ids[o] = id, !.b.agentDevices[o] = id]
    BY IdleDoes DEF Reserves
  <2> HIDE DEF n, id, s
  <2> QED
    BY <1>0, <2>1, <2>2 DEF Backends
<1> HIDE DEF s
<1>3. /\ id = (IF backend.ids[o] = None THEN <<o, backend.minted[o] + 1>> ELSE backend.ids[o])
      /\ n = (IF backend.ids[o] = None THEN backend.minted[o] + 1 ELSE backend.minted[o])
  BY DEF idFor
<1> HIDE DEF n, id
<1>4. minted \in [Objects -> Nat] /\ ids \in [Objects -> Ids] /\ known \in [Objects -> Ids]
  BY <1>0, <1>1
<1>5. /\ minted[o] = n /\ \A p \in Objects : p # o => minted[p] = backend.minted[p]
      /\ ids[o] = id /\ \A p \in Objects : p # o => ids[p] = backend.ids[p]
  BY <1>0
<1> HIDE DEF minted, ids, known
<1>6. /\ b \in Backends /\ b.started = backend.started /\ b.owner = backend.owner
      /\ b.generation = backend.generation /\ b.revision = backend.revision
      /\ b.refreshing = backend.refreshing /\ b.ids = ids /\ b.minted = minted
      /\ b.watchers = backend.watchers /\ b.owned = backend.owned
  BY <1>0, <1>4 DEF Backends
<1> HIDE DEF b
<1>7. s \in States /\ s.b = b /\ s.calls = <<>> /\ s.emits = <<>>
  <2>1. <<>> \in Seq(Calls \cup Stops) /\ <<>> \in Seq(Finishes \cup Prompts \cup Pictures)
    OBVIOUS
  <2> HIDE DEF Calls, Stops
  <2> QED
    BY <1>2, <1>6, <2>1 DEF States
<1> QED
  BY <1>1, <1>3, <1>5, <1>6, <1>7 DEF Reserved, id, s

LEMMA RequestKeeps ==
  ASSUME NEW q \in Seq(Messages), NEW h, Sound(Idle, q), Fresh(Idle, q, h),
         NEW o \in Objects, backend.owner # None, world \in Worlds, spent.agentCalls \in Nat,
         Retired(q, 0, backend.owner, o) \/ (instance # None /\ o \in world.present)
  PROVE  /\ Sound(agentRequest(Idle, o), q) /\ Fresh(agentRequest(Idle, o), q, h)
         /\ agentRequest(Idle, o).b.generation = backend.generation
<1> DEFINE known == backend.agentDevices[o] # None
           id == IF known THEN backend.agentDevices[o] ELSE idFor(backend, o)
           s == Reserves(o, idFor(backend, o))
           reserved == IF known THEN Idle ELSE changed(s)
           b == [reserved.b EXCEPT !.interactions = @ \cup {[device |-> id, number |-> spent.agentCalls]}]
           u == [reserved EXCEPT !.b = b]
           e == [signal |-> "agentRequested", device |-> id]
           t == Emit(u, e)
<1>0. /\ Base(Idle, q) /\ Idle \in States /\ backend \in Backends
      /\ backend.agentDevices \in [Objects -> Ids]
  BY IdleDoes DEF Sound, Base, States, Backends
<1>1. agentRequest(Idle, o) = Emit([reserved EXCEPT !.b.interactions =
                                      @ \cup {[device |-> id, number |-> spent.agentCalls]}], e)
  <2>1. CASE known
    BY <2>1, IdleDoes DEF agentRequest
  <2>2. CASE ~known
    <3>1. id = idFor(Idle.b, o)
      BY <2>2, IdleDoes
    <3>2. reserved = changed(Reserves(o, id))
      BY <2>2
    <3> HIDE DEF reserved
    <3>3. Idle.b.agentDevices[o] = None
      BY <2>2, IdleDoes
    <3> QED
      BY <3>1, <3>2, <3>3 DEF agentRequest, Reserves
  <2> QED
    BY <2>1, <2>2
<1>2. /\ Sound(changed(s), q) /\ Fresh(changed(s), q, h)
      /\ changed(s).b.generation = backend.generation /\ changed(s).b.owner = backend.owner
      /\ changed(s).b.refreshing /\ idFor(backend, o) \in Ids
  <2>1. PICK x, n : x = idFor(backend, o) /\ Reserved(s, o, x, n)
    BY <1>0, ReservedDoes
  <2> HIDE DEF s
  <2>2. x \in Ids
    BY <2>1 DEF Reserved
  <2> QED
    BY <1>0, <2>1, <2>2, ReservedSound
<1>3. /\ Sound(reserved, q) /\ Fresh(reserved, q, h) /\ id \in Ids
      /\ reserved.b.generation = backend.generation /\ reserved.b.owner = backend.owner
      /\ ~reserved.b.refreshing => id \in Live(reserved.b.ids)
  <2>1. CASE known
    <3>1. id \in Ids /\ id = backend.agentDevices[o] /\ id # None
      BY <1>0, <2>1
    <3>2. ~backend.refreshing => id \in Live(backend.ids)
      BY <2>1, <3>1, IdleDoes DEF Sound, Interacts, Live
    <3> QED
      BY <2>1, <3>1, <3>2, IdleDoes
  <2>2. CASE ~known
    <3> HIDE DEF s
    <3> QED
      BY <1>2, <2>2
  <2> QED
    BY <2>1, <2>2
<1> HIDE DEF known, id, s, reserved
<1>4. reserved \in States /\ reserved.b \in Backends
  BY <1>3 DEF Sound, Base, States
<1>5. u = [reserved EXCEPT !.b.interactions = @ \cup {[device |-> id, number |-> spent.agentCalls]}]
  BY <1>4 DEF States
<1>6. /\ b \in Backends /\ SameLinks(reserved.b, b) /\ b.watchers = reserved.b.watchers
      /\ b.interactions = reserved.b.interactions \cup {[device |-> id, number |-> spent.agentCalls]}
  <2>1. reserved.b.interactions \cup {[device |-> id, number |-> spent.agentCalls]}
          \in SUBSET [device : Ids, number : Nat]
    BY <1>3, <1>4 DEF Backends
  <2> QED
    BY <1>4, <2>1 DEF Backends, SameLinks
<1> HIDE DEF b
<1>7. u \in States /\ u.b = b /\ u.calls = reserved.calls /\ u.emits = reserved.emits
  BY <1>4, <1>6 DEF States
<1> HIDE DEF u
<1>8. e \in Prompts /\ e.signal = "agentRequested"
  BY <1>3 DEF Prompts
<1> HIDE DEF e
<1>9. /\ t \in States /\ t.b = b /\ t.calls = reserved.calls
      /\ Snapshots(t) = Snapshots(reserved)
  <2>1. Snapshots(u) = Snapshots(reserved)
    BY <1>7 DEF Snapshots
  <2> QED
    BY <1>7, <1>8, <2>1, EmitDoes
<1> HIDE DEF t
<1>10. Base(t, q) /\ AnswersStand(t, q) /\ Fresh(t, q, h)
  <2>1. SameLinks(reserved.b, t.b) /\ AsksNoMore(reserved, t) /\ t.b.owner # None
    BY <1>3, <1>6, <1>9 DEF AsksNoMore, SameLinks
  <2> QED
    BY <1>3, <1>9, <2>1, KeptBase DEF Sound
<1>11. Interacts(t)
  <2>1. Interacts(reserved)
    BY <1>3 DEF Sound
  <2> QED
    BY <1>3, <1>6, <1>9, <2>1 DEF Interacts, SameLinks
<1> QED
  BY <1>1, <1>3, <1>5, <1>6, <1>9, <1>10, <1>11 DEF Sound, SameLinks, t

LEMMA DeliveredKeeps ==
  ASSUME wire \in Seq(Messages), wire # <<>>, Sound(Idle, wire), Fresh(Idle, wire, heard),
         world \in Worlds, spent.agentCalls \in Nat,
         NEW m, m = Head(wire), NEW s, s = delivered(Idle, m)
  PROVE  Sound(s, Tail(wire)) /\ Fresh(s, Tail(wire), HeardAfter(m, s))
<1> DEFINE q == Tail(wire)
<1>0. /\ m \in Messages /\ q \in Seq(Messages) /\ 1 \in 1..Len(wire) /\ wire[1] = m
      /\ Base(Idle, wire) /\ AnswersStand(Idle, wire) /\ Interacts(Idle)
      /\ Idle \in States /\ backend \in Backends /\ sent \in Seq(Calls \cup Stops)
      /\ None \notin Nat
  BY RestTyped, IdleDoes, BlueZConstants DEF Sound, Base, States
<1>1. /\ \A f, o : Retired(wire, 1, f, o) => Retired(q, 0, f, o)
      /\ Announced(q) /\ (Changes(wire) => m.kind = "owner" \/ Changes(q))
      /\ Answered(q) \subseteq Answered(wire)
  BY <1>0, RestDoes DEF Base
<1>2. ASSUME backend.owner = None \/ ~Disturbs(m, backend.owner),
             backend.owner = None \/ m.kind # "owner"
      PROVE  Sound(Idle, q) /\ Fresh(Idle, q, heard)
  <2>1. \/ backend.owner = None
        \/ m.kind # "owner" /\ \A o \in Objects : ~Retires(m, backend.owner, o)
    BY <1>2 DEF Retires, Disturbs
  <2>2. Base(Idle, q) /\ AnswersStand(Idle, q) /\ Fresh(Idle, q, heard)
    BY <1>0, <1>2, <2>1, HeadTaken, IdleDoes
  <2> QED
    BY <1>0, <2>2 DEF Sound
<1>3. \A k \in 1..Len(wire) : 1 < k /\ wire[k].kind = "owner" => Changes(q)
  <2>1. \A k \in 1..Len(wire) : k = 1 \/ \E i \in 1..Len(q) : q[i] = wire[k]
    BY RestTyped
  <2> QED
    BY <2>1 DEF Changes
<1>4. TellsOwner(m) => m.owner = instance \/ Changes(q)
  BY <1>0, <1>3 DEF Base, Announced
<1> HIDE DEF q
<1>a. CASE m.kind = "reply"
  <2>1. s = replied(Idle, m) /\ m \in Replies /\ m.error \in {"none", "Upstream"}
        /\ (m.error # "none" => m.owner = None)
    BY <1>0, <1>a, MessageKinds, ReplyTyped DEF delivered
  <2>2. Done(Idle, q, heard)
    BY <1>2, <1>a, IdleDoes DEF Disturbs, Done
  <2>3. m.watcher.kind = "owner" => m.owner = instance \/ m.owner = None \/ Changes(q)
    BY <1>4, <1>a, <2>1 DEF TellsOwner
  <2>4. ASSUME Publishable(backend, m)
        PROVE  Agrees(Idle, q, m.world, 0) /\ m.world.version >= heard
    <3>1. Calm(wire, 1, backend.owner)
      BY DEF Calm
    <3>2. Agrees(Idle, wire, m.world, 1)
      BY <1>0, <2>4, <3>1, IdleDoes DEF AnswersStand
    <3> QED
      BY <1>0, <1>1, <2>4, <3>2, IdleDoes DEF Agrees, Fresh
  <2>5. Kept(s, q, heard)
    BY <1>0, <2>1, <2>2, <2>3, <2>4, RepliedKeeps DEF q
  <2>6. (IF s.b.generation # backend.generation THEN 0 ELSE heard) = HeardAfter(m, s)
    BY <1>a DEF HeardAfter
  <2> QED
    BY <2>5, <2>6 DEF Kept, q
<1>b. CASE m.kind = "owner"
  <2>1. CASE backend.started
    <3>1. s = setOwner(Idle, m.owner) /\ m.owner \in Owners
      BY <1>0, <1>b, <2>1, IdleDoes, MessageKinds DEF delivered, OwnerSignals
    <3>2. m.owner = instance \/ Changes(q)
      BY <1>4, <1>b DEF TellsOwner
    <3>3. Asks(Idle, q) /\ Minted(Idle) /\ OneObject(Idle)
      <4>1. Under(Idle, q) \subseteq Under(Idle, wire)
        BY <1>1 DEF Under
      <4>2. Refreshes(Idle.b, Under(Idle, q)) \subseteq Refreshes(Idle.b, Under(Idle, wire))
        BY <4>1 DEF Refreshes
      <4> QED
        BY <1>0, <4>1, <4>2 DEF Base, Asks
    <3>4. Kept(s, q, heard)
      BY <1>0, <1>1, <2>1, <3>1, <3>2, <3>3, OwnerKept, IdleDoes
    <3>5. (IF s.b.generation # backend.generation THEN 0 ELSE heard) = HeardAfter(m, s)
      BY <1>b DEF HeardAfter
    <3> QED
      BY <3>4, <3>5 DEF Kept, q
  <2>2. CASE ~backend.started
    <3>1. s = Idle /\ backend.owner = None
      BY <1>0, <1>b, <2>2, IdleDoes DEF delivered, Base, Connection
    <3>2. HeardAfter(m, s) = heard
      BY <1>b, <3>1, IdleDoes DEF HeardAfter
    <3> QED
      BY <1>2, <3>1, <3>2 DEF q
  <2> QED
    BY <2>1, <2>2
<1>c. CASE m.kind \in {"changed", "removed", "agent"} /\ (~backend.started \/ m.from # backend.owner)
  <2>1. s = Idle
    BY <1>c, IdleDoes DEF delivered
  <2>2. ~backend.started => backend.owner = None
    BY <1>0, IdleDoes DEF Base, Connection
  <2>3. m.from \in Nat
    BY <1>0, <1>c, MessageKinds DEF ChangeSignals, RemovalSignals, AgentCalls
  <2>4. m.from # backend.owner
    BY <1>0, <1>c, <2>2, <2>3
  <2>5. HeardAfter(m, s) = heard
    BY <2>1, <2>4, IdleDoes DEF HeardAfter
  <2> QED
    BY <1>2, <1>c, <2>1, <2>4, <2>5 DEF Disturbs, q
<1>d. CASE m.kind = "changed" /\ backend.started /\ m.from = backend.owner
  <2>1. s = changed(Idle)
    BY <1>d, IdleDoes DEF delivered
  <2>2. Base(Idle, q)
    BY <1>0, <1>d, HeadTaken, IdleDoes DEF Retires, q
  <2>3. ShowsOnce(Idle)
    BY DEF ShowsOnce, Fresh
  <2> QED
    BY <1>0, <2>1, <2>2, <2>3, ChangedSound DEF q
<1>e. CASE m.kind = "removed" /\ backend.started /\ m.from = backend.owner
  <2>1. s = interfacesRemoved(Idle, m.object)
    BY <1>e, IdleDoes DEF delivered
  <2>2. m.from \in Nat
    BY <1>0, <1>e, MessageKinds DEF RemovalSignals
  <2>3. backend.owner # None
    BY <1>0, <1>e, <2>2
  <2> QED
    BY <1>e, <2>1, <2>3, RemovedKeeps DEF q
<1>f. CASE m.kind = "agent" /\ backend.started /\ m.from = backend.owner
  <2>1. s = agentRequest(Idle, m.object)
    BY <1>f, IdleDoes DEF delivered
  <2>2. m.from \in Nat /\ m.object \in Objects
    BY <1>0, <1>f, MessageKinds DEF AgentCalls
  <2>3. backend.owner # None
    BY <1>0, <1>f, <2>2
  <2>4. Retired(q, 0, backend.owner, m.object) \/ (instance # None /\ m.object \in world.present)
    <3>1. \/ Retired(wire, 1, m.from, m.object)
          \/ instance = m.from /\ m.object \in world.present
      BY <1>0, <1>f DEF Base, Announced
    <3> QED
      BY <1>1, <1>f, <2>3, <3>1
  <2>5. Sound(Idle, q) /\ Fresh(Idle, q, heard)
    BY <1>2, <1>f DEF Disturbs
  <2>6. /\ Sound(s, q) /\ Fresh(s, q, heard) /\ s.b.generation = backend.generation
    BY <1>0, <2>1, <2>2, <2>3, <2>4, <2>5, RequestKeeps DEF q
  <2>7. HeardAfter(m, s) = heard
    BY <1>f, <2>6 DEF HeardAfter
  <2> QED
    BY <2>6, <2>7 DEF q
<1> QED
  BY <1>0, <1>a, <1>b, <1>c, <1>d, <1>e, <1>f, MessageKinds

-----------------------------------------------------------------------------
(* What the handlers make of the variables. *)

LEMMA BecomesDoes ==
  ASSUME NEW s, Becomes(s), \A e, f \in Snapshots(s) : e = f
  PROVE  backend' = s.b /\ named' = NamedBy(s) /\ shown' = ShownBy(s)
<1>1. CASE Snapshots(s) = {}
  BY <1>1 DEF Becomes, NamedBy, ShownBy
<1>2. CASE Snapshots(s) # {}
  <2>1. PICK e \in Snapshots(s) : shown' = e.world /\ named' = named \cup Names(e)
    BY <1>2 DEF Becomes
  <2>2. Snapshots(s) = {e} /\ (CHOOSE f \in Snapshots(s) : TRUE) = e
    BY <2>1
  <2>3. NamedBy(s) = named \cup Names(e) /\ ShownBy(s) = e.world
    BY <2>2 DEF NamedBy, ShownBy
  <2> QED
    BY <2>1, <2>3 DEF Becomes
<1> QED
  BY <1>1, <1>2

LEMMA StateKeeps ==
  ASSUME NEW s, Sound(s, wire'), Fresh(s, wire', heard'),
         backend' = s.b, named' = NamedBy(s), shown' = ShownBy(s), sent' = sent \o s.calls,
         UNCHANGED <<world, instance>>
  PROVE  (Sound(Idle, wire) /\ Fresh(Idle, wire, heard))'
<1>0. /\ Base(s, wire') /\ AnswersStand(s, wire') /\ Interacts(s)
      /\ s \in States /\ sent \in Seq(Calls \cup Stops) /\ s.calls \in Seq(Calls \cup Stops)
  BY DEF Sound, Base, States
<1>1. /\ (Idle.b)' = s.b /\ (Idle.calls)' = <<>> /\ (Idle.emits)' = <<>> /\ Snapshots(Idle)' = {}
      /\ NamedBy(Idle)' = NamedBy(s) /\ ShownBy(Idle)' = ShownBy(s)
  BY DEF Idle, Snapshots, NamedBy, ShownBy, ToSet
<1>2. Idle' \in States /\ sent' \in Seq(Calls \cup Stops)
  <2>1. s.b \in Backends /\ <<>> \in Seq(Calls \cup Stops)
        /\ <<>> \in Seq(Finishes \cup Prompts \cup Pictures)
    BY <1>0 DEF States
  <2> QED
    BY <1>0, <2>1 DEF Idle, States
<1>3. Under(Idle, wire)' = Under(s, wire')
  <2>1. ToSet(sent') = ToSet(sent) \cup ToSet(s.calls)
    BY <1>0, SetOfJoined
  <2>2. ToSet(<<>>) = {}
    BY DEF ToSet
  <2> QED
    BY <1>1, <2>1, <2>2 DEF Under, Answered
<1>4. Asks(Idle, wire)'
  BY <1>0, <1>1, <1>3 DEF Base, Asks, Refreshes
<1>5. Connection(Idle, wire)' /\ Announced(wire)'
  BY <1>0, <1>1 DEF Base, Connection, Announced, Changes, Retired, Retires, TellsOwner
<1>6. Minted(Idle)' /\ OneObject(Idle)'
  BY <1>0, <1>1 DEF Base, Minted, OneObject
<1>7. IdsStand(Idle, wire)'
  BY <1>0, <1>1 DEF Base, IdsStand, For, Managed, Retired, Retires
<1>8. AnswersStand(Idle, wire)'
  <2>1. \A m : Publishable(Idle.b, m)' <=> Publishable(s.b, m)
    BY <1>1 DEF Publishable, Refreshes
  <2>2. \A shot : \A k \in 1..Len(wire') : Agrees(Idle, wire, shot, k)' <=> Agrees(s, wire', shot, k)
    BY <1>1 DEF Agrees, For, Managed, Retired, Retires
  <2> QED
    BY <1>0, <1>1, <2>1, <2>2 DEF AnswersStand, Calm, Disturbs
<1>9. Interacts(Idle)'
  BY <1>0, <1>1 DEF Interacts, Live
<1>10. Fresh(Idle, wire, heard)'
  BY <1>1 DEF Fresh, Publishable, Refreshes
<1> QED
  BY <1>2, <1>4, <1>5, <1>6, <1>7, <1>8, <1>9, <1>10 DEF Sound, Base

LEMMA RunKeeps ==
  ASSUME NEW s, Sound(s, wire'), Fresh(s, wire', heard'), Run(s), UNCHANGED <<world, instance>>
  PROVE  Session'
<1>1. backend' = s.b /\ named' = NamedBy(s) /\ shown' = ShownBy(s) /\ sent' = sent \o s.calls
  BY BecomesDoes DEF Run, Fresh
<1>2. emitted' = s.emits /\ s.emits \in Seq(Emissions)
  BY DEF Run, Becomes, Sound, Base, States, Emissions
<1> QED
  BY <1>1, <1>2, StateKeeps DEF Session

-----------------------------------------------------------------------------
(* The actions of the backend. *)

LEMMA StartKeeps ==
  ASSUME IInv, Start
  PROVE  Session'
<1> DEFINE b == [backend EXCEPT !.started = TRUE]
           t == [Idle EXCEPT !.b = b]
           w == [kind |-> "owner", to |-> None, generation |-> backend.generation]
<1>0. /\ Done(Idle, wire, heard) /\ wire \in Seq(Messages) /\ Idle \in States
      /\ backend \in Backends
  BY IdleDoes DEF IInv, Session, Types, Done, Sound, Base, States
<1>1. start(Idle) = Watched(t, w)
  BY <1>0, IdleDoes DEF start, States
<1>2. /\ b \in Backends /\ SameLinks(backend, b) /\ b.watchers = backend.watchers
      /\ b.interactions = backend.interactions
  BY <1>0 DEF Backends, SameLinks
<1>3. w \in Calls /\ w.kind # "refresh"
  BY <1>0 DEF Calls, Queries, Owners, Backends
<1> HIDE DEF b, w
<1>4. Done(t, wire, heard)
  BY <1>0, <1>2, FieldsKeep, IdleDoes
<1> HIDE DEF t
<1>5. Done(Watched(t, w), wire, heard)
  BY <1>0, <1>3, <1>4, CallKeeps
<1>6. Run(Watched(t, w)) /\ UNCHANGED <<wire, heard, world, instance>>
  BY <1>1 DEF Start
<1> QED
  BY <1>5, <1>6, RunKeeps DEF Done

LEMMA StopKeeps ==
  ASSUME IInv, Stop
  PROVE  Session'
<1> DEFINE b == [backend EXCEPT !.started = FALSE]
           u == [Idle EXCEPT !.b = b]
           calls == StopCalls(backend.owner, backend.owned \cup backend.starting)
           t == Told(u, calls)
<1>0. /\ Base(Idle, wire) /\ wire \in Seq(Messages) /\ Idle \in States
      /\ sent \in Seq(Calls \cup Stops) /\ backend \in Backends
  BY IdleDoes DEF IInv, Session, Types, Sound, Base, States
<1>1. stop(Idle) = setOwner(t, None)
  BY <1>0, IdleDoes DEF stop, States
<1>2. /\ b \in Backends /\ b.owner = backend.owner /\ b.generation = backend.generation
      /\ b.revision = backend.revision /\ b.refreshing = backend.refreshing
      /\ b.ids = backend.ids /\ b.minted = backend.minted /\ b.watchers = backend.watchers
  BY <1>0 DEF Backends
<1>3. /\ calls \in Seq(Calls \cup Stops)
      /\ \A w \in ToSet(calls) : w.kind = "stop"
  <2>1. backend.owner \in Owners /\ backend.owned \cup backend.starting \in SUBSET Objects
    BY <1>0 DEF Backends
  <2> QED
    BY <2>1, StopCallsTyped
<1> HIDE DEF b, calls
<1>4. u \in States /\ u.b = b /\ u.calls = <<>> /\ u.emits = <<>>
  BY <1>0, <1>2, IdleDoes DEF States
<1> HIDE DEF u
<1>5. t \in States /\ t.b = b /\ t.calls = u.calls \o calls /\ t.emits = <<>>
  BY <1>3, <1>4, ToldDoes
<1>6. ToSet(t.calls) = ToSet(calls)
  <2>1. ToSet(t.calls) = ToSet(u.calls) \cup ToSet(calls) /\ ToSet(<<>>) = {}
    BY <1>3, <1>4, <1>5, SetOfJoined DEF States, ToSet
  <2> QED
    BY <1>4, <2>1
<1> HIDE DEF t
<1>7. AsksNoMore(Idle, t)
  BY <1>2, <1>3, <1>5, <1>6, IdleDoes DEF AsksNoMore
<1>8. Asks(t, wire)
  <2>1. Asks(Idle, wire)
    BY <1>0 DEF Base
  <2>2. /\ t.b.generation = Idle.b.generation /\ t.b.revision = Idle.b.revision
        /\ t.b.owner = Idle.b.owner /\ t.b.refreshing = Idle.b.refreshing
    BY <1>2, <1>5, IdleDoes
  <2> QED
    BY <1>7, <2>1, <2>2, AsksKept
<1>9. Snapshots(t) = {} /\ NamedBy(t) = named
  BY <1>5 DEF Snapshots, NamedBy, ToSet
<1>10. Minted(t) /\ OneObject(t) /\ Announced(wire)
  <2>1. Minted(Idle) /\ OneObject(Idle) /\ Announced(wire)
    BY <1>0 DEF Base
  <2>2. /\ t.b.ids = backend.ids /\ t.b.minted = backend.minted
        /\ NamedBy(t) = named /\ NamedBy(Idle) = named /\ Idle.b = backend
    BY <1>2, <1>5, <1>9, IdleDoes
  <2> QED
    BY <2>1, <2>2 DEF Minted, OneObject
<1>11. None \in Owners
  BY DEF Owners
<1>12. Sound(setOwner(t, None), wire) /\ Fresh(setOwner(t, None), wire, 0)
  <2>1. /\ t \in States /\ wire \in Seq(Messages) /\ sent \in Seq(Calls \cup Stops)
        /\ Asks(t, wire) /\ Announced(wire) /\ Minted(t) /\ OneObject(t) /\ Snapshots(t) = {}
    BY <1>0, <1>5, <1>8, <1>9, <1>10
  <2> QED
    BY <1>11, <2>1, OwnerSound
<1>13. Run(setOwner(t, None)) /\ heard' = 0 /\ UNCHANGED <<wire, world, instance>>
  BY <1>1 DEF Stop
<1> QED
  BY <1>12, <1>13, RunKeeps

(* Fields of the backend that nothing depends on. *)
LEMMA QuietlyKeeps ==
  ASSUME IInv, backend' \in Backends, SameLinks(backend, backend'),
         backend'.watchers = backend.watchers, backend'.interactions \subseteq backend.interactions,
         emitted' \in Seq(Emissions),
         UNCHANGED <<wire, sent, world, instance, heard, named, shown>>
  PROVE  Session'
<1> DEFINE t == [Idle EXCEPT !.b = backend']
<1>0. Done(Idle, wire, heard) /\ wire \in Seq(Messages) /\ sent \in Seq(Calls \cup Stops)
  BY IdleDoes DEF IInv, Session, Types, Done, Sound, Base
<1>1. Done(t, wire, heard) /\ t.b = backend' /\ t.calls = <<>> /\ t.emits = <<>>
  BY <1>0, FieldsKeep, IdleDoes
<1> HIDE DEF t
<1>2. NamedBy(t) = named /\ ShownBy(t) = shown /\ sent \o t.calls = sent
  BY <1>0, <1>1 DEF NamedBy, ShownBy, Snapshots, ToSet
<1> QED
  BY <1>1, <1>2, StateKeeps DEF Done, Session

LEMMA EmitDeferredKeeps ==
  ASSUME IInv, EmitDeferred
  PROVE  Session'
<1>1. backend \in Backends /\ backend.deferred \in Seq(Finishes) /\ backend.deferred # <<>>
  BY IdleDoes DEF IInv, Session, Sound, Base, States, Backends, EmitDeferred
<1>2. Tail(backend.deferred) \in Seq(Finishes) /\ Head(backend.deferred) \in Finishes
  BY <1>1
<1>4. emitted' \in Seq(Emissions)
  BY <1>2 DEF EmitDeferred, Emissions
<1>3. /\ backend' \in Backends /\ SameLinks(backend, backend')
      /\ backend'.watchers = backend.watchers /\ backend'.interactions = backend.interactions
  <2> DEFINE deferred == Tail(backend.deferred)
  <2>1. backend' = [backend EXCEPT !.deferred = deferred]
    BY DEF EmitDeferred
  <2> HIDE DEF deferred
  <2> QED
    BY <1>1, <1>2, <2>1 DEF Backends, SameLinks, deferred
<1> QED
  BY <1>3, <1>4, QuietlyKeeps DEF EmitDeferred, busVars, historyVars

LEMMA RespondKeeps ==
  ASSUME IInv, NEW i, Respond(i)
  PROVE  Session'
<1>1. backend \in Backends
  BY IdleDoes DEF IInv, Session, Sound, Base, States
<1>2. /\ backend' \in Backends /\ SameLinks(backend, backend')
      /\ backend'.watchers = backend.watchers /\ backend'.interactions \subseteq backend.interactions
  BY <1>1 DEF Respond, Backends, SameLinks
<1>3. emitted' \in Seq(Emissions)
  BY DEF Respond
<1> QED
  BY <1>2, <1>3, QuietlyKeeps DEF Respond, busVars, historyVars

LEMMA DeliverKeeps ==
  ASSUME IInv, Deliver
  PROVE  /\ Session'
         /\ wire' \in Seq(Messages)
<1> DEFINE s == delivered(Idle, Head(wire))
<1>1. /\ wire \in Seq(Messages) /\ wire # <<>> /\ Sound(Idle, wire) /\ Fresh(Idle, wire, heard)
      /\ world \in Worlds /\ spent.agentCalls \in Nat
  BY DEF IInv, Session, Types, Deliver
<1>2. /\ wire' = Tail(wire) /\ Run(s) /\ heard' = HeardAfter(Head(wire), s)
      /\ UNCHANGED <<world, instance>>
  BY DEF Deliver
<1>3. Sound(s, wire') /\ Fresh(s, wire', heard')
  BY <1>1, <1>2, DeliveredKeeps
<1> HIDE DEF s
<1> QED
  BY <1>1, <1>2, <1>3, RunKeeps

LEMMA LocalErrorKeeps ==
  ASSUME IInv, NEW w \in backend.watchers, LocalError(w)
  PROVE  Session'
<1> DEFINE m == Failure(w)
           s == delivered(Idle, m)
<1>0. /\ Done(Idle, wire, heard) /\ wire \in Seq(Messages) /\ w \in Calls
  BY IdleDoes DEF IInv, Session, Types, Done, Sound, Base, States, Backends
<1>1. m \in Replies /\ m.kind = "reply" /\ m.error = "Upstream" /\ m.owner = None /\ m.watcher = w
  BY <1>0 DEF Failure, Replies, Failures
<1>2. Run(s) /\ heard' = HeardAfter(m, s) /\ UNCHANGED <<wire, world, instance>>
  BY DEF LocalError
<1>3. s = replied(Idle, m)
  BY <1>1 DEF delivered
<1> HIDE DEF m, s
<1>4. ~Publishable(backend, m)
  BY <1>1 DEF Publishable
<1>5. Kept(s, wire, heard)
  BY <1>0, <1>1, <1>3, <1>4, RepliedKeeps
<1>6. (IF s.b.generation # backend.generation THEN 0 ELSE heard) = HeardAfter(m, s)
  BY <1>1 DEF HeardAfter
<1>7. Sound(s, wire') /\ Fresh(s, wire', heard')
  BY <1>2, <1>5, <1>6 DEF Kept
<1> QED
  BY <1>2, <1>7, RunKeeps

LEMMA BackendStepKeeps ==
  ASSUME IInv, BackendStep, UNCHANGED controllerVars
  PROVE  IInv'
<1>0. Types /\ Versions /\ UNCHANGED <<request, pending>>
  BY DEF IInv, Session, controllerVars
<1>1. /\ Session' /\ wire' \in Seq(Messages)
      /\ wire' = wire \/ Deliver
  <2>1. CASE Start
    BY <1>0, <2>1, StartKeeps DEF Start, Types
  <2>2. CASE Stop
    BY <1>0, <2>2, StopKeeps DEF Stop, Types
  <2>3. CASE Deliver
    BY <2>3, DeliverKeeps
  <2>4. CASE EmitDeferred
    BY <1>0, <2>4, EmitDeferredKeeps DEF EmitDeferred, busVars, Types
  <2>5. ASSUME NEW i \in backend.interactions, Respond(i)
        PROVE  Session' /\ wire' \in Seq(Messages) /\ wire' = wire
    BY <1>0, <2>5, RespondKeeps DEF Respond, busVars, Types
  <2>6. ASSUME NEW w \in backend.watchers, LocalError(w)
        PROVE  Session' /\ wire' \in Seq(Messages) /\ wire' = wire
    BY <1>0, <2>6, LocalErrorKeeps DEF LocalError, Types
  <2> QED
    BY <2>1, <2>2, <2>3, <2>4, <2>5, <2>6 DEF BackendStep
<1>2. UNCHANGED <<held, instance, world>> /\ (spent' = spent \/ Stop \/ \E w \in backend.watchers : LocalError(w))
  BY DEF BackendStep, Start, Stop, Deliver, EmitDeferred, Respond, LocalError, busVars
<1>3. spent' \in [stopped : BOOLEAN, launches : Nat, changes : Nat, errors : Nat, agentCalls : Nat]
  <2>1. spent \in [stopped : BOOLEAN, launches : Nat, changes : Nat, errors : Nat, agentCalls : Nat]
    BY <1>0 DEF Types
  <2>2. CASE Stop
    BY <2>1, <2>2 DEF Stop
  <2>3. ASSUME NEW w \in backend.watchers, LocalError(w)
        PROVE  spent' \in [stopped : BOOLEAN, launches : Nat, changes : Nat, errors : Nat, agentCalls : Nat]
    <3>1. spent.errors + 1 \in Nat /\ spent' = [spent EXCEPT !.errors = spent.errors + 1]
      BY <2>1, <2>3 DEF LocalError
    <3> QED
      BY <2>1, <3>1
  <2> QED
    BY <1>2, <2>1, <2>2, <2>3
<1>4. Types'
  BY <1>0, <1>1, <1>2, <1>3 DEF Types
<1>5. heard' = heard \/ heard' = 0 \/ Deliver
  BY DEF BackendStep, Start, Stop, EmitDeferred, Respond, LocalError, HeardAfter, Failure, historyVars
<1>6. Versions'
  <2>1. heard \in Nat /\ heard <= world.version /\ world.version \in Nat /\ world' = world
    BY <1>0, <1>2 DEF Versions, Types, Worlds
  <2>2. CASE Deliver
    <3>1. wire # <<>> /\ wire' = Tail(wire) /\ wire \in Seq(Messages)
      BY <1>0, <2>2 DEF Deliver, Types
    <3>2. /\ 1 \in 1..Len(wire) /\ wire[1] = Head(wire) /\ Head(wire) \in Messages
          /\ \A k \in 1..Len(wire') : k + 1 \in 1..Len(wire) /\ wire'[k] = wire[k + 1]
      BY <3>1, RestTyped
    <3>3. \A k \in 1..Len(wire') : wire'[k].kind \in {"changed", "removed"} => wire'[k].version <= world'.version
      BY <1>0, <2>1, <3>2 DEF Versions
    <3>4. Head(wire).kind \in {"changed", "removed"} =>
            Head(wire).version \in Nat /\ Head(wire).version <= world.version
      BY <1>0, <3>2, MessageKinds DEF Versions, ChangeSignals, RemovalSignals
    <3>5. heard' \in {0, heard} \/ (Head(wire).kind \in {"changed", "removed"} /\ heard' = Head(wire).version)
      BY <2>2 DEF Deliver, HeardAfter
    <3>6. heard' \in Nat /\ heard' <= world'.version
      BY <2>1, <3>4, <3>5
    <3> QED
      BY <3>3, <3>6 DEF Versions
  <2>3. CASE ~Deliver
    <3>1. heard' \in Nat /\ heard' <= world'.version /\ wire' = wire
      BY <1>1, <1>5, <2>1, <2>3
    <3> QED
      BY <1>0, <2>1, <3>1 DEF Versions
  <2> QED
    BY <2>2, <2>3
<1> QED
  BY <1>1, <1>4, <1>6 DEF IInv, Session

-----------------------------------------------------------------------------
(* The actions of the controller. *)

LEMMA NothingKeeps ==
  ASSUME IInv, UNCHANGED backendVars, emitted' \in Seq(Emissions), Types'
  PROVE  IInv'
<1>1. backend \in Backends
  BY IdleDoes DEF IInv, Session, Sound, Base, States
<1>2. Session'
  BY <1>1, QuietlyKeeps DEF backendVars, busVars, historyVars, SameLinks
<1>3. Versions'
  BY DEF IInv, Session, Versions, backendVars, busVars, historyVars
<1> QED
  BY <1>2, <1>3 DEF IInv, Session

LEMMA ReceivedKeeps ==
  ASSUME IInv, Received
  PROVE  IInv'
<1>0. emitted \in Seq(Emissions) /\ emitted # <<>> /\ emitted' = Tail(emitted)
  BY DEF IInv, Session, Received
<1>1. UNCHANGED backendVars /\ UNCHANGED request /\ pending' \subseteq pending
  <2>1. Head(emitted) \in Emissions
    BY <1>0
  <2>2. Head(emitted).signal \in {"snapshotChanged", "operationFinished", "agentRequested"}
    BY <2>1 DEF Emissions, Finishes, Prompts, Pictures
  <2>3. CASE Head(emitted).signal = "snapshotChanged"
    BY <2>3 DEF Received, Snapshot, Finish
  <2>4. CASE Head(emitted).signal = "operationFinished"
    BY <2>4 DEF Received, Finish
  <2>5. CASE Head(emitted).signal = "agentRequested"
    BY <2>5 DEF Received, controllerVars
  <2> QED
    BY <2>2, <2>3, <2>4, <2>5
<1>3. emitted' \in Seq(Emissions)
  BY <1>0
<1>2. Types'
  BY <1>1 DEF IInv, Session, Types, backendVars, busVars
<1> QED
  BY <1>1, <1>2, <1>3, NothingKeeps

LEMMA AskedKeeps ==
  ASSUME IInv, Asked
  PROVE  IInv'
<1>1. PICK r \in RequestIds, operation \in Operations, o \in Objects :
        Begin(r, operation, <<o, backend.minted[o]>>)
  BY DEF Asked
<1>2. <<o, backend.minted[o]>> \in Objects \X Nat
  BY IdleDoes DEF IInv, Session, Sound, Base, States, Backends
<1> DEFINE target == <<o, backend.minted[o]>>
           error == IF ~available \/ target \notin listed THEN "Unavailable"
                    ELSE IF busy(target) /\ operation # "CancelPairing" THEN "Busy" ELSE "none"
           asked == [operation |-> operation, target |-> target, error |-> error]
<1>3. /\ request' = [request EXCEPT ![r] = asked] /\ pending' = pending \cup {r}
      /\ UNCHANGED backendVars /\ UNCHANGED emitted
  BY <1>1 DEF Begin
<1> HIDE DEF target
<1>4. error \in {"none", "Unavailable", "Busy"}
  OBVIOUS
<1> HIDE DEF error
<1>5. /\ asked \in [operation : Operations \cup {"none"}, target : (Objects \X Nat) \cup {None},
                    error : {"none", "Unavailable", "Busy"}]
      /\ asked.operation \in Operations /\ asked.target \in Objects \X Nat
  BY <1>2, <1>4 DEF target
<1> HIDE DEF asked
<1>6. /\ request' \in [RequestIds -> [operation : Operations \cup {"none"},
                                      target : (Objects \X Nat) \cup {None},
                                      error : {"none", "Unavailable", "Busy"}]]
      /\ \A x \in pending' : request'[x].operation \in Operations /\ request'[x].target \in Objects \X Nat
      /\ pending' \subseteq RequestIds
  BY <1>3, <1>5 DEF IInv, Session, Types
<1>7. Types'
  BY <1>3, <1>6 DEF IInv, Session, Types, backendVars, busVars
<1> QED
  BY <1>3, <1>7, NothingKeeps DEF IInv, Session

LEMMA TimerKeeps ==
  ASSUME IInv, NEW r \in timers, Timer(r)
  PROVE  IInv'
<1>1. CASE UNCHANGED <<backendVars, emitted>>
  <2>1. UNCHANGED request /\ pending' \subseteq pending /\ emitted' \in Seq(Emissions)
    BY <1>1 DEF Timer, Finish, IInv, Session
  <2>2. Types'
    BY <1>1, <2>1 DEF IInv, Session, Types, backendVars, busVars
  <2> QED
    BY <1>1, <2>1, <2>2, NothingKeeps
<1>2. CASE ~UNCHANGED <<backendVars, emitted>>
  <2> DEFINE c == [request |-> r, operation |-> request[r].operation, target |-> request[r].target]
  <2>1. /\ r \in pending /\ Run(execute(Idle, c))
        /\ UNCHANGED <<request, pending, wire, held, instance, world, spent, heard>>
    BY <1>2 DEF Timer
  <2>2. c \in Requests
    BY <2>1 DEF IInv, Session, Types, Requests
  <2>3. Done(Idle, wire, heard) /\ wire \in Seq(Messages)
    BY IdleDoes DEF IInv, Session, Types, Done
  <2> HIDE DEF c
  <2>4. Done(execute(Idle, c), wire, heard)
    BY <2>2, <2>3, ExecuteKeeps
  <2>5. Session'
    BY <2>1, <2>4, RunKeeps DEF Done
  <2>6. Types'
    BY <2>1 DEF IInv, Session, Types
  <2>7. Versions'
    BY <2>1 DEF IInv, Session, Versions
  <2> QED
    BY <2>5, <2>6, <2>7 DEF IInv, Session
<1> QED
  BY <1>1, <1>2

-----------------------------------------------------------------------------
(* The bus and the daemon: messages are added to the queue. *)

LEMMA JoinedDoes ==
  ASSUME NEW q \in Seq(Messages), NEW ms \in Seq(Messages)
  PROVE  /\ q \o ms \in Seq(Messages) /\ Len(q) \in Nat /\ Len(ms) \in Nat
         /\ \A k \in 1..Len(q) : k \in 1..Len(q \o ms) /\ (q \o ms)[k] = q[k]
         /\ \A i \in 1..Len(ms) : Len(q) + i \in 1..Len(q \o ms) /\ (q \o ms)[Len(q) + i] = ms[i]
         /\ \A k \in 1..Len(q \o ms) : k \in 1..Len(q) \/ \E i \in 1..Len(ms) : k = Len(q) + i
<1>1. /\ q \o ms \in Seq(Messages) /\ Len(q) \in Nat /\ Len(ms) \in Nat
      /\ Len(q \o ms) = Len(q) + Len(ms)
      /\ \A k \in 1..Len(q) : (q \o ms)[k] = q[k]
      /\ \A i \in 1..Len(ms) : (q \o ms)[Len(q) + i] = ms[i]
  OBVIOUS
<1> DEFINE j == q \o ms
<1> HIDE DEF j
<1>2. \A k \in 1..(Len(q) + Len(ms)) : k \in 1..Len(q) \/ (k - Len(q) \in 1..Len(ms) /\ k = Len(q) + (k - Len(q)))
  BY <1>1
<1>3. \A k \in 1..Len(j) : k \in 1..Len(q) \/ \E i \in 1..Len(ms) : k = Len(q) + i
  BY <1>1, <1>2 DEF j
<1>4. \A k \in 1..Len(q) : k \in 1..Len(j)
  BY <1>1 DEF j
<1>5. \A i \in 1..Len(ms) : Len(q) + i \in 1..Len(j)
  BY <1>1 DEF j
<1> QED
  BY <1>1, <1>3, <1>4, <1>5 DEF j

(* What a message may say that a step of the environment adds. *)
Heralds(m) ==
  /\ TellsOwner(m) => m.owner = instance'
  /\ m.kind = "agent" => instance' = m.from /\ m.object \in world'.present
  /\ m.kind \in {"changed", "removed"} => m.version <= world'.version
  /\ m.kind = "reply" /\ m.watcher.kind = "refresh" =>
       /\ m.watcher \in ToSet(sent) /\ m.watcher.to = instance
       /\ m.error = "none" => m.world = world /\ UNCHANGED <<world, instance>>

SpentType == [stopped : BOOLEAN, launches : Nat, changes : Nat, errors : Nat, agentCalls : Nat]

LEMMA EnvironmentKeeps ==
  ASSUME IInv, Environment, UNCHANGED controllerVars,
         NEW ms \in Seq(Messages), wire' = wire \o ms, \A i \in 1..Len(ms) : Heralds(ms[i]),
         sent' \in Seq(Calls \cup Stops),
         \A w \in ToSet(sent') : w.kind = "refresh" => w \in ToSet(sent),
         held' \subseteq Orders, IsFiniteSet(held'), instance' \in Owners, world' \in Worlds,
         spent' \in SpentType, world.version <= world'.version,
         instance' = instance \/ \E i \in 1..Len(ms) : ms[i].kind = "owner",
         \A o \in Objects : \A n \in Nat :
           Managed(o, n) => Managed(o, n)' \/ \E i \in 1..Len(ms) : Retires(ms[i], instance, o)
  PROVE  IInv'
<1>0. /\ wire \in Seq(Messages) /\ Base(Idle, wire) /\ AnswersStand(Idle, wire) /\ Interacts(Idle)
      /\ Fresh(Idle, wire, heard) /\ Versions /\ Types /\ Idle \in States /\ backend \in Backends
      /\ sent \in Seq(Calls \cup Stops) /\ world \in Worlds
      /\ backend' = backend /\ UNCHANGED historyVars /\ emitted' = <<>>
  BY IdleDoes DEF IInv, Session, Types, Sound, Base, States, Environment
<1>1. /\ (Idle.b)' = backend /\ Snapshots(Idle)' = {} /\ Idle' = Idle
      /\ NamedBy(Idle)' = named /\ ShownBy(Idle)' = shown
  BY <1>0 DEF Idle, Snapshots, NamedBy, ShownBy, ToSet, historyVars
<1>2. /\ wire' \in Seq(Messages) /\ Len(wire) \in Nat
      /\ \A k \in 1..Len(wire) : k \in 1..Len(wire') /\ wire'[k] = wire[k]
      /\ \A i \in 1..Len(ms) : Len(wire) + i \in 1..Len(wire') /\ wire'[Len(wire) + i] = ms[i]
      /\ \A k \in 1..Len(wire') : k \in 1..Len(wire) \/ \E i \in 1..Len(ms) : k = Len(wire) + i
  BY <1>0, JoinedDoes
<1>3. \A w \in Under(Idle, wire)' : w.kind = "refresh" => w \in Under(Idle, wire)
  <2>1. ASSUME NEW w \in Answered(wire'), w.kind = "refresh"
        PROVE  w \in Answered(wire) \cup ToSet(sent)
    <3>1. PICK k \in 1..Len(wire') : wire'[k].kind = "reply" /\ w = wire'[k].watcher
      BY DEF Answered
    <3>2. CASE k \in 1..Len(wire)
      BY <1>2, <3>1, <3>2 DEF Answered
    <3>3. CASE \E i \in 1..Len(ms) : k = Len(wire) + i
      BY <1>2, <2>1, <3>1, <3>3 DEF Heralds
    <3> QED
      BY <1>2, <3>2, <3>3
  <2>2. Under(Idle, wire)' = ToSet(sent') \cup ToSet(<<>>) \cup Answered(wire')
    BY DEF Under, Idle, Answered
  <2>3. Under(Idle, wire) = ToSet(sent) \cup ToSet(<<>>) \cup Answered(wire)
    BY DEF Under, Idle
  <2>4. ToSet(<<>>) = {}
    BY DEF ToSet
  <2> QED
    BY <2>1, <2>2, <2>3, <2>4
<1>4. Asks(Idle, wire)'
  <2>1. Refreshes(backend, Under(Idle, wire)') \subseteq Refreshes(backend, Under(Idle, wire))
    BY <1>3 DEF Refreshes
  <2>2. /\ \A w \in backend.watchers \cup Under(Idle, wire)' : w.kind = "refresh" =>
             w.generation <= backend.generation /\ w.revision <= backend.revision
        /\ \A w \in Refreshes(backend, backend.watchers) :
             /\ backend.refreshing /\ backend.owner # None /\ w.to = backend.owner
             /\ \A x \in Refreshes(backend, backend.watchers) : x = w
             /\ \A x \in Refreshes(backend, Under(Idle, wire)') : x.revision <= w.revision
    BY <1>0, <1>3, <2>1, IdleDoes DEF Base, Asks
  <2> QED
    BY <1>0, <1>1, <2>2 DEF Asks, Refreshes
<1>5. /\ \A f, o : \A k \in Nat : Retired(wire, k, f, o) => Retired(wire', k, f, o)
      /\ \A f, o : \A k \in 0..Len(wire) :
           (\E i \in 1..Len(ms) : Retires(ms[i], f, o)) => Retired(wire', k, f, o)
      /\ \A f : \A k \in 1..Len(wire) : Calm(wire', k, f) => Calm(wire, k, f)
      /\ Changes(wire) => Changes(wire')
      /\ (\E i \in 1..Len(ms) : ms[i].kind = "owner") => Changes(wire')
  <2>1. ASSUME NEW f, NEW o, NEW k \in 0..Len(wire), NEW i \in 1..Len(ms), Retires(ms[i], f, o)
        PROVE  Retired(wire', k, f, o)
    BY <1>2, <2>1, k < Len(wire) + i DEF Retired
  <2>2. \A f, o : \A k \in Nat : Retired(wire, k, f, o) => Retired(wire', k, f, o)
    BY <1>2 DEF Retired
  <2>3. \A f : \A k \in 1..Len(wire) : Calm(wire', k, f) => Calm(wire, k, f)
    BY <1>2 DEF Calm
  <2>4. Changes(wire) => Changes(wire')
    BY <1>2 DEF Changes
  <2>5. ASSUME NEW i \in 1..Len(ms), ms[i].kind = "owner" PROVE Changes(wire')
    <3>1. Len(wire) + i \in 1..Len(wire') /\ wire'[Len(wire) + i].kind = "owner"
      BY <1>2, <2>5
    <3> QED
      BY <3>1 DEF Changes
  <2> QED
    BY <2>1, <2>2, <2>3, <2>4, <2>5
(* What was managed is, or its end is told behind place k. *)
<1>6. ASSUME NEW o \in Objects, NEW n \in Nat, Managed(o, n), NEW f, NEW k \in 0..Len(wire),
             f = instance \/ Retired(wire, k, f, o)
      PROVE  Managed(o, n)' \/ Retired(wire', k, f, o)
  BY <1>5, <1>6
<1>7. Connection(Idle, wire)'
  BY <1>0, <1>1, <1>5, IdleDoes DEF Base, Connection
<1>8. \A o : Changes(wire) => Retired(wire, 0, backend.owner, o)
  BY DEF Changes, Retired, Retires
<1>9. Announced(wire)'
  <2> SUFFICES ASSUME NEW k \in 1..Len(wire')
               PROVE  /\ TellsOwner(wire'[k]) =>
                           \/ wire'[k].owner = instance'
                           \/ \E j \in 1..Len(wire') : k < j /\ wire'[j].kind = "owner"
                      /\ wire'[k].kind = "agent" =>
                           \/ Retired(wire', k, wire'[k].from, wire'[k].object)
                           \/ instance' = wire'[k].from /\ wire'[k].object \in world'.present
    BY DEF Announced, Retired, Retires, TellsOwner
  <2>1. CASE k \in 1..Len(wire)
    <3>1. wire'[k] = wire[k] /\ wire[k] \in Messages
      BY <1>0, <1>2, <2>1
    <3>2. TellsOwner(wire[k]) =>
            \/ wire[k].owner = instance'
            \/ \E j \in 1..Len(wire') : k < j /\ wire'[j].kind = "owner"
      <4>1. (\E i \in 1..Len(ms) : ms[i].kind = "owner") =>
              \E j \in 1..Len(wire') : k < j /\ wire'[j].kind = "owner"
        <5> SUFFICES ASSUME NEW i \in 1..Len(ms), ms[i].kind = "owner"
                     PROVE  \E j \in 1..Len(wire') : k < j /\ wire'[j].kind = "owner"
          OBVIOUS
        <5> QED
          BY <1>2, <2>1, k < Len(wire) + i
      <4>2. (\E j \in 1..Len(wire) : k < j /\ wire[j].kind = "owner") =>
              \E j \in 1..Len(wire') : k < j /\ wire'[j].kind = "owner"
        BY <1>2
      <4> QED
        BY <1>0, <2>1, <4>1, <4>2 DEF Base, Announced
    <3>3. ASSUME wire[k].kind = "agent"
          PROVE  \/ Retired(wire', k, wire[k].from, wire[k].object)
                 \/ instance' = wire[k].from /\ wire[k].object \in world'.present
      <4>0. wire[k] \in AgentCalls /\ None \notin Nat
        BY <3>1, <3>3, MessageKinds, BlueZConstants
      <4>1. PICK f \in Nat, o \in Objects : f = wire[k].from /\ o = wire[k].object
        BY <4>0 DEF AgentCalls
      <4>2. Retired(wire, k, f, o) \/ (instance = f /\ o \in world.present)
        BY <1>0, <2>1, <3>3, <4>1 DEF Base, Announced
      <4>3. CASE Retired(wire, k, f, o)
        BY <1>5, <2>1, <4>1, <4>3
      <4>4. CASE instance = f /\ o \in world.present
        <5>1. PICK n \in Nat : n = world.incarnation[o]
          BY <1>0 DEF Worlds
        <5>2. Managed(o, n)
          BY <4>0, <4>4, <5>1 DEF Managed
        <5>3. Managed(o, n)' \/ Retired(wire', k, f, o)
          <6>1. k \in 0..Len(wire)
            BY <2>1
          <6> QED
            BY <1>5, <4>4, <5>2, <6>1
        <5>4. instance' = f \/ Retired(wire', k, f, o)
          <6>1. k \in 0..Len(wire)
            BY <2>1
          <6>2. (\E i \in 1..Len(ms) : ms[i].kind = "owner") => \E i \in 1..Len(ms) : Retires(ms[i], f, o)
            BY DEF Retires
          <6> QED
            BY <1>5, <4>4, <6>1, <6>2
        <5> QED
          BY <4>1, <5>3, <5>4 DEF Managed
      <4> QED
        BY <4>2, <4>3, <4>4
    <3> QED
      BY <3>1, <3>2, <3>3
  <2>2. CASE \E i \in 1..Len(ms) : k = Len(wire) + i
    BY <1>2, <2>2 DEF Heralds
  <2> QED
    BY <1>2, <2>1, <2>2
<1>10. Minted(Idle)' /\ OneObject(Idle)'
  BY <1>0, <1>1, IdleDoes DEF Base, Minted, OneObject
<1>11. IdsStand(Idle, wire)'
  <2>1. ASSUME NEW o \in Objects, backend.ids[o] # None, ~Retired(wire', 0, backend.owner, o)
        PROVE  \E n \in Nat : Managed(o, n)' /\ \A p \in named : p.id = backend.ids[o] => p.incarnation = n
    <3>1. ~Retired(wire, 0, backend.owner, o)
      BY <1>5, <2>1
    <3>2. PICK n \in Nat : Managed(o, n) /\ For(Idle, backend.ids[o], n)
      BY <1>0, <2>1, <3>1, IdleDoes DEF Base, IdsStand
    <3>3. backend.owner = instance
      BY <1>0, <1>8, <2>1, <3>1, IdleDoes DEF Base, Connection, NoIds
    <3>4. Managed(o, n)'
      BY <1>2, <1>6, <2>1, <3>2, <3>3, 0 \in 0..Len(wire)
    <3> QED
      BY <3>2, <3>4, IdleDoes DEF For
  <2> QED
    BY <1>1, <2>1 DEF IdsStand, For, Retired, Retires, Managed
(* An answer that is added agrees with the ids. *)
<1>12. ASSUME NEW i \in 1..Len(ms), Publishable(backend, ms[i])
       PROVE  /\ ms[i].world = world /\ UNCHANGED <<world, instance>>
              /\ backend.owner = instance /\ instance # None
  <2>1. ms[i].kind = "reply" /\ ms[i].error = "none" /\ ms[i].watcher.kind = "refresh"
        /\ ms[i].watcher \in Refreshes(backend, backend.watchers)
    BY <1>12 DEF Publishable, Refreshes
  <2>2. ms[i].watcher.to = backend.owner /\ backend.owner # None
    BY <1>0, <2>1, IdleDoes DEF Base, Asks
  <2> QED
    BY <2>1, <2>2 DEF Heralds
<1>13. AnswersStand(Idle, wire)'
  <2>1. ASSUME NEW k \in 1..Len(wire'), Publishable(backend, wire'[k]),
               Calm(wire', k, backend.owner), NEW o \in wire'[k].world.present
        PROVE  /\ backend.ids[o] # None =>
                    \A p \in named : p.id = backend.ids[o] => p.incarnation = wire'[k].world.incarnation[o]
               /\ \/ Retired(wire', k, backend.owner, o)
                  \/ instance' # None /\ o \in world'.present
                     /\ world'.incarnation[o] = wire'[k].world.incarnation[o]
    <3>a. PICK n : n = wire'[k].world.incarnation[o]
      OBVIOUS
    <3> SUFFICES /\ backend.ids[o] # None => \A p \in named : p.id = backend.ids[o] => p.incarnation = n
                 /\ Retired(wire', k, backend.owner, o) \/ Managed(o, n)'
      BY <3>a DEF Managed
    <3>0. wire'[k].kind = "reply" /\ wire'[k].world \in Worlds /\ o \in Objects /\ n \in Nat
      <4>1. wire'[k].kind = "reply" /\ wire'[k].error = "none" /\ wire'[k] \in Messages
        BY <1>2, <2>1 DEF Publishable
      <4>2. wire'[k].world \in Worlds
        BY <4>1, MessageKinds, ReplyTyped
      <4> QED
        BY <2>1, <3>a, <4>1, <4>2 DEF Worlds
    <3>1. CASE k \in 1..Len(wire)
      <4>1. wire'[k] = wire[k] /\ Calm(wire, k, backend.owner)
        BY <1>2, <1>5, <2>1, <3>1
      <4>2. Agrees(Idle, wire, wire[k].world, k)
        BY <1>0, <2>1, <3>1, <4>1, IdleDoes DEF AnswersStand
      <4>3. /\ backend.ids[o] # None => For(Idle, backend.ids[o], n)
            /\ Retired(wire, k, backend.owner, o) \/ Managed(o, n)
        BY <2>1, <3>a, <4>1, <4>2, IdleDoes DEF Agrees
      <4>4. CASE Retired(wire, k, backend.owner, o)
        BY <1>5, <3>1, <4>3, <4>4, IdleDoes DEF For
      <4>5. CASE ~Retired(wire, k, backend.owner, o)
        <5>1. backend.owner # None
          BY <1>0, <2>1, IdleDoes DEF Base, Asks, Publishable
        <5>2. ~Changes(wire)
          <6> SUFFICES ASSUME NEW j \in 1..Len(wire), wire[j].kind = "owner" PROVE FALSE
            BY DEF Changes
          <6>1. ~(j < k)
            BY <4>1 DEF Calm, Disturbs
          <6>2. ~(k < j)
            BY <4>5 DEF Retired, Retires
          <6>3. j = k
            BY <3>1, <6>1, <6>2
          <6> QED
            BY <3>0, <4>1, <6>3
        <5>3. backend.owner = instance
          BY <1>0, <5>1, <5>2, IdleDoes DEF Base, Connection
        <5>4. Managed(o, n)' \/ Retired(wire', k, backend.owner, o)
          BY <1>6, <3>0, <3>1, <4>3, <4>5, <5>3, k \in 0..Len(wire)
        <5> QED
          BY <4>3, <5>4, IdleDoes DEF For
      <4> QED
        BY <4>4, <4>5
    <3>2. CASE \E i \in 1..Len(ms) : k = Len(wire) + i
      <4>1. PICK i \in 1..Len(ms) : k = Len(wire) + i
        BY <3>2
      <4>2. wire'[k] = ms[i]
        BY <1>2, <4>1
      <4>3. /\ wire'[k].world = world /\ UNCHANGED <<world, instance>>
            /\ backend.owner = instance /\ instance # None
        BY <1>12, <2>1, <4>2
      <4>4. Managed(o, n)' /\ o \in world.present /\ n = world.incarnation[o]
        BY <2>1, <3>a, <4>3 DEF Managed
      <4>5. ASSUME backend.ids[o] # None
            PROVE  \A p \in named : p.id = backend.ids[o] => p.incarnation = n
        <5>1. ~Retired(wire, 0, backend.owner, o)
          <6> SUFFICES ASSUME NEW j \in 1..Len(wire), Retires(wire[j], backend.owner, o) PROVE FALSE
            BY DEF Retired
          <6>1. j < k /\ j \in 1..Len(wire') /\ wire'[j] = wire[j]
            BY <1>2, <4>1
          <6> QED
            BY <2>1, <6>1 DEF Calm, Disturbs, Retires
        <5>2. PICK x \in Nat : Managed(o, x) /\ For(Idle, backend.ids[o], x)
          BY <1>0, <3>0, <4>5, <5>1, IdleDoes DEF Base, IdsStand
        <5> QED
          BY <4>4, <5>2, IdleDoes DEF Managed, For
      <4> QED
        BY <4>4, <4>5
    <3> QED
      BY <1>2, <3>1, <3>2
  <2>3. ASSUME NEW k \in 1..Len(wire'), Publishable(Idle.b, wire[k])', Calm(wire, k, Idle.b.owner)'
        PROVE  Agrees(Idle, wire, wire[k].world, k)'
    <3>1. Publishable(backend, wire'[k]) /\ Calm(wire', k, backend.owner)
      BY <1>1, <2>3 DEF Publishable, Refreshes, Calm, Disturbs
    <3>2. PICK shot : shot = wire'[k].world
      OBVIOUS
    <3>3. \A o \in shot.present :
            /\ backend.ids[o] # None => \A p \in named : p.id = backend.ids[o] => p.incarnation = shot.incarnation[o]
            /\ \/ Retired(wire', k, backend.owner, o)
               \/ instance' # None /\ o \in world'.present /\ world'.incarnation[o] = shot.incarnation[o]
      BY <2>1, <3>1, <3>2
    <3>4. Agrees(Idle, wire, shot, k)'
      BY <1>1, <3>3 DEF Agrees, For, Retired, Retires, Managed
    <3> QED
      BY <3>2, <3>4 DEF Agrees
  <2> QED
    BY <2>3 DEF AnswersStand
<1>14. Interacts(Idle)'
  BY <1>0, <1>1, IdleDoes DEF Interacts, Live
<1>15. Fresh(Idle, wire, heard)'
  <2>1. heard' = heard /\ shown' = shown /\ heard <= world.version
    BY <1>0 DEF historyVars, Versions
  <2>2. ASSUME NEW k \in 1..Len(wire'), Publishable(backend, wire'[k])
        PROVE  wire'[k].world.version >= heard
    <3>1. CASE k \in 1..Len(wire)
      BY <1>0, <1>2, <2>2, <3>1, IdleDoes DEF Fresh
    <3>2. CASE \E i \in 1..Len(ms) : k = Len(wire) + i
      BY <1>0, <1>2, <1>12, <2>1, <2>2, <3>2 DEF Versions, Worlds
    <3> QED
      BY <1>2, <3>1, <3>2
  <2> QED
    BY <1>0, <1>1, <2>1, <2>2, IdleDoes DEF Fresh, Publishable, Refreshes
<1>16. Session'
  BY <1>0, <1>1, <1>4, <1>7, <1>9, <1>10, <1>11, <1>13, <1>14, <1>15 DEF Session, Sound, Base
<1>17. Types'
  BY <1>0, <1>2 DEF Types, controllerVars, SpentType
<1>18. Versions'
  <2>1. heard' = heard /\ heard \in Nat /\ heard <= world.version
    BY <1>0 DEF historyVars, Versions
  <2>2. world.version \in Nat /\ world'.version \in Nat
    BY <1>0 DEF Worlds
  <2>3. ASSUME NEW k \in 1..Len(wire'), wire'[k].kind \in {"changed", "removed"}
        PROVE  wire'[k].version <= world'.version
    <3>1. CASE k \in 1..Len(wire)
      <4>1. wire[k].version \in Nat /\ wire[k].version <= world.version /\ wire'[k] = wire[k]
        BY <1>0, <1>2, <2>3, <3>1, MessageKinds DEF Versions, ChangeSignals, RemovalSignals
      <4> QED
        BY <2>2, <4>1
    <3>2. CASE \E i \in 1..Len(ms) : k = Len(wire) + i
      BY <1>2, <2>3, <3>2 DEF Heralds
    <3> QED
      BY <1>2, <3>1, <3>2
  <2> QED
    BY <2>1, <2>2, <2>3 DEF Versions
<1> QED
  BY <1>16, <1>17, <1>18 DEF IInv

LEMMA SequenceOf ==
  ASSUME NEW S, IsFiniteSet(S)
  PROVE  /\ SetToSeq(S) \in Seq(S) /\ Len(SetToSeq(S)) = Cardinality(S) /\ Cardinality(S) \in Nat
         /\ DOMAIN SetToSeq(S) = 1..Cardinality(S)
         /\ \A x \in S : \E i \in 1..Len(SetToSeq(S)) : SetToSeq(S)[i] = x
<1> DEFINE n == Cardinality(S)  order == SetToSeq(S)
<1>1. n \in Nat /\ ExistsBijection(1..n, S)
  BY FS_CardinalityType
<1>2. PICK f \in Bijection(1..n, S) : TRUE
  BY <1>1 DEF ExistsBijection
<1>3. f \in [1..n -> S] /\ IsInjective(f)
  BY <1>2 DEF Bijection, Injection
<1>4. order \in [1..n -> S] /\ IsInjective(order)
  BY <1>3 DEF SetToSeq
<1> HIDE DEF order
<1>5. order \in Injection(1..n, S)
  BY <1>4 DEF Injection
<1>6. Cardinality(1..n) = n
  BY <1>1, FS_Interval
<1>7. order \in Surjection(1..n, S)
  BY <1>5, <1>6, FS_Injection
<1>8. \A x \in S : \E i \in 1..n : order[i] = x
  BY <1>7 DEF Surjection
<1>9. order \in Seq(S) /\ Len(order) = n /\ DOMAIN order = 1..n
  BY <1>1, <1>4
<1> QED
  BY <1>1, <1>8, <1>9 DEF order

LEMMA Associative ==
  ASSUME NEW S, NEW p \in Seq(S), NEW q \in Seq(S), NEW r \in Seq(S)
  PROVE  (p \o q) \o r = p \o (q \o r)
OBVIOUS

(* The world is another, in which the objects that stay are what they were. *)
WorldMoves ==
  /\ world' \in Worlds /\ world'.version = world.version + 1
  /\ \A o \in world.present : o \in world'.present => world'.incarnation[o] = world.incarnation[o]

LEMMA MovedDoes ==
  ASSUME Types, NEW present \in SUBSET Objects, NEW powered \in SUBSET Objects,
         NEW incarnation \in [Objects -> Nat], Moved(present, powered, incarnation),
         \A o \in world.present : o \in present => incarnation[o] = world.incarnation[o]
  PROVE  WorldMoves
<1>1. world.version \in Nat /\ world.version + 1 \in Nat
  BY DEF Types, Worlds
<1>2. world' = [present |-> present, powered |-> powered \cap present,
               incarnation |-> incarnation, version |-> world.version + 1]
  BY DEF Moved
<1> QED
  BY <1>1, <1>2 DEF WorldMoves, Worlds

(* Every object that goes is told of. *)
LEMMA SignalsTell ==
  ASSUME Types, WorldMoves, UNCHANGED instance
  PROVE  /\ Signals \in Seq(Messages)
         /\ \A i \in 1..Len(Signals) : Heralds(Signals[i])
         /\ \A o \in Objects : \A n \in Nat :
              Managed(o, n) => Managed(o, n)' \/ \E i \in 1..Len(Signals) : Retires(Signals[i], instance, o)
<1> DEFINE gone == world.present \ world'.present
           first == SetToSeq(gone \cap Devices)
           last == SetToSeq(gone \cap Adapters)
           order == first \o last
           version == world.version + 1
           change == [kind |-> "changed", from |-> instance, version |-> version]
           removal(i) == [kind |-> "removed", object |-> order[i], from |-> instance, version |-> version]
<1>0. /\ instance \in Owners /\ world \in Worlds /\ world' \in Worlds
      /\ version \in Nat /\ world'.version = version
  BY DEF Types, WorldMoves, Worlds
<1>1. Signals = IF instance = None THEN <<>> ELSE IF gone = {} THEN <<change>>
                ELSE [i \in DOMAIN order |-> removal(i)]
  BY DEF Signals
<1>2. gone \in SUBSET Objects /\ Objects = Adapters \cup Devices
  BY <1>0 DEF Worlds, Objects
<1>3. /\ first \in Seq(Objects) /\ last \in Seq(Objects)
      /\ \A o \in gone \cap Devices : \E i \in 1..Len(first) : first[i] = o
      /\ \A o \in gone \cap Adapters : \E i \in 1..Len(last) : last[i] = o
  <2>1. IsFiniteSet(gone \cap Devices) /\ IsFiniteSet(gone \cap Adapters)
    BY <1>2, FS_Subset, BlueZConstants
  <2>2. first \in Seq(gone \cap Devices) /\ last \in Seq(gone \cap Adapters)
    BY <2>1, SequenceOf
  <2>3. first \in Seq(Objects) /\ last \in Seq(Objects)
    BY <1>2, <2>2
  <2> QED
    BY <2>1, <2>3, SequenceOf
<1> HIDE DEF first, last
<1>4. /\ order \in Seq(Objects) /\ DOMAIN order = 1..Len(order)
      /\ \A i \in 1..Len(first) : i \in 1..Len(order) /\ order[i] = first[i]
      /\ \A i \in 1..Len(last) : Len(first) + i \in 1..Len(order) /\ order[Len(first) + i] = last[i]
  BY <1>3
<1> HIDE DEF order
<1>5. \A o \in gone : \E i \in 1..Len(order) : order[i] = o
  BY <1>2, <1>3, <1>4
<1> HIDE DEF gone, version
<1>a. CASE instance = None
  <2>1. Signals = <<>> /\ Signals \in Seq(Messages) /\ Len(Signals) = 0
    BY <1>1, <1>a
  <2> QED
    BY <1>a, <2>1 DEF Managed
<1>b. CASE instance # None /\ gone = {}
  <2>1. change \in Messages
    BY <1>0, <1>b DEF Messages, ChangeSignals, Owners
  <2>2. Signals = <<change>> /\ change.kind = "changed" /\ change.version = version
    BY <1>1, <1>b
  <2> HIDE DEF change
  <2>3. Signals \in Seq(Messages) /\ Len(Signals) = 1 /\ Signals[1] = change
    BY <2>1, <2>2
  <2>4. Heralds(change)
    BY <1>0, <2>2 DEF Heralds, TellsOwner
  <2>5. \A o \in Objects : \A n \in Nat : Managed(o, n) => Managed(o, n)'
    BY <1>b DEF Managed, WorldMoves, gone
  <2> QED
    BY <2>3, <2>4, <2>5
<1>c. CASE instance # None /\ gone # {}
  <2>1. \A i \in 1..Len(order) : /\ removal(i) \in Messages /\ removal(i).kind = "removed"
                                 /\ removal(i).version = version
                                 /\ removal(i).from = instance /\ removal(i).object = order[i]
    BY <1>0, <1>4, <1>c DEF Messages, RemovalSignals, Owners
  <2>2. Signals = [i \in 1..Len(order) |-> removal(i)]
    BY <1>1, <1>4, <1>c
  <2> HIDE DEF removal
  <2>3. Len(order) \in Nat
    BY <1>4
  <2>4. /\ Signals \in Seq(Messages) /\ Len(Signals) = Len(order)
        /\ \A i \in 1..Len(order) : Signals[i] = removal(i)
    BY <2>1, <2>2, <2>3
  <2>5. \A i \in 1..Len(order) : Heralds(removal(i))
    BY <1>0, <2>1 DEF Heralds, TellsOwner
  <2>6. ASSUME NEW o \in Objects, NEW n \in Nat, Managed(o, n), ~Managed(o, n)'
        PROVE  \E i \in 1..Len(Signals) : Retires(Signals[i], instance, o)
    <3>1. o \in gone
      BY <2>6 DEF Managed, WorldMoves, gone
    <3>2. PICK i \in 1..Len(order) : order[i] = o
      BY <1>5, <3>1
    <3> QED
      BY <2>1, <2>4, <3>2 DEF Retires
  <2> QED
    BY <2>4, <2>5, <2>6
<1> QED
  BY <1>a, <1>b, <1>c

LEMMA MoveKeeps ==
  ASSUME IInv, Environment, UNCHANGED controllerVars, WorldMoves, wire' = wire \o Signals,
         UNCHANGED <<sent, held, instance>>, spent' \in SpentType
  PROVE  IInv'
<1>1. /\ Types /\ sent \in Seq(Calls \cup Stops) /\ world \in Worlds /\ world' \in Worlds
      /\ held \subseteq Orders /\ IsFiniteSet(held) /\ instance \in Owners
  BY DEF IInv, Session, Sound, Base, Types, WorldMoves
<1>2. world.version <= world'.version
  BY <1>1 DEF WorldMoves, Worlds
<1> QED
  BY <1>1, <1>2, SignalsTell, EnvironmentKeeps

LEMMA WorldKeeps ==
  ASSUME IInv, UNCHANGED controllerVars, NEW o \in Objects, Plug(o) \/ Unplug(o) \/ TogglePower(o)
  PROVE  IInv'
<1>1. /\ Types /\ world \in Worlds /\ world.present \in SUBSET Objects
      /\ world.powered \in SUBSET Objects /\ world.incarnation \in [Objects -> Nat]
      /\ spent \in SpentType
  BY DEF IInv, Types, Worlds, SpentType
<1>2. spent' \in SpentType /\ Environment /\ wire' = wire \o Signals /\ UNCHANGED <<sent, held, instance>>
  <2>1. Disturbed /\ Environment /\ wire' = wire \o Signals /\ UNCHANGED <<sent, held, instance>>
    BY DEF Plug, Unplug, TogglePower
  <2>2. spent.changes + 1 \in Nat
    BY <1>1 DEF SpentType
  <2>3. spent' = [spent EXCEPT !.changes = spent.changes + 1]
    BY <2>1 DEF Disturbed
  <2> QED
    BY <1>1, <2>1, <2>2, <2>3 DEF SpentType
<1>3. WorldMoves
  <2>1. CASE Plug(o)
    <3> DEFINE incarnation == [world.incarnation EXCEPT ![o] = @ + 1]
    <3>1. world.incarnation[o] + 1 \in Nat
      BY <1>1
    <3>2. incarnation \in [Objects -> Nat] /\ \A p \in Objects : p # o => incarnation[p] = world.incarnation[p]
      BY <1>1, <3>1
    <3>3. o \notin world.present /\ Moved(world.present \cup {o}, world.powered, incarnation)
      BY <2>1 DEF Plug
    <3> HIDE DEF incarnation
    <3> QED
      BY <1>1, <3>2, <3>3, MovedDoes
  <2>2. CASE Unplug(o)
    BY <1>1, <2>2, MovedDoes DEF Unplug, Without
  <2>3. CASE TogglePower(o)
    <3> DEFINE powered == IF o \in world.powered THEN world.powered \ {o} ELSE world.powered \cup {o}
    <3>1. powered \in SUBSET Objects /\ Moved(world.present, powered, world.incarnation)
      BY <1>1, <2>3 DEF TogglePower
    <3> HIDE DEF powered
    <3> QED
      BY <1>1, <3>1, MovedDoes
  <2> QED
    BY <2>1, <2>2, <2>3
<1> QED
  BY <1>2, <1>3, MoveKeeps

LEMMA OneJoined ==
  ASSUME NEW m \in Messages, NEW q \in Seq(Messages)
  PROVE  /\ Append(q, m) = q \o <<m>> /\ <<m>> \in Seq(Messages)
         /\ Len(<<m>>) = 1 /\ <<m>>[1] = m
OBVIOUS

(* One more message, and the world as it was. *)
LEMMA MessageKeeps ==
  ASSUME IInv, Environment, UNCHANGED controllerVars, UNCHANGED world,
         NEW m \in Messages, wire' = Append(wire, m), Heralds(m),
         sent' \in Seq(Calls \cup Stops),
         \A w \in ToSet(sent') : w.kind = "refresh" => w \in ToSet(sent),
         held' \subseteq Orders, IsFiniteSet(held'), instance' \in Owners, spent' \in SpentType,
         instance' = instance \/ m.kind = "owner"
  PROVE  IInv'
<1>1. world \in Worlds /\ wire \in Seq(Messages)
  BY DEF IInv, Types
<1> DEFINE ms == <<m>>
<1>2. wire' = wire \o ms /\ ms \in Seq(Messages) /\ Len(ms) = 1 /\ ms[1] = m
  BY <1>1, OneJoined
<1> HIDE DEF ms
<1>3. \A i \in 1..Len(ms) : Heralds(ms[i])
  BY <1>2
<1>4. world.version <= world'.version
  BY <1>1 DEF Worlds
<1>5. instance' = instance \/ \E i \in 1..Len(ms) : ms[i].kind = "owner"
  BY <1>2
<1>6. \A o \in Objects : \A n \in Nat :
        Managed(o, n) => Managed(o, n)' \/ \E i \in 1..Len(ms) : Retires(ms[i], instance, o)
  BY <1>2, <1>5 DEF Managed, Retires
<1> QED
  BY <1>1, <1>2, <1>3, <1>4, <1>5, <1>6, EnvironmentKeeps

(* No message, and the world as it was. *)
LEMMA SilentKeeps ==
  ASSUME IInv, Environment, UNCHANGED controllerVars, UNCHANGED <<wire, world, instance>>,
         sent' \in Seq(Calls \cup Stops),
         \A w \in ToSet(sent') : w.kind = "refresh" => w \in ToSet(sent),
         held' \subseteq Orders, IsFiniteSet(held'), spent' \in SpentType
  PROVE  IInv'
<1>1. world \in Worlds /\ wire \in Seq(Messages) /\ instance \in Owners
  BY DEF IInv, Types
<1> DEFINE ms == <<>>
<1>2. ms \in Seq(Messages) /\ Len(ms) = 0 /\ wire' = wire \o ms
  BY <1>1
<1> HIDE DEF ms
<1>3. \A i \in 1..Len(ms) : Heralds(ms[i])
  BY <1>2
<1>4. world.version <= world'.version /\ world' \in Worlds
  BY <1>1 DEF Worlds
<1>5. \A o \in Objects : \A n \in Nat :
        Managed(o, n) => Managed(o, n)' \/ \E i \in 1..Len(ms) : Retires(ms[i], instance, o)
  BY DEF Managed
<1>6. instance' \in Owners /\ instance' = instance
  BY <1>1
<1> QED
  BY <1>2, <1>3, <1>4, <1>5, <1>6, EnvironmentKeeps

LEMMA DaemonLives ==
  ASSUME IInv, UNCHANGED controllerVars, Launch \/ Crash \/ \E d \in Devices : AgentCall(d)
  PROVE  IInv'
<1>1. /\ world \in Worlds /\ sent \in Seq(Calls \cup Stops) /\ spent \in SpentType
      /\ held \subseteq Orders /\ IsFiniteSet(held) /\ instance \in Owners
  BY DEF IInv, Session, Sound, Base, Types, SpentType
<1>2. /\ spent.launches \in Nat /\ spent.launches + 1 \in Nat
      /\ spent.agentCalls \in Nat /\ spent.agentCalls + 1 \in Nat
  BY <1>1 DEF SpentType
<1>3. CASE Launch
  <2> DEFINE m == [kind |-> "owner", owner |-> instance']
  <2>1. /\ instance' \in Owners /\ wire' = Append(wire, m) /\ Environment
        /\ UNCHANGED <<sent, held, world>> /\ spent' = [spent EXCEPT !.launches = spent.launches + 1]
    BY <1>2, <1>3 DEF Launch, Owners
  <2>2. m \in Messages /\ m.kind = "owner" /\ Heralds(m)
    BY <2>1 DEF Messages, OwnerSignals, Heralds
  <2>3. spent' \in SpentType
    BY <1>1, <1>2, <2>1 DEF SpentType
  <2> HIDE DEF m
  <2> QED
    BY <1>1, <2>1, <2>2, <2>3, MessageKeeps
<1>4. CASE Crash
  <2> DEFINE m == [kind |-> "owner", owner |-> None]
  <2>1. /\ instance' = None /\ wire' = Append(wire, m) /\ Environment
        /\ UNCHANGED <<sent, spent, world>> /\ held' = {}
    BY <1>4 DEF Crash
  <2>2. m \in Messages /\ m.kind = "owner" /\ Heralds(m) /\ instance' \in Owners
    BY <2>1 DEF Messages, OwnerSignals, Heralds, Owners
  <2>3. held' \subseteq Orders /\ IsFiniteSet(held')
    BY <2>1, FS_EmptySet
  <2> HIDE DEF m
  <2> QED
    BY <1>1, <2>1, <2>2, <2>3, MessageKeeps
<1>5. ASSUME NEW d \in Devices, AgentCall(d) PROVE IInv'
  <2> DEFINE m == [kind |-> "agent", from |-> instance, object |-> d, version |-> 0]
  <2>1. /\ instance # None /\ d \in world.present /\ wire' = Append(wire, m) /\ Environment
        /\ UNCHANGED <<sent, held, world, instance>>
        /\ spent' = [spent EXCEPT !.agentCalls = spent.agentCalls + 1]
    BY <1>5 DEF AgentCall
  <2>2. m \in AgentCalls
    BY <1>1, <2>1 DEF AgentCalls, Owners, Objects
  <2>3. m \in Messages /\ Heralds(m)
    BY <2>1, <2>2 DEF Messages, Heralds, TellsOwner
  <2>4. spent' \in SpentType
    BY <1>1, <1>2, <2>1 DEF SpentType
  <2> HIDE DEF m
  <2> QED
    BY <1>1, <2>1, <2>3, <2>4, MessageKeeps
<1> QED
  BY <1>3, <1>4, <1>5

(* What the daemon takes off the queue of calls. *)
LEMMA TakeDoes ==
  ASSUME IInv, Take
  PROVE  /\ Oldest \in Calls \cup Stops /\ Oldest \in ToSet(sent)
         /\ sent' \in Seq(Calls \cup Stops) /\ ToSet(sent') \subseteq ToSet(sent)
         /\ Environment /\ UNCHANGED <<instance, spent>> /\ instance \in Owners
         /\ spent' \in SpentType
<1>1. /\ sent \in Seq(Calls \cup Stops) /\ sent # <<>> /\ sent' = Tail(sent)
      /\ Environment /\ UNCHANGED <<instance, spent>> /\ instance \in Owners /\ spent \in SpentType
  BY DEF IInv, Session, Sound, Base, Types, Take, SpentType
<1>2. /\ Oldest = sent[1] /\ 1 \in DOMAIN sent /\ Tail(sent) \in Seq(Calls \cup Stops)
      /\ \A i \in DOMAIN Tail(sent) : i + 1 \in DOMAIN sent /\ Tail(sent)[i] = sent[i + 1]
  BY <1>1 DEF Oldest
<1>3. ToSet(Tail(sent)) \subseteq ToSet(sent)
  BY <1>2 DEF ToSet
<1> QED
  BY <1>1, <1>2, <1>3 DEF ToSet

LEMMA AnswerTyped ==
  ASSUME Types, NEW w \in Calls
  PROVE  /\ Answer(w) \in Messages /\ Answer(w).kind = "reply" /\ Answer(w).watcher = w
         /\ Answer(w).owner = instance /\ Answer(w).world = world /\ Answer(w).error = "none"
         /\ Failure(w) \in Messages /\ Failure(w).kind = "reply" /\ Failure(w).watcher = w
         /\ Failure(w).error = "Upstream"
<1>1. Answer(w) = [kind |-> "reply", watcher |-> w, error |-> "none", owner |-> instance, world |-> world]
  <2> DEFINE f == [kind |-> "reply", watcher |-> w, error |-> "Upstream", owner |-> None, world |-> Nothing]
  <2>1. Answer(w) = [f EXCEPT !.error = "none", !.owner = instance, !.world = world]
    BY DEF Answer, Failure
  <2> HIDE DEF Nothing
  <2> QED
    BY <2>1
<1>2. instance \in Owners /\ world \in Worlds
  BY DEF Types
<1> HIDE DEF Calls, Worlds
<1>3. Answer(w) \in Answers
  BY <1>1, <1>2 DEF Answers
<1>4. Failure(w) \in Failures
  BY DEF Failures, Failure
<1> QED
  BY <1>1, <1>3, <1>4 DEF Failure, Messages, Replies

LEMMA QueryKeeps ==
  ASSUME IInv, UNCHANGED controllerVars, Undeliverable \/ HandleQuery
  PROVE  IInv'
<1>1. /\ Take /\ UNCHANGED <<held, world>> /\ Types /\ wire \in Seq(Messages)
      /\ held \subseteq Orders /\ IsFiniteSet(held)
  BY DEF Undeliverable, HandleQuery, IInv, Types
<1>2. /\ Oldest \in Calls \cup Stops /\ Oldest \in ToSet(sent)
      /\ sent' \in Seq(Calls \cup Stops) /\ ToSet(sent') \subseteq ToSet(sent)
      /\ Environment /\ UNCHANGED <<instance, spent>> /\ instance \in Owners
      /\ spent' \in SpentType
  BY <1>1, TakeDoes
<1>3. CASE Undeliverable
  BY <1>1, <1>2, <1>3, SilentKeeps DEF Undeliverable
<1>4. CASE HandleQuery
  <2>1. /\ wire' = Append(wire, Answer(Oldest)) \/ wire' = Append(wire, Failure(Oldest))
        /\ Oldest.kind \in {"owner", "register", "refresh"}
        /\ Oldest.kind = "refresh" => Oldest.to = instance
    BY <1>4 DEF HandleQuery
  <2>2. Oldest \in Calls
    BY <1>2, <2>1, CallKinds DEF Calls
  <2>3. ASSUME NEW m \in {Answer(Oldest), Failure(Oldest)}, wire' = Append(wire, m) PROVE IInv'
    <3>1. m \in Messages /\ m.kind = "reply" /\ m.watcher = Oldest
      BY <1>1, <2>2, AnswerTyped
    <3>2. m.error = "none" => m.owner = instance /\ m.world = world
      BY <1>1, <2>2, AnswerTyped
    <3>3. Heralds(m)
      BY <1>1, <1>2, <2>1, <3>1, <3>2 DEF Heralds, TellsOwner
    <3> QED
      BY <1>1, <1>2, <2>3, <3>1, <3>3, MessageKeeps
  <2> QED
    BY <2>1, <2>3
<1> QED
  BY <1>3, <1>4

(* The answers to operations say nothing the invariant is about. *)
LEMMA OrderAnswered ==
  ASSUME NEW m \in Messages, m.kind = "reply", m.watcher.kind = "operation"
  PROVE  Heralds(m)
BY DEF Heralds, TellsOwner

LEMMA HandleStopKeeps ==
  ASSUME IInv, UNCHANGED controllerVars, HandleStop
  PROVE  IInv'
<1> DEFINE ended == Ending(Oldest.object)
           order == SetToSeq(ended)
           ms == [i \in 1..Cardinality(ended) |-> Failure(order[i])]
<1>1. /\ Take /\ UNCHANGED world /\ Types /\ wire \in Seq(Messages) /\ world \in Worlds
      /\ held \subseteq Orders /\ IsFiniteSet(held)
      /\ held' = held \ ended /\ wire' = wire \o ms
  BY DEF HandleStop, IInv, Types
<1>2. /\ sent' \in Seq(Calls \cup Stops) /\ ToSet(sent') \subseteq ToSet(sent)
      /\ Environment /\ UNCHANGED <<instance, spent>> /\ instance \in Owners
      /\ spent' \in SpentType
  BY <1>1, TakeDoes
<1>3. ended \subseteq held
  BY DEF Ending
<1> HIDE DEF ended
<1>4. held' \subseteq Orders /\ IsFiniteSet(held') /\ IsFiniteSet(ended)
  BY <1>1, <1>3, FS_Subset
<1>5. /\ Cardinality(ended) \in Nat /\ Len(order) = Cardinality(ended)
      /\ \A i \in 1..Cardinality(ended) : order[i] \in ended
  BY <1>4, SequenceOf
<1> HIDE DEF order
<1>6. \A i \in 1..Cardinality(ended) :
        Failure(order[i]) \in Messages /\ Heralds(Failure(order[i]))
  <2> SUFFICES ASSUME NEW i \in 1..Cardinality(ended)
               PROVE  Failure(order[i]) \in Messages /\ Heralds(Failure(order[i]))
    OBVIOUS
  <2>1. order[i] \in Orders /\ order[i] \in Calls /\ order[i].kind = "operation"
    BY <1>1, <1>3, <1>5 DEF Calls, Orders
  <2> QED
    BY <1>1, <2>1, AnswerTyped, OrderAnswered
<1>7. /\ ms \in Seq(Messages) /\ Len(ms) = Cardinality(ended)
      /\ \A i \in 1..Len(ms) : ms[i] = Failure(order[i])
  BY <1>5, <1>6
<1> HIDE DEF ms
<1>8. \A i \in 1..Len(ms) : Heralds(ms[i])
  BY <1>6, <1>7
<1>9. world.version <= world'.version
  BY <1>1 DEF Worlds
<1>10. \A o \in Objects : \A n \in Nat : Managed(o, n) => Managed(o, n)'
  BY <1>1, <1>2 DEF Managed
<1> QED
  BY <1>1, <1>2, <1>4, <1>7, <1>8, <1>9, <1>10, EnvironmentKeeps

(* What an operation does to the world. *)
LEMMA PerformedMoves ==
  ASSUME Types, NEW w \in Orders, Performed(w)
  PROVE  world' = world \/ WorldMoves
<1>1. /\ world \in Worlds /\ world.present \in SUBSET Objects
      /\ world.powered \in SUBSET Objects /\ world.incarnation \in [Objects -> Nat]
      /\ w.object \in Objects
  BY DEF Types, Worlds, Orders
<1>2. \/ UNCHANGED world
      \/ Moved(world.present, world.powered \cup {w.object}, world.incarnation)
      \/ Moved(world.present, world.powered \ {w.object}, world.incarnation)
      \/ Moved(Without(w.object), world.powered, world.incarnation)
  BY DEF Performed
<1>3. Without(w.object) \in SUBSET Objects
  BY <1>1 DEF Without
<1> QED
  BY <1>1, <1>2, <1>3, MovedDoes

LEMMA HandledKeeps ==
  ASSUME IInv, Environment, UNCHANGED controllerVars, UNCHANGED <<instance, spent>>,
         NEW w \in Orders, Handled(w),
         sent' \in Seq(Calls \cup Stops),
         \A x \in ToSet(sent') : x.kind = "refresh" => x \in ToSet(sent),
         held' \subseteq Orders, IsFiniteSet(held')
  PROVE  IInv'
<1>1. /\ Types /\ world \in Worlds /\ wire \in Seq(Messages) /\ instance \in Owners
      /\ spent' \in SpentType
  BY DEF IInv, Types, SpentType
<1>2. w \in Calls /\ w.kind = "operation"
  BY DEF Calls, Orders
<1>3. /\ Answer(w) \in Messages /\ Heralds(Answer(w))
      /\ Failure(w) \in Messages /\ Heralds(Failure(w))
  BY <1>1, <1>2, AnswerTyped, OrderAnswered
<1>4. CASE wire' = Append(wire, Failure(w)) /\ UNCHANGED <<world, scanning>>
  BY <1>1, <1>3, <1>4, MessageKeeps
<1> DEFINE a == Answer(w)
<1>5. ASSUME Performed(w), world' = world, wire' \in {wire \o <<>> \o <<a>>, wire \o <<a>> \o <<>>}
      PROVE  IInv'
  <2>1. a \in Messages /\ Heralds(a)
    BY <1>3
  <2> HIDE DEF a
  <2>2. wire' = Append(wire, a)
    BY <1>1, <1>5, <2>1
  <2> QED
    BY <1>1, <1>5, <2>1, <2>2, MessageKeeps
<1>6. ASSUME WorldMoves, wire' \in {wire \o Signals \o <<a>>, wire \o <<a>> \o Signals}
      PROVE  IInv'
  <2>1. /\ Signals \in Seq(Messages) /\ \A i \in 1..Len(Signals) : Heralds(Signals[i])
        /\ \A o \in Objects : \A n \in Nat :
             Managed(o, n) => Managed(o, n)' \/ \E i \in 1..Len(Signals) : Retires(Signals[i], instance, o)
    BY <1>1, <1>6, SignalsTell
  <2>2. a \in Messages /\ Heralds(a)
    BY <1>3
  <2>3. world' \in Worlds /\ world.version <= world'.version
    BY <1>1, <1>6 DEF WorldMoves, Worlds
  <2> DEFINE signals == Signals  last == <<a>>
  <2>4. /\ last \in Seq(Messages) /\ Len(last) = 1 /\ last[1] = a /\ signals \in Seq(Messages)
        /\ \A i \in 1..Len(signals) : Heralds(signals[i])
        /\ \A i \in 1..Len(last) : Heralds(last[i])
        /\ \A o \in Objects : \A n \in Nat :
             Managed(o, n) => Managed(o, n)' \/ \E i \in 1..Len(signals) : Retires(signals[i], instance, o)
        /\ wire' \in {wire \o signals \o last, wire \o last \o signals}
    <3>1. wire' \in {wire \o signals \o last, wire \o last \o signals}
      BY <1>6
    <3>2. last \in Seq(Messages) /\ Len(last) = 1 /\ last[1] = a
      BY <2>2
    <3> HIDE DEF a, last, signals
    <3>3. \A i \in 1..Len(last) : Heralds(last[i])
      BY <2>2, <3>2
    <3> QED
      BY <2>1, <3>1, <3>2, <3>3 DEF signals
  <2> HIDE DEF a, last, signals
  <2>5. ASSUME NEW p \in {signals, last}, NEW r \in {signals, last}, wire' = wire \o (p \o r),
               p = signals \/ r = signals
        PROVE  IInv'
    <3>1. /\ p \o r \in Seq(Messages)
          /\ \A k \in 1..Len(p) : k \in 1..Len(p \o r) /\ (p \o r)[k] = p[k]
          /\ \A i \in 1..Len(r) : Len(p) + i \in 1..Len(p \o r) /\ (p \o r)[Len(p) + i] = r[i]
          /\ \A k \in 1..Len(p \o r) : k \in 1..Len(p) \/ \E i \in 1..Len(r) : k = Len(p) + i
      BY <2>4, JoinedDoes
    <3> DEFINE ms == p \o r
    <3>2. ms \in Seq(Messages) /\ wire' = wire \o ms
      BY <2>5, <3>1
    <3>a. \A i \in 1..Len(p) : Heralds(p[i])
      BY <2>4, <2>5
    <3>b. \A i \in 1..Len(r) : Heralds(r[i])
      BY <2>4, <2>5
    <3>3. \A i \in 1..Len(ms) : Heralds(ms[i])
      BY <3>1, <3>a, <3>b
    <3>4. \A i \in 1..Len(signals) : \E k \in 1..Len(ms) : ms[k] = signals[i]
      BY <2>5, <3>1
    <3> HIDE DEF ms
    <3>5. \A o \in Objects : \A n \in Nat :
            Managed(o, n) => Managed(o, n)' \/ \E i \in 1..Len(ms) : Retires(ms[i], instance, o)
      BY <2>4, <3>4
    <3> QED
      BY <1>1, <2>3, <3>2, <3>3, <3>5, EnvironmentKeeps
  <2>6. (wire \o signals) \o last = wire \o (signals \o last)
    BY <1>1, <2>4, Associative
  <2>7. (wire \o last) \o signals = wire \o (last \o signals)
    BY <1>1, <2>4, Associative
  <2> QED
    BY <2>4, <2>5, <2>6, <2>7
<1>7. CASE Performed(w) /\ wire' \in {wire \o (IF world' = world THEN <<>> ELSE Signals) \o <<Answer(w)>>,
                                      wire \o <<Answer(w)>> \o (IF world' = world THEN <<>> ELSE Signals)}
  BY <1>1, <1>5, <1>6, <1>7, PerformedMoves
<1> QED
  BY <1>4, <1>7 DEF Handled

LEMMA OperationKeeps ==
  ASSUME IInv, UNCHANGED controllerVars, HandleOperation \/ \E w \in held : Complete(w)
  PROVE  IInv'
<1>1. /\ Types /\ world \in Worlds /\ wire \in Seq(Messages) /\ sent \in Seq(Calls \cup Stops)
      /\ held \subseteq Orders /\ IsFiniteSet(held)
  BY DEF IInv, Types, Session, Sound, Base
<1>2. CASE HandleOperation
  <2>1. Take /\ Oldest.kind = "operation"
    BY <1>2 DEF HandleOperation
  <2>2. /\ Oldest \in Orders
        /\ sent' \in Seq(Calls \cup Stops) /\ ToSet(sent') \subseteq ToSet(sent)
        /\ Environment /\ UNCHANGED <<instance, spent>> /\ instance \in Owners
        /\ spent' \in SpentType
    BY <2>1, TakeDoes, CallKinds
  <2>3. CASE Handled(Oldest) /\ UNCHANGED held
    BY <1>1, <2>2, <2>3, HandledKeeps
  <2>4. CASE held' = held \cup {Oldest} /\ UNCHANGED <<wire, world, scanning>>
    <3>1. held' \subseteq Orders /\ IsFiniteSet(held')
      BY <1>1, <2>2, <2>4, FS_AddElement
    <3> QED
      BY <1>1, <2>2, <2>4, <3>1, SilentKeeps
  <2> QED
    BY <1>2, <2>3, <2>4 DEF HandleOperation
<1>3. ASSUME NEW w \in held, Complete(w) PROVE IInv'
  <2>1. /\ held' = held \ {w} /\ Handled(w) /\ UNCHANGED <<sent, instance, spent>> /\ Environment
    BY <1>3 DEF Complete
  <2>2. held' \subseteq Orders /\ IsFiniteSet(held')
    BY <1>1, <2>1, FS_Subset
  <2> QED
    BY <1>1, <2>1, <2>2, HandledKeeps
<1> QED
  BY <1>2, <1>3

-----------------------------------------------------------------------------
LEMMA NewBackendTyped == NewBackend \in Backends
<1>1. NoIds \in [Objects -> Ids]
  BY NoIdsTyped
<1>2. <<>> \in Seq(Finishes)
  OBVIOUS
<1>3. /\ [o \in Objects |-> 0] \in [Objects -> Nat] /\ None \in Owners
      /\ {} \in SUBSET [device : Ids, number : Nat]
  BY DEF Owners
<1> HIDE DEF NoIds, Ids, Finishes, Owners, Calls
<1> QED
  BY <1>1, <1>2, <1>3 DEF NewBackend, Backends

LEMMA InitInv ==
  ASSUME Init
  PROVE  IInv
<1>1. /\ backend = NewBackend /\ emitted = <<>> /\ wire = <<>> /\ sent = <<>> /\ held = {}
      /\ instance = 0 /\ shown = Nothing /\ heard = 0 /\ named = {}
      /\ spent = [stopped |-> FALSE, launches |-> 0, changes |-> 0, errors |-> 0, agentCalls |-> 0]
      /\ pending = {}
      /\ request = [r \in RequestIds |-> [operation |-> "none", target |-> None, error |-> "none"]]
  BY DEF Init, BackendInit
<1>2. world \in Worlds /\ world.version = 0
  <2>1. PICK present \in {Adapters, Objects} :
          world = [present |-> present, powered |-> Adapters, version |-> 0,
                   incarnation |-> [o \in Objects |-> IF o \in present THEN 1 ELSE 0]]
    BY DEF Init, BackendInit
  <2>2. [o \in Objects |-> IF o \in present THEN 1 ELSE 0] \in [Objects -> Nat]
    OBVIOUS
  <2>3. present \in SUBSET Objects /\ Adapters \in SUBSET Objects
    BY DEF Objects
  <2> QED
    BY <2>1, <2>2, <2>3 DEF Worlds
<1>3. Types
  <2>1. held \subseteq Orders /\ IsFiniteSet(held)
    BY <1>1, FS_EmptySet
  <2>2. wire \in Seq(Messages) /\ instance \in Owners
    BY <1>1 DEF Owners
  <2>3. spent \in [stopped : BOOLEAN, launches : Nat, changes : Nat, errors : Nat, agentCalls : Nat]
    BY <1>1
  <2>4. request \in [RequestIds -> [operation : Operations \cup {"none"},
                                    target : (Objects \X Nat) \cup {None},
                                    error : {"none", "Unavailable", "Busy"}]]
    BY <1>1
  <2> QED
    BY <1>1, <1>2, <2>1, <2>2, <2>3, <2>4 DEF Types
<1>4. Idle \in States /\ sent \in Seq(Calls \cup Stops) /\ emitted \in Seq(Emissions)
  <2>1. backend \in Backends
    BY <1>1, NewBackendTyped
  <2>2. <<>> \in Seq(Calls \cup Stops) /\ <<>> \in Seq(Finishes \cup Prompts \cup Pictures)
    OBVIOUS
  <2> QED
    BY <1>1, <2>1, <2>2 DEF Idle, States, Emissions
<1>5. /\ Len(wire) = 0 /\ ~backend.started /\ backend.owner = None /\ backend.ids = NoIds
      /\ backend.interactions = {} /\ backend.watchers = {} /\ backend.agentDevices = NoIds
  BY <1>1 DEF NewBackend
<1>6. Under(Idle, wire) = {}
  BY <1>1, <1>5 DEF Under, Idle, ToSet, Answered
<1>7. Asks(Idle, wire)
  BY <1>5, <1>6, IdleDoes DEF Asks, Refreshes
<1>8. Connection(Idle, wire) /\ Announced(wire)
  BY <1>5, IdleDoes DEF Connection, Announced
<1>9. Minted(Idle) /\ OneObject(Idle) /\ IdsStand(Idle, wire)
  BY <1>1, <1>5, IdleDoes DEF Minted, OneObject, IdsStand, NoIds
<1>10. AnswersStand(Idle, wire) /\ Interacts(Idle)
  BY <1>5, IdleDoes DEF AnswersStand, Interacts
<1>11. Fresh(Idle, wire, heard)
  BY <1>1, <1>5, IdleDoes DEF Fresh
<1>12. Versions
  BY <1>1, <1>2, <1>5 DEF Versions
<1> QED
  BY <1>3, <1>4, <1>7, <1>8, <1>9, <1>10, <1>11, <1>12 DEF IInv, Session, Sound, Base

LEMMA NextInv ==
  ASSUME IInv, [Next]_vars
  PROVE  IInv'
<1>1. CASE Received
  BY <1>1, ReceivedKeeps
<1>2. CASE Asked
  BY <1>2, AskedKeeps
<1>3. CASE \E r \in timers : Timer(r)
  BY <1>3, TimerKeeps
<1>4. CASE BackendStep /\ UNCHANGED controllerVars
  BY <1>4, BackendStepKeeps
<1>5. CASE DaemonStep /\ UNCHANGED controllerVars
  <2>1. CASE \E o \in Objects : Plug(o) \/ Unplug(o)
    BY <1>5, <2>1, WorldKeeps
  <2>2. CASE \E a \in Adapters : TogglePower(a)
    BY <1>5, <2>2, WorldKeeps DEF Objects
  <2>3. CASE Launch \/ Crash \/ \E d \in Devices : AgentCall(d)
    BY <1>5, <2>3, DaemonLives
  <2>4. CASE Undeliverable \/ HandleQuery
    BY <1>5, <2>4, QueryKeeps
  <2>5. CASE HandleStop
    BY <1>5, <2>5, HandleStopKeeps
  <2>6. CASE HandleOperation \/ \E w \in held : Complete(w)
    BY <1>5, <2>6, OperationKeeps
  <2> QED
    BY <1>5, <2>1, <2>2, <2>3, <2>4, <2>5, <2>6 DEF DaemonStep
<1>6. CASE UNCHANGED vars
  <2>1. UNCHANGED backendVars /\ UNCHANGED <<emitted, request, pending>>
    BY <1>6 DEF vars, controllerVars
  <2>2. Types' /\ emitted' \in Seq(Emissions)
    BY <2>1 DEF IInv, Session, Types, backendVars, busVars
  <2> QED
    BY <2>1, <2>2, NothingKeeps
<1> QED
  BY <1>1, <1>2, <1>3, <1>4, <1>5, <1>6 DEF Next

(* The inductive invariant: the session, the calls and the queue agree with  *)
(* the daemon at every step, whatever is lost, late or restarted.            *)
THEOREM BluetoothInvariant == Spec => []IInv
<1>1. Init => IInv
  BY InitInv
<1>2. IInv /\ [Next]_vars => IInv'
  BY NextInv
<1> QED
  BY <1>1, <1>2, PTL DEF Spec

(* An id that publish() or the agent gave to an object never comes to stand  *)
(* for another incarnation of it, or for another object.                     *)
THEOREM IdsNameOneObject == Spec => []OneObjectPerId
<1>1. IInv => OneObjectPerId
  BY IdleDoes DEF IInv, Session, Sound, Base, OneObject, OneObjectPerId
<1> QED
  BY <1>1, BluetoothInvariant, PTL

(* With no refresh outstanding, an available snapshot is no older than the   *)
(* newest change bluetoothd has told of: refreshReply() asks again for one   *)
(* that signals overtook.                                                    *)
THEOREM SnapshotsSettle == Spec => []Settled
<1>1. IInv => Settled
  BY IdleDoes DEF IInv, Session, Fresh, Settled
<1> QED
  BY <1>1, BluetoothInvariant, PTL

(* With no refresh outstanding, setDevices() has rejected every interaction  *)
(* whose device's id is not in use any more.                                 *)
THEOREM InteractionsAreListed == Spec => []InteractionsListed
<1>1. IInv => InteractionsListed
  BY IdleDoes DEF IInv, Session, Sound, Interacts, InteractionsListed
<1> QED
  BY <1>1, BluetoothInvariant, PTL

-----------------------------------------------------------------------------
(* The discovery sessions of the daemon, and who will end them. *)

IsStart(w) == w.kind = "operation" /\ w.call.operation = "StartDiscovery"
IsStop(c, o) == c.kind = "stop" /\ c.object = o /\ c.to = instance

(* The calls that the backend has not been told the end of. *)
Begun == ToSet(sent) \cup held \cup Answered(wire)

(* A StartDiscovery is in one place, and of a request that ran: its answer    *)
(* comes once, while it is still watched for.                                 *)
SentOnce == \A i, j \in 1..Len(sent) : IsStart(sent[i]) /\ sent[j] = sent[i] => i = j
AnsweredOnce ==
  \A i, j \in 1..Len(wire) :
    /\ wire[i].kind = "reply" /\ IsStart(wire[i].watcher)
    /\ wire[j].kind = "reply" /\ wire[j].watcher = wire[i].watcher
    => i = j
Apart ==
  /\ \A w \in ToSet(sent) : IsStart(w) => w \notin held /\ w \notin Answered(wire)
  /\ \A w \in held : IsStart(w) => w \notin Answered(wire)
Ran ==
  \A w \in Begun : IsStart(w) =>
    /\ w.call.request \notin timers
    /\ w.call.request \in pending \/ outcome[w.call.request] # "none"

(* Only Discoverable takes two calls. *)
TwoCalls ==
  \A w \in backend.watchers : w.kind = "operation" /\ w.step # "only" =>
    w.call.operation = "Discoverable"

(* A daemon that is launched is one that nobody has heard of. *)
Dated(n) == n = None \/ n <= spent.launches
Numbered ==
  /\ Dated(instance) /\ Dated(backend.owner)
  /\ \A k \in 1..Len(wire) : TellsOwner(wire[k]) => Dated(wire[k].owner)
  /\ \A w \in Begun : IsStart(w) => w.to # None /\ Dated(w.to)

(* Once the running daemon is known, nobody is told of another owner. *)
LastWord ==
  instance # None =>
    \A k \in 1..Len(wire) : TellsOwner(wire[k]) /\ wire[k].owner = instance =>
      \A j \in 1..Len(wire) : k < j => wire[j].kind # "owner"
Connected ==
  instance # None /\ backend.owner = instance => \A k \in 1..Len(wire) : wire[k].kind # "owner"
Inquiries ==
  \A w \in backend.watchers : w.kind = "owner" =>
    /\ w.generation <= backend.generation
    /\ w.generation = backend.generation => backend.owner = None

(* The daemon works for this connection. *)
Awaited ==
  backend.started /\ instance # None =>
    \A w \in Begun : IsStart(w) /\ w.to = instance =>
      /\ backend.owner = instance
      /\ \/ w \in backend.watchers /\ w.generation = backend.generation
         \/ w.object \in overlooked
Serving ==
  /\ scanning \subseteq world.powered
  /\ scanning # {} => instance # None /\ (backend.started => backend.owner = instance)
  /\ \A w \in held : IsStart(w) => instance # None /\ w.to = instance
Unbegun ==
  ~backend.started /\ ~spent.stopped => scanning = {} /\ \A w \in Begun : ~IsStart(w)

(* After stop(), a StartDiscovery that may still be performed is followed by  *)
(* the StopDiscovery for it.                                                  *)
Ended ==
  ~backend.started /\ instance # None =>
    /\ \A i \in 1..Len(sent) : IsStart(sent[i]) /\ sent[i].to = instance =>
         \/ sent[i].object \in overlooked
         \/ \E j \in 1..Len(sent) : i < j /\ IsStop(sent[j], sent[i].object)
    /\ \A w \in held : IsStart(w) =>
         w.object \in overlooked \/ \E c \in ToSet(sent) : IsStop(c, w.object)

(* What takes a session from those the backend owns. *)
Drops(m, o) ==
  \/ m.kind = "removed" /\ m.object = o
  \/ /\ m.kind = "reply" /\ m.error = "none"
     /\ \/ /\ m.watcher.kind = "operation" /\ m.watcher.object = o
           /\ m.watcher.call.operation = "StopDiscovery"
        \/ m.watcher.kind = "refresh" /\ o \in m.world.present \ m.world.powered

(* The success of a StartDiscovery on a. *)
Acquires(m, o) ==
  /\ m.kind = "reply" /\ m.error = "none"
  /\ IsStart(m.watcher) /\ m.watcher.object = o /\ m.watcher.to = instance

(* Every session will be ended, is owned, or will be once the messages that   *)
(* are on their way have come.                                                *)
WillEnd(o) == \E c \in ToSet(sent) : IsStop(c, o)
IsOwned(o) == o \in backend.owned /\ \A j \in 1..Len(wire) : ~Drops(wire[j], o)
WillBeOwned(o) ==
  \E k \in 1..Len(wire) :
    Acquires(wire[k], o) /\ \A j \in 1..Len(wire) : k < j => ~Drops(wire[j], o)
Minded ==
  \A o \in scanning :
    \/ WillEnd(o)
    \/ o \in overlooked
    \/ backend.started /\ (IsOwned(o) \/ WillBeOwned(o))

Calling == SentOnce /\ AnsweredOnce /\ Apart /\ Ran /\ TwoCalls
Linked == Numbered /\ LastWord /\ Connected /\ Inquiries
Scans == Awaited /\ Serving /\ Unbegun /\ Ended /\ Minded

ScanInv == Calling /\ Linked /\ Scans

-----------------------------------------------------------------------------
(* What the handlers do to the calls, the watchers and the sessions owned. *)

(* A call that is not the beginning of an operation. *)
Incidental(w) ==
  \/ w.kind \in {"refresh", "register"}
  \/ w.kind = "operation" /\ w.call.operation = "Discoverable"

(* A handler that stays on its connection and begins no operation. *)
Tame(s, t) ==
  /\ t \in States
  /\ t.b.started = s.b.started /\ t.b.owner = s.b.owner /\ t.b.generation = s.b.generation
  /\ s.b.watchers \subseteq t.b.watchers
  /\ \A w \in t.b.watchers \ s.b.watchers : Incidental(w)
  /\ ToSet(s.calls) \subseteq ToSet(t.calls)
  /\ \A w \in ToSet(t.calls) \ ToSet(s.calls) : w.kind = "stop" \/ Incidental(w)

(* A handler gives back the sessions on o. *)
GivesBack(s, o) == [kind |-> "stop", to |-> s.b.owner, object |-> o] \in ToSet(s.calls)

LEMMA TameOnward ==
  ASSUME NEW s, NEW t, NEW u, Tame(s, t), Tame(t, u)
  PROVE  Tame(s, u) /\ \A o : GivesBack(t, o) => GivesBack(u, o)
BY DEF Tame, GivesBack

LEMMA FieldsTame ==
  ASSUME NEW s \in States, NEW b \in Backends, NEW t, t = [s EXCEPT !.b = b],
         b.started = s.b.started, b.owner = s.b.owner, b.generation = s.b.generation,
         b.watchers = s.b.watchers
  PROVE  Tame(s, t) /\ t.b = b /\ t.calls = s.calls /\ t.emits = s.emits
<1>1. t \in States /\ t.b = b /\ t.calls = s.calls /\ t.emits = s.emits
  BY DEF States
<1> QED
  BY <1>1 DEF Tame

LEMMA WatchedTame ==
  ASSUME NEW s \in States, NEW w \in Calls, Incidental(w)
  PROVE  Tame(s, Watched(s, w)) /\ Watched(s, w).b.owned = s.b.owned
<1> DEFINE t == Watched(s, w)
<1>1. /\ t \in States /\ t.b = [s.b EXCEPT !.watchers = @ \cup {w}]
      /\ t.calls = Append(s.calls, w)
  BY WatchedDoes
<1> HIDE DEF t
<1>2. /\ t.b.started = s.b.started /\ t.b.owner = s.b.owner /\ t.b.generation = s.b.generation
      /\ t.b.owned = s.b.owned /\ t.b.watchers = s.b.watchers \cup {w}
  BY <1>1 DEF States, Backends
<1>3. ToSet(t.calls) = ToSet(s.calls) \cup {w}
  BY <1>1, SetOfAppended DEF States
<1> QED
  BY <1>1, <1>2, <1>3 DEF Tame, t

LEMMA EmitTame ==
  ASSUME NEW s \in States, NEW e \in Finishes \cup Prompts \cup Pictures
  PROVE  Tame(s, Emit(s, e)) /\ Emit(s, e).b = s.b /\ Emit(s, e).calls = s.calls
<1>1. Emit(s, e) \in States /\ Emit(s, e).b = s.b /\ Emit(s, e).calls = s.calls
  BY EmitDoes
<1> QED
  BY <1>1 DEF Tame

LEMMA RefreshTame ==
  ASSUME NEW s \in States
  PROVE  Tame(s, refresh(s)) /\ refresh(s).b.owned = s.b.owned
<1>a. CASE s.b.refreshing \/ s.b.owner = None
  BY <1>a DEF refresh, Tame
<1>b. CASE ~s.b.refreshing /\ s.b.owner # None
  <2> DEFINE w == [kind |-> "refresh", to |-> s.b.owner, generation |-> s.b.generation,
                   revision |-> s.b.revision]
             b == [s.b EXCEPT !.refreshing = TRUE]
             u == [s EXCEPT !.b = b]
  <2>1. w \in Calls /\ Incidental(w)
    BY DEF Calls, Collections, States, Backends, Incidental
  <2>2. /\ b \in Backends /\ b.started = s.b.started /\ b.owner = s.b.owner
        /\ b.generation = s.b.generation /\ b.watchers = s.b.watchers /\ b.owned = s.b.owned
    BY DEF States, Backends
  <2>3. u = [s EXCEPT !.b.refreshing = TRUE]
    BY DEF States
  <2> HIDE DEF w, b
  <2>4. Tame(s, u) /\ u.b = b
    BY <2>2, FieldsTame
  <2>5. refresh(s) = Watched(u, w)
    BY <1>b, <2>3 DEF refresh, w
  <2> HIDE DEF u
  <2>6. Tame(u, Watched(u, w)) /\ Watched(u, w).b.owned = u.b.owned
    BY <2>1, <2>4, WatchedTame DEF Tame
  <2> QED
    BY <2>2, <2>4, <2>5, <2>6, TameOnward
<1> QED
  BY <1>a, <1>b

LEMMA ChangedTame ==
  ASSUME NEW s \in States
  PROVE  Tame(s, changed(s)) /\ changed(s).b.owned = s.b.owned
<1> DEFINE b == [s.b EXCEPT !.revision = @ + 1]
           u == [s EXCEPT !.b = b]
<1>1. s.b.revision + 1 \in Nat
  BY DEF States, Backends
<1>2. /\ b \in Backends /\ b.started = s.b.started /\ b.owner = s.b.owner
      /\ b.generation = s.b.generation /\ b.watchers = s.b.watchers /\ b.owned = s.b.owned
  <2>1. PICK n \in Nat : n = s.b.revision + 1
    BY <1>1
  <2> QED
    BY <2>1 DEF States, Backends
<1>3. u = [s EXCEPT !.b.revision = @ + 1]
  BY DEF States
<1> HIDE DEF b
<1>4. Tame(s, u) /\ u.b = b
  BY <1>2, FieldsTame
<1>5. changed(s) = IF u.b.started THEN refresh(u) ELSE u
  <2>1. u.b.started = s.b.started
    BY <1>2, <1>4
  <2> HIDE DEF u
  <2> QED
    BY <1>3, <2>1 DEF changed
<1> HIDE DEF u
<1>6. Tame(u, refresh(u)) /\ refresh(u).b.owned = u.b.owned
  BY <1>4, RefreshTame DEF Tame
<1> QED
  BY <1>2, <1>4, <1>5, <1>6, TameOnward

(* StopCalls() is a call for each of the paths. *)
LEMMA StopCallsDo ==
  ASSUME NEW owner \in Owners, NEW paths \in SUBSET Objects
  PROVE  \A o \in paths : [kind |-> "stop", to |-> owner, object |-> o] \in ToSet(StopCalls(owner, paths))
<1> DEFINE order == SetToSeq(paths)
<1>1. IsFiniteSet(paths)
  BY FS_Subset, BlueZConstants
<1>2. /\ DOMAIN order = 1..Len(order)
      /\ \A o \in paths : \E i \in 1..Len(order) : order[i] = o
  BY <1>1, SequenceOf
<1>3. StopCalls(owner, paths) = [i \in DOMAIN order |-> [kind |-> "stop", to |-> owner, object |-> order[i]]]
  BY DEF StopCalls
<1> HIDE DEF order
<1> QED
  BY <1>2, <1>3 DEF ToSet

LEMMA StopsTame ==
  ASSUME NEW s \in States, NEW paths \in SUBSET Objects,
         NEW t, t = Told(s, StopCalls(s.b.owner, paths))
  PROVE  Tame(s, t) /\ t.b = s.b /\ \A o \in paths : GivesBack(t, o)
<1> DEFINE calls == StopCalls(s.b.owner, paths)
<1>1. /\ s.b.owner \in Owners /\ s.calls \in Seq(Calls \cup Stops)
  BY DEF States, Backends
<1>2. /\ calls \in Seq(Calls \cup Stops) /\ \A w \in ToSet(calls) : w.kind = "stop"
      /\ \A o \in paths : [kind |-> "stop", to |-> s.b.owner, object |-> o] \in ToSet(calls)
  BY <1>1, StopCallsTyped, StopCallsDo
<1>a. t = Told(s, calls)
  OBVIOUS
<1> HIDE DEF calls
<1>3. t \in States /\ t.b = s.b /\ t.calls = s.calls \o calls
  BY <1>2, <1>a, ToldDoes
<1>4. ToSet(t.calls) = ToSet(s.calls) \cup ToSet(calls)
  BY <1>1, <1>2, <1>3, SetOfJoined
<1> QED
  BY <1>2, <1>3, <1>4 DEF Tame, GivesBack

LEMMA WithdrawTame ==
  ASSUME NEW s \in States
  PROVE  Tame(s, withdraw(s)) /\ \A o \in s.b.owned : GivesBack(withdraw(s), o)
<1> DEFINE b == [s.b EXCEPT !.ids = NoIds, !.owned = {}]
           u == [s EXCEPT !.b = b]
           v == Told(u, StopCalls(s.b.owner, s.b.owned))
           x == setDevices(v, NoIds)
<1>0. s.b.owned \in SUBSET Objects
  BY DEF States, Backends
<1>1. /\ b \in Backends /\ b.started = s.b.started /\ b.owner = s.b.owner
      /\ b.generation = s.b.generation /\ b.watchers = s.b.watchers
  BY NoIdsTyped DEF States, Backends
<1>2. u = [s EXCEPT !.b.ids = NoIds, !.b.owned = {}]
  BY DEF States, Backends
<1>3. withdraw(s) = Emit(x, Unavailable)
  <2> HIDE DEF u
  <2> QED
    BY <1>2 DEF withdraw
<1> HIDE DEF b
<1>4. Tame(s, u) /\ u.b = b /\ u \in States
  BY <1>1, FieldsTame DEF Tame
<1> HIDE DEF u
<1>5. Tame(u, v) /\ v \in States /\ \A o \in s.b.owned : GivesBack(v, o)
  <2>1. v = Told(u, StopCalls(u.b.owner, s.b.owned))
    BY <1>1, <1>4
  <2> HIDE DEF v
  <2>2. Tame(u, v) /\ \A o \in s.b.owned : GivesBack(v, o)
    BY <1>0, <1>4, <2>1, StopsTame
  <2> QED
    BY <2>2 DEF Tame
<1> HIDE DEF v
<1>6. Tame(v, x) /\ x \in States
  <2>1. /\ x \in States /\ x.calls = v.calls
        /\ x.b = [v.b EXCEPT !.agentDevices = NoIds,
                             !.interactions = {i \in @ : i.device \in Live(NoIds)}]
    BY <1>5, SetDevicesDoes, NoIdsTyped
  <2> HIDE DEF x
  <2>2. /\ x.b.started = v.b.started /\ x.b.owner = v.b.owner
        /\ x.b.generation = v.b.generation /\ x.b.watchers = v.b.watchers
    BY <1>5, <2>1 DEF States, Backends
  <2> QED
    BY <2>1, <2>2 DEF Tame
<1> HIDE DEF x
<1>7. Tame(x, Emit(x, Unavailable))
  BY <1>6, EmitTame, UnavailableTyped
<1> HIDE DEF Unavailable
<1> QED
  BY <1>3, <1>4, <1>5, <1>6, <1>7, TameOnward

LEMMA PublishTame ==
  ASSUME NEW s \in States, NEW shot \in Worlds
  PROVE  /\ Tame(s, publish(s, shot))
         /\ publish(s, shot).b.owned = s.b.owned \ ((shot.present \cap Adapters) \ shot.powered)
<1> DEFINE adapters == shot.present \cap Adapters
           devices == {d \in shot.present \cap Devices : AdapterOf[d] \in adapters}
           live == adapters \cup devices
           ids == [o \in Objects |-> IF o \in live THEN idFor(s.b, o) ELSE None]
           minted == [o \in Objects |-> IF o \in live /\ s.b.ids[o] = None
                                        THEN s.b.minted[o] + 1 ELSE s.b.minted[o]]
           known == [o \in Objects |-> IF o \in devices THEN ids[o] ELSE None]
           owned == s.b.owned \ (adapters \ shot.powered)
           b == [s.b EXCEPT !.ids = ids, !.minted = minted, !.adapters = adapters,
                            !.devices = devices, !.owned = owned]
           kept == [s EXCEPT !.b = b]
           e == [signal |-> "snapshotChanged", available |-> TRUE, ids |-> ids,
                 listed |-> Live(ids), world |-> shot]
           x == setDevices(kept, known)
<1>0. /\ s.b \in Backends /\ s.b.owned \in SUBSET Objects
      /\ s.b.ids \in [Objects -> Ids] /\ s.b.minted \in [Objects -> Nat]
      /\ shot.present \in SUBSET Objects
  BY DEF States, Backends, Worlds
<1>1. publish(s, shot) = Emit(x, e)
  <2>1. kept = [s EXCEPT !.b.ids = ids, !.b.minted = minted, !.b.adapters = adapters,
                         !.b.devices = devices, !.b.owned = @ \ (adapters \ shot.powered)]
    <3> HIDE DEF ids, minted, adapters, devices
    <3> QED
      BY <1>0 DEF States, Backends
  <2> HIDE DEF kept
  <2> QED
    BY <2>1 DEF publish
<1>2. adapters \in SUBSET Objects /\ devices \in SUBSET Objects /\ owned \in SUBSET Objects
  BY <1>0 DEF Objects
<1>3. owned = s.b.owned \ ((shot.present \cap Adapters) \ shot.powered)
  OBVIOUS
<1> HIDE DEF live, adapters, devices, owned
<1>4. ids \in [Objects -> Ids] /\ minted \in [Objects -> Nat]
  <2>1. \A o \in Objects : s.b.ids[o] \in Ids /\ s.b.minted[o] \in Nat /\ s.b.minted[o] + 1 \in Nat
    BY <1>0
  <2>2. \A o \in Objects : idFor(s.b, o) \in Ids
    BY <2>1 DEF idFor, Ids
  <2>3. None \in Ids
    BY DEF Ids
  <2> QED
    BY <2>1, <2>2, <2>3
<1> HIDE DEF ids, minted
<1>5. known \in [Objects -> Ids]
  BY <1>4 DEF Ids
<1> HIDE DEF known
<1>6. e \in Pictures
  <2>1. Live(ids) \in SUBSET Ids
    BY <1>4 DEF Live
  <2> QED
    BY <1>4, <2>1 DEF Pictures
<1> HIDE DEF e
<1>7. /\ b \in Backends /\ b.started = s.b.started /\ b.owner = s.b.owner
      /\ b.generation = s.b.generation /\ b.watchers = s.b.watchers /\ b.owned = owned
  BY <1>0, <1>2, <1>4 DEF Backends
<1> HIDE DEF b
<1>8. Tame(s, kept) /\ kept.b = b /\ kept \in States
  BY <1>7, FieldsTame DEF Tame
<1> HIDE DEF kept
<1>9. Tame(kept, x) /\ x \in States /\ x.b.owned = owned
  <2>1. /\ x \in States /\ x.calls = kept.calls
        /\ x.b = [kept.b EXCEPT !.agentDevices = known,
                                !.interactions = {i \in @ : i.device \in Live(known)}]
    BY <1>5, <1>8, SetDevicesDoes
  <2> HIDE DEF x
  <2>2. /\ x.b.started = kept.b.started /\ x.b.owner = kept.b.owner /\ x.b.owned = kept.b.owned
        /\ x.b.generation = kept.b.generation /\ x.b.watchers = kept.b.watchers
    BY <1>8, <2>1 DEF States, Backends
  <2> QED
    BY <1>7, <1>8, <2>1, <2>2 DEF Tame
<1> HIDE DEF x
<1>10. Tame(x, Emit(x, e)) /\ Emit(x, e).b = x.b
  BY <1>6, <1>9, EmitTame
<1> QED
  BY <1>1, <1>3, <1>8, <1>9, <1>10, TameOnward

(* refreshReply() loses no session but one on an adapter that the snapshot     *)
(* shows without power.                                                       *)
LEMMA RefreshReplyTame ==
  ASSUME NEW s \in States, NEW m \in Replies
  PROVE  LET t == refreshReply(s, m.watcher, m.error # "none", m.world)
         IN /\ Tame(s, t)
            /\ \A o \in s.b.owned :
                 \/ o \in t.b.owned \/ GivesBack(t, o)
                 \/ m.error = "none" /\ o \in m.world.present \ m.world.powered
<1> DEFINE b == [s.b EXCEPT !.refreshing = FALSE]
           idle == [s EXCEPT !.b = b]
           t == refreshReply(s, m.watcher, m.error # "none", m.world)
<1>1. /\ b \in Backends /\ b.started = s.b.started /\ b.owner = s.b.owner
      /\ b.generation = s.b.generation /\ b.watchers = s.b.watchers /\ b.owned = s.b.owned
  BY DEF States, Backends
<1>2. idle = [s EXCEPT !.b.refreshing = FALSE]
  BY DEF States
<1> HIDE DEF b
<1>3. Tame(s, idle) /\ idle.b = b /\ idle \in States
  BY <1>1, FieldsTame DEF Tame
<1>4. \/ t = refresh(idle) \/ t = withdraw(idle)
      \/ m.error = "none" /\ t = publish(idle, m.world)
  <2> HIDE DEF idle
  <2> QED
    BY <1>2 DEF refreshReply
<1> HIDE DEF idle, t
<1>5. CASE t = refresh(idle)
  BY <1>1, <1>3, <1>5, RefreshTame, TameOnward DEF t
<1>6. CASE t = withdraw(idle)
  BY <1>1, <1>3, <1>6, WithdrawTame, TameOnward DEF t
<1>7. CASE m.error = "none" /\ t = publish(idle, m.world)
  <2>1. m.world \in Worlds
    BY <1>7, ReplyTyped
  <2> QED
    BY <1>1, <1>3, <1>7, <2>1, PublishTame, TameOnward DEF t
<1> QED
  BY <1>4, <1>5, <1>6, <1>7

(* The answers to an operation: a StopDiscovery that succeeded ends the        *)
(* session, a StartDiscovery that did is owned, or given back at once.        *)
LEMMA FirstReplyTame ==
  ASSUME NEW s \in States, NEW w \in Orders, w.call.operation = "Discoverable",
         NEW error \in {"none", "Upstream"}
  PROVE  Tame(s, timeoutReply(s, w, error)) /\ timeoutReply(s, w, error).b.owned = s.b.owned
<1> DEFINE x == OperationCall(s.b, w.call, "set")
<1>1. /\ s.b \in Backends /\ w.call \in Requests /\ error \in Results /\ "Disappeared" \in Results
      /\ "set" \in {"timeout", "set", "only"}
  BY DEF States, Orders, Results
<1>2. /\ Finished(w.call, error) \in Finishes /\ Finished(w.call, "Disappeared") \in Finishes
      /\ x \in Calls
  BY <1>1, OperationTyped
<1>3. Incidental(x)
  BY DEF Incidental, OperationCall
<1> HIDE DEF x
<1>4. /\ Tame(s, Emit(s, Finished(w.call, error))) /\ Emit(s, Finished(w.call, error)).b = s.b
      /\ Tame(s, Emit(s, Finished(w.call, "Disappeared")))
      /\ Emit(s, Finished(w.call, "Disappeared")).b = s.b
  BY <1>2, EmitTame
<1>5. Tame(s, Watched(s, x)) /\ Watched(s, x).b.owned = s.b.owned
  BY <1>2, <1>3, WatchedTame
<1> QED
  BY <1>4, <1>5 DEF timeoutReply, x

LEMMA ReportTame ==
  ASSUME NEW s \in States, NEW e \in Finishes
  PROVE  Tame(s, changed(Emit(s, e))) /\ changed(Emit(s, e)).b.owned = s.b.owned
<1> DEFINE t == Emit(s, e)
<1>1. Tame(s, t) /\ t.b = s.b /\ t \in States
  BY EmitTame DEF Tame
<1> HIDE DEF t
<1>2. Tame(t, changed(t)) /\ changed(t).b.owned = t.b.owned
  BY <1>1, ChangedTame
<1> QED
  BY <1>1, <1>2, TameOnward DEF t

LEMMA OnlyReplyTame ==
  ASSUME NEW s \in States, NEW w \in Orders, NEW error \in {"none", "Upstream"}
  PROVE  LET t == onlyReply(s, w, error)
         IN /\ Tame(s, t)
            /\ \A o \in s.b.owned :
                 \/ o \in t.b.owned
                 \/ error = "none" /\ w.call.operation = "StopDiscovery" /\ w.object = o
            /\ error = "none" /\ w.call.operation = "StartDiscovery" =>
                 w.object \in t.b.owned \/ GivesBack(t, w.object)
<1> DEFINE t == onlyReply(s, w, error)
           starting == IF w.call.operation \in Discovery THEN s.b.starting \ {w.object}
                       ELSE s.b.starting
           b == [s.b EXCEPT !.starting = starting]
           answered == [s EXCEPT !.b = b]
           owned == OwnedAfter(s.b.owned, w, error)
           interactions == IF w.call.operation = "Pair" THEN {} ELSE s.b.interactions
           c == [b EXCEPT !.owned = owned, !.interactions = interactions]
           settled == [answered EXCEPT !.b = c]
           e == Finished(w.call, error)
           gone == error = "none" /\ w.call.operation = "StartDiscovery"
<1>0. /\ s.b \in Backends /\ w.call \in Requests /\ w.object \in Objects /\ error \in Results
      /\ s.b.starting \in SUBSET Objects /\ s.b.owned \in SUBSET Objects
      /\ interactions \in SUBSET [device : Ids, number : Nat]
  BY DEF States, Backends, Orders, Results
<1>1. /\ starting \in SUBSET Objects /\ owned \in SUBSET Objects
      /\ \A o \in s.b.owned : o \in owned \/
           (error = "none" /\ w.call.operation = "StopDiscovery" /\ w.object = o)
      /\ gone => w.object \in owned
  BY <1>0 DEF OwnedAfter
<1>2. \/ t = Told(answered, StopCalls(s.b.owner, {w.object}))
      \/ ~gone /\ t = Told(answered, <<>>)
      \/ t = changed(Emit(settled, e))
  <2>1. answered = [s EXCEPT !.b.starting = IF w.call.operation \in Discovery
                                           THEN @ \ {w.object} ELSE @]
        /\ answered.b = b
    BY <1>0 DEF States, Backends
  <2>2. b.owned = s.b.owned /\ b.interactions = s.b.interactions
    BY <1>0 DEF States, Backends
  <2>3. [answered EXCEPT !.b.owned = OwnedAfter(@, w, error),
                         !.b.interactions = IF w.call.operation = "Pair" THEN {} ELSE @] = settled
    <3>1. answered \in [b : {b}, calls : {s.calls}, emits : {s.emits}]
      BY <1>0 DEF States
    <3>2. /\ OwnedAfter(answered.b.owned, w, error) = owned
          /\ (IF w.call.operation = "Pair" THEN {} ELSE answered.b.interactions) = interactions
      BY <2>1, <2>2
    <3>3. [answered EXCEPT !.b.owned = owned, !.b.interactions = interactions] = settled
      <4> HIDE DEF answered, b, owned, interactions
      <4> QED
        BY <3>1
    <3> QED
      BY <3>2, <3>3
  <2> HIDE DEF settled, answered
  <2> QED
    BY <2>1, <2>3 DEF onlyReply
<1> HIDE DEF starting, owned, interactions, gone
<1>3. /\ b \in Backends /\ b.started = s.b.started /\ b.owner = s.b.owner
      /\ b.generation = s.b.generation /\ b.watchers = s.b.watchers /\ b.owned = s.b.owned
  BY <1>0, <1>1 DEF Backends
<1>4. /\ c \in Backends /\ c.started = b.started /\ c.owner = b.owner
      /\ c.generation = b.generation /\ c.watchers = b.watchers /\ c.owned = owned
  <2> HIDE DEF b
  <2> QED
    BY <1>0, <1>1, <1>3 DEF Backends
<1> HIDE DEF b, c
<1>5. Tame(s, answered) /\ answered \in States /\ answered.b = b
  BY <1>3, FieldsTame DEF Tame
<1> HIDE DEF answered
<1>6. Tame(answered, settled) /\ settled \in States /\ settled.b = c
  BY <1>4, <1>5, FieldsTame DEF Tame
<1> HIDE DEF settled
<1>7. e \in Finishes
  BY <1>0, OperationTyped
<1> HIDE DEF e, t
<1>8. CASE t = Told(answered, StopCalls(s.b.owner, {w.object}))
  <2>1. {w.object} \in SUBSET Objects /\ s.b.owner = answered.b.owner
    BY <1>0, <1>3, <1>5
  <2>2. Tame(answered, t) /\ t.b = answered.b /\ GivesBack(t, w.object)
    BY <1>5, <1>8, <2>1, StopsTame
  <2> QED
    BY <1>3, <1>5, <2>2, TameOnward DEF t
<1>9. CASE ~gone /\ t = Told(answered, <<>>)
  <2>1. <<>> \in Seq(Calls \cup Stops) /\ answered.calls \in Seq(Calls \cup Stops)
    BY <1>5 DEF States
  <2>2. t \in States /\ t.b = answered.b /\ t.calls = answered.calls
    <3>1. answered.calls \o <<>> = answered.calls
      BY <2>1
    <3> QED
      BY <1>5, <1>9, <2>1, <3>1, ToldDoes
  <2>3. Tame(answered, t)
    BY <2>2 DEF Tame
  <2> QED
    BY <1>3, <1>5, <1>9, <2>2, <2>3, TameOnward DEF t, gone
<1>10. CASE t = changed(Emit(settled, e))
  <2>1. Tame(settled, t) /\ t.b.owned = settled.b.owned
    BY <1>6, <1>7, <1>10, ReportTame
  <2> QED
    BY <1>1, <1>4, <1>5, <1>6, <2>1, TameOnward DEF t, gone
<1> QED
  BY <1>2, <1>8, <1>9, <1>10

LEMMA RemovedTame ==
  ASSUME NEW s \in States, NEW o \in Objects
  PROVE  /\ Tame(s, interfacesRemoved(s, o))
         /\ interfacesRemoved(s, o).b.owned = s.b.owned \ {o}
<1> DEFINE children == IF o \in Adapters THEN s.b.devices \cap DevicesOn(o) ELSE {}
           ids == [p \in Objects |-> IF p \in children \cup {o} THEN None ELSE s.b.ids[p]]
           b == [s.b EXCEPT !.ids = ids, !.owned = @ \ {o}, !.starting = @ \ {o}]
           u == [s EXCEPT !.b = b]
<1>0. s.b \in Backends /\ s.b.ids \in [Objects -> Ids]
  BY DEF States, Backends
<1>1. interfacesRemoved(s, o) = changed(u)
  BY <1>0 DEF interfacesRemoved, States, Backends
<1>2. ids \in [Objects -> Ids]
  BY <1>0 DEF Ids
<1> HIDE DEF ids
<1>3. /\ b \in Backends /\ b.started = s.b.started /\ b.owner = s.b.owner
      /\ b.generation = s.b.generation /\ b.watchers = s.b.watchers /\ b.owned = s.b.owned \ {o}
  BY <1>0, <1>2 DEF Backends
<1> HIDE DEF b
<1>4. Tame(s, u) /\ u.b = b /\ u \in States
  BY <1>3, FieldsTame DEF Tame
<1> HIDE DEF u
<1> QED
  BY <1>1, <1>3, <1>4, ChangedTame, TameOnward

LEMMA RequestTame ==
  ASSUME NEW q, Base(Idle, q), NEW o \in Objects, spent.agentCalls \in Nat
  PROVE  /\ Tame(Idle, agentRequest(Idle, o))
         /\ agentRequest(Idle, o).b.owned = backend.owned
<1> DEFINE known == backend.agentDevices[o] # None
           id == IF known THEN backend.agentDevices[o] ELSE idFor(backend, o)
           s == Reserves(o, idFor(backend, o))
           reserved == IF known THEN Idle ELSE changed(s)
           interactions == reserved.b.interactions \cup {[device |-> id, number |-> spent.agentCalls]}
           b == [reserved.b EXCEPT !.interactions = interactions]
           u == [reserved EXCEPT !.b = b]
           e == [signal |-> "agentRequested", device |-> id]
<1>0. /\ Idle \in States /\ backend \in Backends /\ Idle.b = backend
      /\ backend.agentDevices \in [Objects -> Ids]
  BY IdleDoes DEF Base, States, Backends
<1>1. agentRequest(Idle, o) = Emit([reserved EXCEPT !.b.interactions =
                                      @ \cup {[device |-> id, number |-> spent.agentCalls]}], e)
  <2>1. CASE known
    BY <2>1, IdleDoes DEF agentRequest
  <2>2. CASE ~known
    <3>1. id = idFor(Idle.b, o)
      BY <2>2, IdleDoes
    <3>2. reserved = changed(Reserves(o, id))
      BY <2>2
    <3> HIDE DEF reserved
    <3>3. Idle.b.agentDevices[o] = None
      BY <2>2, IdleDoes
    <3> QED
      BY <3>1, <3>2, <3>3 DEF agentRequest, Reserves
  <2> QED
    BY <2>1, <2>2
<1>2. /\ s \in States /\ Tame(Idle, s) /\ s.b.owned = backend.owned /\ idFor(backend, o) \in Ids
  <2>1. PICK x, n : x = idFor(backend, o) /\ Reserved(s, o, x, n)
    BY <1>0, ReservedDoes
  <2> HIDE DEF s
  <2>2. s.calls = Idle.calls
    BY <2>1, IdleDoes DEF Reserved
  <2> QED
    BY <1>0, <2>1, <2>2 DEF Reserved, Tame
<1> HIDE DEF s
<1>3. /\ Tame(Idle, reserved) /\ reserved \in States /\ reserved.b.owned = backend.owned
      /\ id \in Ids
  <2>1. Tame(Idle, Idle)
    BY <1>0 DEF Tame
  <2>2. Tame(Idle, changed(s)) /\ changed(s) \in States /\ changed(s).b.owned = backend.owned
    BY <1>2, ChangedTame, TameOnward DEF Tame
  <2> QED
    BY <1>0, <1>2, <2>1, <2>2
<1> HIDE DEF known, id, reserved
<1>4. interactions \in SUBSET [device : Ids, number : Nat]
  BY <1>3 DEF States, Backends
<1>5. u = [reserved EXCEPT !.b.interactions = @ \cup {[device |-> id, number |-> spent.agentCalls]}]
  BY <1>3 DEF States
<1> HIDE DEF interactions
<1>6. /\ b \in Backends /\ b.started = reserved.b.started /\ b.owner = reserved.b.owner
      /\ b.generation = reserved.b.generation /\ b.watchers = reserved.b.watchers
      /\ b.owned = reserved.b.owned
  BY <1>3, <1>4 DEF States, Backends
<1> HIDE DEF b
<1>7. Tame(reserved, u) /\ u.b = b /\ u \in States
  BY <1>3, <1>6, FieldsTame DEF Tame
<1> HIDE DEF u
<1>8. e \in Prompts
  BY <1>3 DEF Prompts
<1> HIDE DEF e
<1>9. Tame(u, Emit(u, e)) /\ Emit(u, e).b = u.b
  BY <1>7, <1>8, EmitTame
<1> QED
  BY <1>1, <1>3, <1>5, <1>6, <1>7, <1>9, TameOnward

(* setOwner(): nothing of the old connection is owned on the new one. *)
LEMMA OwnerDoes ==
  ASSUME NEW s \in States, NEW new \in Owners
  PROVE  LET t == setOwner(s, new)
         IN /\ t \in States
            /\ t.b.started = s.b.started /\ t.b.owner = new
            /\ t.b.generation = s.b.generation + 1
            /\ s.b.watchers \subseteq t.b.watchers
            /\ \A w \in t.b.watchers \ s.b.watchers : Incidental(w)
            /\ ToSet(s.calls) \subseteq ToSet(t.calls)
            /\ \A w \in ToSet(t.calls) \ ToSet(s.calls) : w.kind = "stop" \/ Incidental(w)
<1> DEFINE reset == [s.b EXCEPT !.generation = @ + 1, !.revision = @ + 1, !.refreshing = FALSE,
                           !.registered = FALSE, !.owner = new, !.ids = NoIds,
                           !.adapters = {}, !.devices = {}, !.owned = {}, !.starting = {},
                           !.interactions = {}]
           cleared == [s EXCEPT !.b = reset]
           lost == Emit(cleared, Unavailable)
           w == [kind |-> "register", to |-> new, generation |-> lost.b.generation]
           v == Watched(lost, w)
<1>1. s.b \in Backends /\ s.b.revision + 1 \in Nat /\ s.b.generation + 1 \in Nat
  BY DEF States, Backends
<1>2. setOwner(s, new) = IF new = None THEN lost ELSE refresh(v)
  BY DEF setOwner
<1>3. /\ reset \in Backends /\ reset.started = s.b.started /\ reset.owner = new
      /\ reset.generation = s.b.generation + 1 /\ reset.watchers = s.b.watchers
  <2>1. PICK g \in Nat : g = s.b.generation + 1
    BY <1>1
  <2>2. PICK n \in Nat : n = s.b.revision + 1
    BY <1>1
  <2>3. reset = [s.b EXCEPT !.generation = g, !.revision = n, !.refreshing = FALSE,
                           !.registered = FALSE, !.owner = new, !.ids = NoIds,
                           !.adapters = {}, !.devices = {}, !.owned = {}, !.starting = {},
                           !.interactions = {}]
    BY <2>1, <2>2
  <2> HIDE DEF reset
  <2> QED
    BY <1>1, <2>1, <2>3, NoIdsTyped DEF Backends
<1> HIDE DEF reset
<1>4. cleared \in States /\ cleared.b = reset /\ cleared.calls = s.calls
  BY <1>3 DEF States
<1> HIDE DEF cleared
<1>5. lost \in States /\ lost.b = reset /\ lost.calls = s.calls
  BY <1>4, EmitDoes, UnavailableTyped
<1> HIDE DEF lost
<1>6. w \in Calls /\ Incidental(w)
  BY <1>1, <1>3, <1>5 DEF Calls, Queries, Incidental
<1> HIDE DEF w
<1>7. Tame(lost, v) /\ v \in States
  BY <1>5, <1>6, WatchedTame DEF Tame
<1> HIDE DEF v
<1>8. Tame(lost, refresh(v))
  BY <1>7, RefreshTame, TameOnward
<1>9. Tame(lost, lost)
  BY <1>5 DEF Tame
<1> HIDE DEF Tame
<1>10. Tame(lost, setOwner(s, new))
  BY <1>2, <1>8, <1>9
<1> QED
  BY <1>3, <1>5, <1>10 DEF Tame

(* A message that leaves the connection as it is. *)
Heeds(m, s) ==
  /\ s \in States
  /\ s.b.started = backend.started /\ s.b.owner = backend.owner
  /\ s.b.generation = backend.generation
  /\ \A w \in backend.watchers : w \in s.b.watchers \/ (m.kind = "reply" /\ m.watcher = w)
  /\ \A w \in s.b.watchers \ backend.watchers : Incidental(w)
  /\ \A w \in ToSet(s.calls) : w.kind = "stop" \/ Incidental(w)
  /\ \A o \in backend.owned : o \in s.b.owned \/ GivesBack(s, o) \/ Drops(m, o)
  /\ \A w \in backend.watchers :
       /\ m.kind = "reply" /\ m.watcher = w /\ m.error = "none"
       /\ IsStart(w) /\ w.generation = backend.generation
       => w.object \in s.b.owned \/ GivesBack(s, w.object)

(* A message that says who owns the name. *)
Switches(m, s) ==
  /\ s \in States
  /\ backend.started /\ s.b.started /\ s.b.owner = m.owner
  /\ s.b.generation = backend.generation + 1
  /\ \A w \in s.b.watchers \ backend.watchers : Incidental(w)
  /\ \A w \in ToSet(s.calls) : w.kind = "stop" \/ Incidental(w)
  /\ \/ m.kind = "owner"
     \/ /\ m.kind = "reply" /\ m.watcher \in backend.watchers
        /\ m.watcher.kind = "owner" /\ m.watcher.generation = backend.generation

LEMMA RepliedDoes ==
  ASSUME Idle \in States, TwoCalls, NEW m \in Replies
  PROVE  Heeds(m, replied(Idle, m)) \/ Switches(m, replied(Idle, m))
<1> DEFINE w == m.watcher
           b == [backend EXCEPT !.watchers = @ \ {w}]
           t == [Idle EXCEPT !.b = b]
           s == replied(Idle, m)
           ok == (m.error = "none")
           bad == m.error # "none"
<1>0. /\ backend \in Backends /\ Idle.b = backend /\ ToSet(Idle.calls) = {}
      /\ w \in Calls /\ m.kind = "reply" /\ m.error \in {"none", "Upstream"} /\ m.owner \in Owners
  BY ReplyTyped, IdleDoes DEF States, ToSet
<1>1. /\ b \in Backends /\ b.watchers = backend.watchers \ {w} /\ b.owned = backend.owned
      /\ b.started = backend.started /\ b.owner = backend.owner
      /\ b.generation = backend.generation
  BY <1>0 DEF Backends
<1>2. t = [Idle EXCEPT !.b.watchers = @ \ {w}]
  BY <1>0 DEF States
<1> HIDE DEF b
<1>3. t \in States /\ t.b = b /\ t.calls = Idle.calls
  BY <1>1 DEF States
<1> HIDE DEF t
<1>5. s = IF w \notin backend.watchers THEN Idle
          ELSE IF w.generation # backend.generation THEN t
          ELSE CASE w.kind = "owner" -> IF backend.started THEN setOwner(t, m.owner) ELSE t
                 [] w.kind = "register" -> [t EXCEPT !.b.registered = ok]
                 [] w.kind = "refresh" -> refreshReply(t, w, bad, m.world)
                 [] w.kind = "operation" /\ w.step = "timeout" -> timeoutReply(t, w, m.error)
                 [] w.kind = "operation" /\ w.step = "set" -> setReply(t, w, m.error)
                 [] w.kind = "operation" /\ w.step = "only" -> onlyReply(t, w, m.error)
  BY <1>0, <1>2 DEF replied
<1>4. ok \in BOOLEAN
  OBVIOUS
<1> HIDE DEF s, ok, bad
<1>6. ASSUME Tame(t, s),
             \A o \in t.b.owned : o \in s.b.owned \/ GivesBack(s, o) \/ Drops(m, o),
             w \in backend.watchers /\ m.error = "none" /\ IsStart(w) /\ w.generation = backend.generation =>
               w.object \in s.b.owned \/ GivesBack(s, w.object)
      PROVE  Heeds(m, s)
  BY <1>0, <1>1, <1>3, <1>6 DEF Tame, Heeds
<1>7. Tame(t, t)
  BY <1>3 DEF Tame
<1>a. CASE w \notin backend.watchers
  <2>1. s = Idle
    BY <1>5, <1>a
  <2> QED
    BY <1>0, <1>a, <2>1 DEF Heeds, s
<1>b. CASE w \in backend.watchers /\ w.generation # backend.generation
  <2>1. s = t
    BY <1>5, <1>b
  <2> QED
    BY <1>1, <1>3, <1>6, <1>7, <1>b, <2>1 DEF s
<1>c. CASE w \in backend.watchers /\ w.generation = backend.generation /\ w.kind = "owner"
  <2>1. CASE ~backend.started
    <3>1. s = t
      BY <1>5, <1>c, <2>1
    <3> QED
      BY <1>1, <1>3, <1>6, <1>7, <1>c, <3>1 DEF IsStart, s
  <2>2. CASE backend.started
    <3>1. s = setOwner(t, m.owner)
      BY <1>5, <1>c, <2>2
    <3>2. /\ s \in States /\ s.b.started = t.b.started /\ s.b.owner = m.owner
          /\ s.b.generation = t.b.generation + 1
          /\ \A x \in s.b.watchers \ t.b.watchers : Incidental(x)
          /\ \A x \in ToSet(s.calls) \ ToSet(t.calls) : x.kind = "stop" \/ Incidental(x)
      BY <1>0, <1>3, <3>1, OwnerDoes
    <3> QED
      BY <1>0, <1>1, <1>3, <1>c, <2>2, <3>2 DEF Switches, s
  <2> QED
    BY <2>1, <2>2 DEF s
<1>d. CASE w \in backend.watchers /\ w.generation = backend.generation /\ w.kind = "register"
  <2> DEFINE c == [b EXCEPT !.registered = ok]
             u == [t EXCEPT !.b = c]
  <2>2. /\ c \in Backends /\ c.started = b.started /\ c.owner = b.owner
        /\ c.generation = b.generation /\ c.watchers = b.watchers /\ c.owned = b.owned
    BY <1>1, <1>4 DEF Backends
  <2>3. u = [t EXCEPT !.b.registered = ok]
    BY <1>3 DEF States
  <2> HIDE DEF c
  <2>4. Tame(t, u) /\ u.b.owned = t.b.owned
    BY <1>3, <2>2, FieldsTame
  <2> HIDE DEF u
  <2>5. s = u
    BY <1>5, <1>d, <2>3
  <2> QED
    BY <1>6, <1>d, <2>4, <2>5 DEF IsStart, s
<1>e. CASE w \in backend.watchers /\ w.generation = backend.generation /\ w.kind = "refresh"
  <2>1. s = refreshReply(t, m.watcher, bad, m.world)
    BY <1>5, <1>e
  <2>2. /\ Tame(t, s)
        /\ \A o \in t.b.owned : \/ o \in s.b.owned \/ GivesBack(s, o)
                                \/ m.error = "none" /\ o \in m.world.present \ m.world.powered
    BY <1>3, <2>1, RefreshReplyTame DEF bad
  <2> QED
    BY <1>0, <1>6, <1>e, <2>2 DEF Drops, IsStart, s
<1>f. CASE w \in backend.watchers /\ w.generation = backend.generation /\ w.kind = "operation"
  <2>1. w \in Orders /\ w.step \in {"timeout", "set", "only"} /\ w.call \in Requests
    BY <1>0, <1>f, CallKinds DEF Orders
  <2>2. w.step # "only" => w.call.operation = "Discoverable"
    BY <1>f DEF TwoCalls
  <2>3. CASE w.step = "timeout"
    <3>1. s = timeoutReply(t, w, m.error)
      BY <1>5, <1>f, <2>3
    <3>2. Tame(t, s) /\ s.b.owned = t.b.owned
      BY <1>0, <1>3, <2>1, <2>2, <2>3, <3>1, FirstReplyTame
    <3> QED
      BY <1>6, <2>2, <2>3, <3>2 DEF IsStart, s
  <2>4. CASE w.step = "set"
    <3>1. s = setReply(t, w, m.error)
      BY <1>5, <1>f, <2>4
    <3>2. Finished(w.call, m.error) \in Finishes
      <4>1. m.error \in Results /\ "set" \in {"timeout", "set", "only"} /\ t.b \in Backends
        BY <1>0, <1>1, <1>3 DEF Results
      <4> QED
        BY <2>1, <4>1, OperationTyped
    <3>3. Tame(t, s) /\ s.b.owned = t.b.owned
      BY <1>3, <3>1, <3>2, ReportTame DEF setReply
    <3> QED
      BY <1>6, <2>2, <2>4, <3>3 DEF IsStart, s
  <2>5. CASE w.step = "only"
    <3>1. s = onlyReply(t, w, m.error)
      BY <1>5, <1>f, <2>5
    <3>2. /\ Tame(t, s)
          /\ \A o \in t.b.owned :
               \/ o \in s.b.owned
               \/ m.error = "none" /\ w.call.operation = "StopDiscovery" /\ w.object = o
          /\ m.error = "none" /\ w.call.operation = "StartDiscovery" =>
               w.object \in s.b.owned \/ GivesBack(s, w.object)
      BY <1>0, <1>3, <2>1, <3>1, OnlyReplyTame
    <3> QED
      BY <1>0, <1>6, <1>f, <3>2 DEF Drops, IsStart, s
  <2> QED
    BY <2>1, <2>3, <2>4, <2>5
<1> QED
  BY <1>0, <1>a, <1>b, <1>c, <1>d, <1>e, <1>f, CallKinds DEF s

LEMMA DeliveredDoes ==
  ASSUME NEW q, Base(Idle, q), TwoCalls, spent.agentCalls \in Nat, NEW m \in Messages
  PROVE  Heeds(m, delivered(Idle, m)) \/ Switches(m, delivered(Idle, m))
<1> DEFINE s == delivered(Idle, m)
<1>0. /\ Idle \in States /\ backend \in Backends /\ Idle.b = backend /\ ToSet(Idle.calls) = {}
  BY IdleDoes DEF Base, States, ToSet
<1>1. ASSUME Tame(Idle, s), m.kind # "reply",
             \A o \in backend.owned : o \in s.b.owned \/ GivesBack(s, o) \/ Drops(m, o)
      PROVE  Heeds(m, s)
  BY <1>0, <1>1 DEF Tame, Heeds
<1>2. Tame(Idle, Idle)
  BY <1>0 DEF Tame
<1>a. CASE m.kind = "reply"
  <2>1. m \in Replies /\ s = replied(Idle, m)
    BY <1>a, MessageKinds DEF delivered
  <2> QED
    BY <1>0, <2>1, RepliedDoes
<1>b. CASE m.kind = "owner"
  <2>1. CASE backend.started
    <3>1. s = setOwner(Idle, m.owner) /\ m.owner \in Owners
      BY <1>b, <2>1, IdleDoes, MessageKinds DEF delivered, OwnerSignals
    <3> HIDE DEF s
    <3>2. /\ s \in States /\ s.b.started = Idle.b.started /\ s.b.owner = m.owner
          /\ s.b.generation = Idle.b.generation + 1
          /\ \A x \in s.b.watchers \ Idle.b.watchers : Incidental(x)
          /\ \A x \in ToSet(s.calls) \ ToSet(Idle.calls) : x.kind = "stop" \/ Incidental(x)
      BY <1>0, <3>1, OwnerDoes
    <3> QED
      BY <1>0, <1>b, <2>1, <3>2 DEF Switches, s
  <2>2. CASE ~backend.started
    <3>1. s = Idle
      BY <1>b, <2>2, IdleDoes DEF delivered
    <3> QED
      BY <1>0, <1>1, <1>2, <1>b, <3>1
  <2> QED
    BY <2>1, <2>2
<1>c. CASE m.kind \in {"changed", "removed", "agent"} /\ (~backend.started \/ m.from # backend.owner)
  <2>1. s = Idle
    BY <1>c, IdleDoes DEF delivered
  <2> QED
    BY <1>0, <1>1, <1>2, <1>c, <2>1
<1>d. CASE m.kind = "changed" /\ backend.started /\ m.from = backend.owner
  <2>1. s = changed(Idle)
    BY <1>d, IdleDoes DEF delivered
  <2> QED
    BY <1>0, <1>1, <1>d, <2>1, ChangedTame
<1>e. CASE m.kind = "removed" /\ backend.started /\ m.from = backend.owner
  <2>1. s = interfacesRemoved(Idle, m.object) /\ m.object \in Objects
    BY <1>e, IdleDoes, MessageKinds DEF delivered, RemovalSignals
  <2> QED
    BY <1>0, <1>1, <1>e, <2>1, RemovedTame DEF Drops
<1>f. CASE m.kind = "agent" /\ backend.started /\ m.from = backend.owner
  <2>1. s = agentRequest(Idle, m.object) /\ m.object \in Objects
    BY <1>f, IdleDoes, MessageKinds DEF delivered, AgentCalls
  <2> QED
    BY <1>0, <1>1, <1>f, <2>1, RequestTame
<1> QED
  BY <1>a, <1>b, <1>c, <1>d, <1>e, <1>f, MessageKinds

-----------------------------------------------------------------------------
(* Steps that leave the discovery calls where they are. *)

(* The invariant is enough. *)
LEMMA ScansAreMinded ==
  ASSUME IInv, ScanInv
  PROVE  NoOrphanScan
<1>1. Serving /\ Minded /\ wire \in Seq(Messages) /\ sent \in Seq(Calls \cup Stops)
  BY DEF ScanInv, Scans, IInv, Types, Session, Sound, Base
<1> SUFFICES ASSUME ~DiscoveryTravels, NEW o \in scanning
             PROVE  o \in backend.owned \cup overlooked
  BY DEF NoOrphanScan
<1>2. ~WillEnd(o)
  <2> SUFFICES ASSUME NEW c \in ToSet(sent), c.kind = "stop"
               PROVE  FALSE
    BY DEF WillEnd, IsStop
  <2> QED
    BY DEF DiscoveryTravels, ToSet
<1>3. ~WillBeOwned(o)
  <2> SUFFICES ASSUME NEW k \in 1..Len(wire), Acquires(wire[k], o)
               PROVE  FALSE
    BY DEF WillBeOwned
  <2>1. k \in DOMAIN wire
    BY <1>1
  <2> QED
    BY <2>1 DEF DiscoveryTravels, Discovery, Acquires, IsStart
<1> QED
  BY <1>1, <1>2, <1>3 DEF Minded, IsOwned

(* What the invariant reads of the backend, and of the bus and the daemon. *)
SameSession ==
  /\ backend'.started = backend.started /\ backend'.owner = backend.owner
  /\ backend'.generation = backend.generation /\ backend'.watchers = backend.watchers
  /\ backend'.owned = backend.owned

LEMMA SessionScans ==
  ASSUME ScanInv, SameSession, Ran', UNCHANGED <<busVars, overlooked>>
  PROVE  ScanInv'
<1>1. UNCHANGED <<wire, sent, held, instance, world, scanning, spent, overlooked>>
  BY DEF busVars
<1>2. Calling'
  BY <1>1 DEF ScanInv, Calling, SentOnce, AnsweredOnce, Apart, TwoCalls, SameSession, Answered
<1>3. Linked'
  BY <1>1 DEF ScanInv, Linked, Numbered, Dated, Begun, Answered, LastWord, Connected, Inquiries,
              TellsOwner, SameSession
<1>4. Awaited' /\ Serving' /\ Unbegun'
  BY <1>1 DEF ScanInv, Scans, Awaited, Serving, Unbegun, Begun, Answered, SameSession
<1>5. Ended' /\ Minded'
  BY <1>1 DEF ScanInv, Scans, Ended, Minded, IsStop, WillEnd, IsOwned, WillBeOwned, Acquires, Drops,
              SameSession
<1> QED
  BY <1>2, <1>3, <1>4, <1>5 DEF ScanInv, Scans

LEMMA SameRan ==
  ASSUME ScanInv, UNCHANGED <<wire, sent, held, timers, pending, outcome>>
  PROVE  Ran'
BY DEF ScanInv, Calling, Ran, Begun, Answered

(* The operations that were begun are typed. *)
LEMMA BegunTyped ==
  ASSUME IInv, NEW w \in Begun, IsStart(w)
  PROVE  /\ w \in Orders /\ w.call \in Requests /\ w.call.request \in RequestIds
         /\ w.object \in Objects /\ w.to \in Owners
<1>1. /\ wire \in Seq(Messages) /\ sent \in Seq(Calls \cup Stops) /\ held \subseteq Orders
  BY DEF IInv, Types, Session, Sound, Base
<1>2. w \in Calls \cup Stops
  <2>1. \A x \in ToSet(sent) : x \in Calls \cup Stops
    BY <1>1 DEF ToSet
  <2>2. \A x \in held : x \in Calls
    BY <1>1 DEF Calls
  <2>3. ASSUME NEW k \in 1..Len(wire), wire[k].kind = "reply" PROVE wire[k].watcher \in Calls
    BY <1>1, <2>3, MessageKinds, ReplyTyped
  <2> QED
    BY <2>1, <2>2, <2>3 DEF Begun, Answered
<1>3. w \in Orders
  BY <1>2, CallKinds DEF IsStart
<1> QED
  BY <1>3 DEF Orders, Requests

(* A request that is not pending any more has an outcome. *)
LEMMA FinishRan ==
  ASSUME IInv, ScanInv, NEW requests, NEW error, error # "none", Finish(requests, error),
         timers' \subseteq timers, UNCHANGED <<wire, sent, held>>
  PROVE  Ran'
<1> SUFFICES ASSUME NEW w \in Begun', IsStart(w)
             PROVE  /\ w.call.request \notin timers'
                    /\ w.call.request \in pending' \/ outcome'[w.call.request] # "none"
  BY DEF Ran, IsStart
<1>1. w \in Begun
  BY DEF Begun, Answered
<1>2. w.call.request \in RequestIds
  BY <1>1, BegunTyped
<1>3. /\ w.call.request \notin timers
      /\ w.call.request \in pending \/ outcome[w.call.request] # "none"
  BY <1>1 DEF ScanInv, Calling, Ran
<1> QED
  BY <1>2, <1>3 DEF Finish

LEMMA ReceivedScans ==
  ASSUME IInv, ScanInv, Received
  PROVE  ScanInv'
<1>0. emitted \in Seq(Emissions) /\ emitted # <<>>
  BY DEF IInv, Session, Received
<1>1. UNCHANGED backendVars
  BY DEF Received
<1>2. UNCHANGED <<wire, sent, held>>
  BY <1>1 DEF backendVars, busVars
<1>3. Ran'
  <2>1. Head(emitted) \in Emissions
    BY <1>0
  <2>2. Head(emitted).signal \in {"snapshotChanged", "operationFinished", "agentRequested"}
    BY <2>1 DEF Emissions, Finishes, Prompts, Pictures
  <2>3. CASE Head(emitted).signal = "snapshotChanged"
    <3>1. PICK requests : Finish(requests, "Disappeared") /\ timers' = timers
      BY <2>3 DEF Received, Snapshot
    <3> QED
      BY <1>2, <3>1, FinishRan
  <2>4. CASE Head(emitted).signal = "operationFinished"
    <3> DEFINE error == IF Head(emitted).error = "none" THEN "succeeded" ELSE Head(emitted).error
    <3>1. PICK requests : Finish(requests, error) /\ timers' = timers
      BY <2>4 DEF Received
    <3>2. error # "none"
      OBVIOUS
    <3> HIDE DEF error
    <3> QED
      BY <1>2, <3>1, <3>2, FinishRan
  <2>5. CASE Head(emitted).signal = "agentRequested"
    BY <1>2, <2>5, SameRan DEF Received, controllerVars
  <2> QED
    BY <2>2, <2>3, <2>4, <2>5
<1> QED
  BY <1>1, <1>3, SessionScans DEF backendVars, SameSession, historyVars

LEMMA AskedScans ==
  ASSUME IInv, ScanInv, Asked
  PROVE  ScanInv'
<1>1. PICK r \in RequestIds : \E operation, target : Begin(r, operation, target)
  BY DEF Asked
<1>2. /\ r \notin pending /\ outcome[r] = "none" /\ pending' = pending \cup {r}
      /\ timers' = timers \cup {r} /\ outcome' = outcome /\ UNCHANGED backendVars
  BY <1>1 DEF Begin
<1>3. Ran'
  BY <1>2 DEF ScanInv, Calling, Ran, Begun, Answered, backendVars, busVars, IsStart
<1> QED
  BY <1>2, <1>3, SessionScans DEF backendVars, SameSession, historyVars

-----------------------------------------------------------------------------
(* Steps of the backend: calls are added, the oldest message may be taken. *)

LEMMA JoinedAt ==
  ASSUME NEW S, NEW q \in Seq(S), NEW r \in Seq(S)
  PROVE  /\ q \o r \in Seq(S) /\ Len(q) \in Nat /\ Len(r) \in Nat
         /\ \A k \in 1..Len(q) : k \in 1..Len(q \o r) /\ (q \o r)[k] = q[k]
         /\ \A i \in 1..Len(r) : Len(q) + i \in 1..Len(q \o r) /\ (q \o r)[Len(q) + i] = r[i]
         /\ \A k \in 1..Len(q \o r) : k \in 1..Len(q) \/ \E i \in 1..Len(r) : k = Len(q) + i
<1>1. /\ q \o r \in Seq(S) /\ Len(q) \in Nat /\ Len(r) \in Nat
      /\ Len(q \o r) = Len(q) + Len(r)
      /\ \A k \in 1..Len(q) : (q \o r)[k] = q[k]
      /\ \A i \in 1..Len(r) : (q \o r)[Len(q) + i] = r[i]
  OBVIOUS
<1> DEFINE j == q \o r
<1> HIDE DEF j
<1>2. \A k \in 1..(Len(q) + Len(r)) : k \in 1..Len(q) \/ (k - Len(q) \in 1..Len(r) /\ k = Len(q) + (k - Len(q)))
  BY <1>1
<1>3. \A k \in 1..Len(j) : k \in 1..Len(q) \/ \E i \in 1..Len(r) : k = Len(q) + i
  BY <1>1, <1>2 DEF j
<1>4. \A k \in 1..Len(q) : k \in 1..Len(j)
  BY <1>1 DEF j
<1>5. \A i \in 1..Len(r) : Len(q) + i \in 1..Len(j)
  BY <1>1 DEF j
<1> QED
  BY <1>1, <1>3, <1>4, <1>5 DEF j

LEMMA RestAt ==
  ASSUME NEW S, NEW q \in Seq(S), q # <<>>
  PROVE  /\ Tail(q) \in Seq(S) /\ Head(q) \in S /\ 1 \in 1..Len(q) /\ q[1] = Head(q) /\ Len(q) \in Nat
         /\ \A k \in 1..Len(Tail(q)) : k + 1 \in 1..Len(q) /\ Tail(q)[k] = q[k + 1]
         /\ \A j \in 1..Len(q) : j = 1 \/ \E k \in 1..Len(Tail(q)) : j = k + 1
<1>1. /\ Tail(q) \in Seq(S) /\ Head(q) \in S /\ Len(q) \in Nat /\ Len(q) >= 1
      /\ Len(Tail(q)) = Len(q) - 1 /\ q[1] = Head(q)
      /\ \A k \in 1..(Len(q) - 1) : Tail(q)[k] = q[k + 1]
  OBVIOUS
<1> DEFINE r == Tail(q)
<1> HIDE DEF r
<1>2. \A j \in 1..Len(q) : j = 1 \/ (j - 1 \in 1..(Len(q) - 1) /\ j = (j - 1) + 1)
  BY <1>1
<1> QED
  BY <1>1, <1>2

(* The messages that are left, when n have been taken. *)
Taken(n) ==
  /\ \A k \in 1..Len(wire') : k + n \in 1..Len(wire) /\ wire'[k] = wire[k + n]
  /\ \A j \in 1..Len(wire) : j <= n \/ \E k \in 1..Len(wire') : j = k + n

LEMMA WireTaken ==
  ASSUME wire \in Seq(Messages)
  PROVE  /\ wire' = wire => Taken(0)
         /\ wire # <<>> /\ wire' = Tail(wire) => Taken(1)
<1>1. CASE wire' = wire
  <2>1. Len(wire) \in Nat
    OBVIOUS
  <2> QED
    BY <1>1, <2>1 DEF Taken
<1>2. CASE wire # <<>> /\ wire' = Tail(wire)
  <2>1. /\ \A k \in 1..Len(wire') : k + 1 \in 1..Len(wire) /\ wire'[k] = wire[k + 1]
        /\ \A j \in 1..Len(wire) : j = 1 \/ \E k \in 1..Len(wire') : j = k + 1
    BY <1>2, RestAt
  <2> QED
    BY <2>1 DEF Taken
<1>3. wire # <<>> /\ wire' = Tail(wire) => wire' # wire
  BY RestTyped
<1> QED
  BY <1>1, <1>2, <1>3

(* Whatever else is called, the StartDiscovery calls stay where they are. *)
LEMMA CallsStay ==
  ASSUME IInv, ScanInv, NEW calls \in Seq(Calls \cup Stops), sent' = sent \o calls,
         \A w \in ToSet(calls) : ~IsStart(w),
         NEW n \in {0, 1}, Taken(n), wire' \in Seq(Messages), held' = held
  PROVE  /\ SentOnce' /\ AnsweredOnce' /\ Apart'
         /\ \A w \in Begun' : IsStart(w) => w \in Begun
         /\ Answered(wire') \subseteq Answered(wire)
         /\ ToSet(sent') = ToSet(sent) \cup ToSet(calls)
<1>0. wire \in Seq(Messages) /\ sent \in Seq(Calls \cup Stops) /\ SentOnce /\ AnsweredOnce /\ Apart
  BY DEF IInv, Types, Session, Sound, Base, ScanInv, Calling
<1>1. Answered(wire') \subseteq Answered(wire)
  BY DEF Answered, Taken
<1>2. ToSet(sent') = ToSet(sent) \cup ToSet(calls)
  BY <1>0, SetOfJoined
<1>3. \A i \in 1..Len(sent') :
        (i \in 1..Len(sent) /\ sent'[i] = sent[i]) \/ ~IsStart(sent'[i])
  <2>1. /\ Len(sent) \in Nat
        /\ \A k \in 1..Len(sent) : sent'[k] = sent[k]
        /\ \A i \in 1..Len(calls) : sent'[Len(sent) + i] = calls[i]
        /\ \A k \in 1..Len(sent') : k \in 1..Len(sent) \/ \E i \in 1..Len(calls) : k = Len(sent) + i
    BY <1>0, JoinedAt
  <2>2. \A i \in 1..Len(calls) : calls[i] \in ToSet(calls)
    BY DEF ToSet
  <2> QED
    BY <2>1, <2>2
<1>4. SentOnce'
  BY <1>0, <1>3 DEF SentOnce, IsStart
<1>5. AnsweredOnce'
  <2>1. Len(wire) \in Nat /\ Len(wire') \in Nat
    BY <1>0
  <2>2. \A i, j \in 1..Len(wire') : i + n = j + n => i = j
    BY <2>1
  <2> QED
    BY <1>0, <2>2 DEF AnsweredOnce, Taken, IsStart
<1>6. Apart'
  BY <1>0, <1>1, <1>2 DEF Apart, IsStart, Answered
<1>7. \A w \in Begun' : IsStart(w) => w \in Begun
  BY <1>1, <1>2 DEF Begun, Answered
<1> QED
  BY <1>1, <1>2, <1>4, <1>5, <1>6, <1>7

(* What was begun stays of a request that ran. *)
LEMMA BegunRan ==
  ASSUME ScanInv, \A w \in Begun' : IsStart(w) => w \in Begun, UNCHANGED <<timers, pending, outcome>>
  PROVE  Ran'
BY DEF ScanInv, Calling, Ran, IsStart

(* A handler of the backend, of one message. *)
Handles(m, s) ==
  /\ m \in Messages /\ backend' = s.b /\ sent' = sent \o s.calls
  /\ UNCHANGED <<held, instance, world, scanning, timers, pending, outcome>>
  /\ spent'.launches = spent.launches /\ spent'.stopped = spent.stopped
  /\ \/ /\ wire # <<>> /\ wire' = Tail(wire) /\ m = Head(wire)
        /\ overlooked' = OverlookedAfter({}, s)
     \/ /\ wire' = wire /\ m.kind = "reply" /\ m.error = "Upstream" /\ m.owner = None
        /\ overlooked' = OverlookedAfter({m.watcher}, s)

(* The message is the oldest one, or a call has failed on this side. *)
Origin(m, n) ==
  /\ Taken(n)
  /\ n = 1 => 1 \in 1..Len(wire) /\ m = wire[1]
  /\ n = 0 => /\ m.kind = "reply" /\ m.error = "Upstream" /\ m.owner = None
              /\ backend'.generation = backend.generation =>
                   overlooked' = overlooked \cup Sought({m.watcher})

LEMMA HandledCalls ==
  ASSUME IInv, ScanInv, NEW m, NEW s, Handles(m, s), Heeds(m, s) \/ Switches(m, s)
  PROVE  /\ Calling'
         /\ s.calls \in Seq(Calls \cup Stops) /\ s.b \in Backends
         /\ \A w \in Begun' : IsStart(w) => w \in Begun
         /\ ToSet(sent') = ToSet(sent) \cup ToSet(s.calls)
         /\ wire' \in Seq(Messages)
         /\ \E n \in {0, 1} : Origin(m, n)
<1>0. wire \in Seq(Messages)
  BY DEF IInv, Types
<1>1. /\ s.calls \in Seq(Calls \cup Stops) /\ s.b \in Backends
      /\ \A w \in ToSet(s.calls) : ~IsStart(w)
  BY DEF Heeds, Switches, States, Incidental, IsStart
<1>2. wire' \in Seq(Messages)
  BY <1>0, RestTyped DEF Handles
<1>3. PICK n \in {0, 1} : Origin(m, n)
  <2>1. CASE wire # <<>> /\ wire' = Tail(wire) /\ m = Head(wire)
    BY <1>0, <2>1, WireTaken, RestAt DEF Origin
  <2>2. CASE /\ wire' = wire /\ m.kind = "reply" /\ m.error = "Upstream" /\ m.owner = None
             /\ overlooked' = OverlookedAfter({m.watcher}, s)
    BY <1>0, <2>2, WireTaken DEF Origin, Handles, OverlookedAfter
  <2> QED
    BY <2>1, <2>2 DEF Handles
<1>4. /\ SentOnce' /\ AnsweredOnce' /\ Apart'
      /\ \A w \in Begun' : IsStart(w) => w \in Begun
      /\ ToSet(sent') = ToSet(sent) \cup ToSet(s.calls)
  BY <1>1, <1>2, <1>3, CallsStay DEF Handles, Origin
<1>5. Ran'
  BY <1>4, BegunRan DEF Handles
<1>6. TwoCalls'
  <2>1. \A w \in s.b.watchers : w \in backend.watchers \/ Incidental(w)
    BY DEF Heeds, Switches
  <2> QED
    BY <2>1 DEF ScanInv, Calling, TwoCalls, Incidental, Handles
<1> QED
  BY <1>1, <1>2, <1>3, <1>4, <1>5, <1>6 DEF Calling

LEMMA HeedsLinks ==
  ASSUME IInv, ScanInv, NEW m, NEW s, Handles(m, s), Heeds(m, s)
  PROVE  Linked'
<1>1. /\ \A w \in Begun' : IsStart(w) => w \in Begun
      /\ \E n \in {0, 1} : Origin(m, n)
  BY HandledCalls
<1>2. PICK n \in {0, 1} : Taken(n)
  BY <1>1 DEF Origin
<1>3. Linked /\ wire \in Seq(Messages) /\ wire' \in Seq(Messages)
  BY HandledCalls DEF ScanInv, IInv, Types
<1>4. /\ instance' = instance /\ spent'.launches = spent.launches
      /\ backend'.owner = backend.owner /\ backend'.generation = backend.generation
      /\ \A w \in backend'.watchers : w.kind = "owner" => w \in backend.watchers
  BY DEF Handles, Heeds, Incidental
<1>5. Numbered'
  BY <1>1, <1>2, <1>3, <1>4 DEF Linked, Numbered, Dated, TellsOwner, IsStart, Taken
<1>6. LastWord'
  <2>1. \A j, k \in 1..Len(wire') : k < j => k + n < j + n
    BY <1>3
  <2> QED
    BY <1>2, <1>3, <1>4, <2>1 DEF Linked, LastWord, TellsOwner, Taken
<1>7. Connected' /\ Inquiries'
  BY <1>2, <1>3, <1>4 DEF Linked, Connected, Inquiries, Taken
<1> QED
  BY <1>5, <1>6, <1>7 DEF Linked

LEMMA HeedsScans ==
  ASSUME IInv, ScanInv, NEW m, NEW s, Handles(m, s), Heeds(m, s)
  PROVE  Scans'
<1>1. /\ \A w \in Begun' : IsStart(w) => w \in Begun
      /\ ToSet(sent') = ToSet(sent) \cup ToSet(s.calls)
      /\ s.calls \in Seq(Calls \cup Stops) /\ sent \in Seq(Calls \cup Stops)
      /\ wire' \in Seq(Messages) /\ wire \in Seq(Messages)
  BY HandledCalls DEF IInv, Types, Session, Sound, Base
<1>2. PICK n \in {0, 1} : Origin(m, n)
  BY HandledCalls
<1>3. /\ instance' = instance /\ scanning' = scanning /\ world' = world /\ held' = held
      /\ overlooked \subseteq overlooked' /\ spent'.stopped = spent.stopped
      /\ backend'.started = backend.started /\ backend'.owner = backend.owner
      /\ backend'.generation = backend.generation /\ backend' = s.b
  BY DEF Handles, Heeds, OverlookedAfter
<1>4. Awaited /\ Serving /\ Unbegun /\ Ended /\ Minded /\ Apart /\ AnsweredOnce
  BY DEF ScanInv, Scans, Calling
<1>5. Awaited'
  <2> SUFFICES ASSUME backend.started, instance # None, NEW w \in Begun', IsStart(w), w.to = instance
               PROVE  /\ backend'.owner = instance
                      /\ \/ w \in backend'.watchers /\ w.generation = backend'.generation
                         \/ w.object \in overlooked'
    BY <1>3 DEF Awaited, IsStart
  <2>0. /\ backend.owner = instance
        /\ \/ w \in backend.watchers /\ w.generation = backend.generation
           \/ w.object \in overlooked
    BY <1>1, <1>4 DEF Awaited
  <2> SUFFICES ASSUME w.object \notin overlooked'
               PROVE  w \in backend'.watchers /\ w.generation = backend'.generation
    BY <1>3, <2>0
  <2>1. w \in backend.watchers /\ w.generation = backend.generation
    BY <1>3, <2>0
  <2>2. ~(m.kind = "reply" /\ m.watcher = w)
    <3> SUFFICES ASSUME m.kind = "reply", m.watcher = w
                 PROVE  FALSE
      OBVIOUS
    <3>0. n # 0
      BY <1>2, <1>3, <2>1 DEF Origin, Sought, IsStart
    <3>1. n = 1 /\ Taken(1) /\ m = wire[1] /\ 1 \in 1..Len(wire)
      BY <1>2, <3>0 DEF Origin
    <3>2. w \in Answered(wire)
      BY <3>1 DEF Answered
    <3>3. w \notin ToSet(sent) /\ w \notin held
      BY <1>4, <3>2 DEF Apart
    <3>4. w \notin ToSet(s.calls)
      BY DEF Heeds, Incidental, IsStart
    <3>5. w \in Answered(wire')
      BY <1>1, <1>3, <3>3, <3>4 DEF Begun, Answered
    <3>6. PICK k \in 1..Len(wire') : wire'[k].kind = "reply" /\ wire'[k].watcher = w
      BY <3>5 DEF Answered
    <3>7. k + 1 \in 1..Len(wire) /\ wire[k + 1].kind = "reply" /\ wire[k + 1].watcher = w
      BY <3>1, <3>6 DEF Taken
    <3>8. k + 1 = 1
      BY <1>4, <3>1, <3>7 DEF AnsweredOnce
    <3> QED
      BY <3>6, <3>8
  <2>3. w \in s.b.watchers
    BY <2>1, <2>2 DEF Heeds
  <2> QED
    BY <1>3, <2>1, <2>3
<1>6. Serving'
  BY <1>3, <1>4 DEF Serving, IsStart
<1>7. Unbegun'
  BY <1>1, <1>3, <1>4 DEF Unbegun, IsStart
<1>8. Ended'
  <2>1. /\ Len(sent) \in Nat
        /\ \A k \in 1..Len(sent) : k \in 1..Len(sent') /\ sent'[k] = sent[k]
        /\ \A i \in 1..Len(s.calls) : sent'[Len(sent) + i] = s.calls[i]
        /\ \A k \in 1..Len(sent') : k \in 1..Len(sent) \/ \E i \in 1..Len(s.calls) : k = Len(sent) + i
    <3>1. sent' = sent \o s.calls
      BY DEF Handles
    <3> QED
      BY <1>1, <3>1, JoinedAt
  <2>2. \A i \in 1..Len(s.calls) : ~IsStart(s.calls[i])
    BY DEF Heeds, Incidental, IsStart, ToSet
  <2>3. \A i \in 1..Len(sent') : IsStart(sent'[i]) => i \in 1..Len(sent) /\ sent'[i] = sent[i]
    BY <2>1, <2>2
  <2>4. ASSUME NEW i \in 1..Len(sent), NEW j \in 1..Len(sent), i < j, IsStop(sent[j], sent[i].object)
        PROVE  j \in 1..Len(sent') /\ IsStop(sent'[j], sent[i].object)
    BY <2>1, <2>4
  <2>5. \A o : \A c \in ToSet(sent) : IsStop(c, o) => c \in ToSet(sent')
    BY <1>1
  <2> SUFFICES ASSUME ~backend.started, instance # None
               PROVE  /\ \A i \in 1..Len(sent') : IsStart(sent'[i]) /\ sent'[i].to = instance =>
                           \/ sent'[i].object \in overlooked'
                           \/ \E j \in 1..Len(sent') : i < j /\ IsStop(sent'[j], sent'[i].object)
                      /\ \A w \in held : IsStart(w) =>
                           w.object \in overlooked' \/ \E c \in ToSet(sent') : IsStop(c, w.object)
    BY <1>3 DEF Ended, IsStart, IsStop
  <2>6. \A i \in 1..Len(sent') : IsStart(sent'[i]) /\ sent'[i].to = instance =>
          \/ sent'[i].object \in overlooked'
          \/ \E j \in 1..Len(sent') : i < j /\ IsStop(sent'[j], sent'[i].object)
    BY <1>3, <1>4, <2>3, <2>4 DEF Ended
  <2> QED
    BY <1>3, <1>4, <2>5, <2>6 DEF Ended
<1>9. Minded'
  <2> SUFFICES ASSUME NEW o \in scanning, o \notin overlooked'
               PROVE  WillEnd(o)' \/ (backend.started /\ (IsOwned(o)' \/ WillBeOwned(o)'))
    BY <1>3 DEF Minded
  <2>0. o \notin overlooked
    BY <1>3
  <2>1. WillEnd(o) => WillEnd(o)'
    BY <1>1, <1>3 DEF WillEnd, IsStop
  <2>2. ASSUME backend.started, GivesBack(s, o)
        PROVE  WillEnd(o)'
    <3>1. s.b.owner = instance
      BY <1>3, <1>4, <2>2 DEF Serving
    <3> QED
      BY <1>1, <1>3, <2>2, <3>1 DEF WillEnd, IsStop, GivesBack
  <2>3. ASSUME backend.started, IsOwned(o)
        PROVE  WillEnd(o)' \/ IsOwned(o)'
    <3>1. ~Drops(m, o)
      BY <1>2, <2>3 DEF IsOwned, Origin, Drops
    <3>2. o \in s.b.owned \/ GivesBack(s, o)
      BY <2>3, <3>1 DEF IsOwned, Heeds
    <3>3. \A j \in 1..Len(wire') : ~Drops(wire'[j], o)
      BY <1>2, <2>3 DEF IsOwned, Origin, Taken, Drops
    <3> QED
      BY <1>3, <2>2, <2>3, <3>2, <3>3 DEF IsOwned, Drops
  <2>4. ASSUME backend.started, WillBeOwned(o)
        PROVE  WillEnd(o)' \/ IsOwned(o)' \/ WillBeOwned(o)'
    <3>1. PICK k \in 1..Len(wire) :
            Acquires(wire[k], o) /\ \A j \in 1..Len(wire) : k < j => ~Drops(wire[j], o)
      BY <2>4 DEF WillBeOwned
    <3>2. Taken(n) /\ n \in {0, 1}
      BY <1>2 DEF Origin
    <3>3. CASE n = 1 /\ k = 1
      <4>1. m = wire[1] /\ Acquires(m, o)
        BY <1>2, <3>1, <3>3 DEF Origin
      <4>2. m.watcher \in Begun /\ IsStart(m.watcher) /\ m.watcher.to = instance
        BY <3>3, <4>1 DEF Begun, Answered, Acquires
      <4>3. m.watcher \in backend.watchers /\ m.watcher.generation = backend.generation
        <5>1. m.watcher.object \notin overlooked
          BY <2>0, <4>1 DEF Acquires
        <5> QED
          BY <1>4, <2>4, <4>2, <5>1 DEF Awaited, Serving
      <4>4. o \in s.b.owned \/ GivesBack(s, o)
        BY <4>1, <4>3 DEF Heeds, Acquires
      <4>5. \A j \in 1..Len(wire') : ~Drops(wire'[j], o)
        BY <1>1, <3>1, <3>2, <3>3 DEF Taken
      <4> QED
        BY <1>3, <2>2, <2>4, <4>4, <4>5 DEF IsOwned, Drops
    <3>4. CASE n = 0 \/ k # 1
      <4>1. PICK i \in 1..Len(wire') : k = i + n
        BY <3>2, <3>4 DEF Taken
      <4>2. wire'[i] = wire[k] /\ Acquires(wire[k], o)
        BY <3>1, <3>2, <4>1 DEF Taken
      <4>3. \A j \in 1..Len(wire') : i < j => j + n \in 1..Len(wire) /\ k < j + n /\ wire'[j] = wire[j + n]
        BY <3>2, <4>1 DEF Taken
      <4>4. \A j \in 1..Len(wire') : i < j => ~Drops(wire'[j], o)
        BY <3>1, <4>3
      <4> QED
        BY <1>3, <4>2, <4>4 DEF WillBeOwned, Acquires, Drops, IsStart
    <3> QED
      BY <3>2, <3>3, <3>4
  <2> QED
    BY <1>4, <2>0, <2>1, <2>3, <2>4 DEF Minded
<1> QED
  BY <1>5, <1>6, <1>7, <1>8, <1>9 DEF Scans

(* A message that names the owner: the running daemon was not known before, *)
(* and had nothing to do for this client.                                   *)
LEMMA SwitchesScans ==
  ASSUME IInv, ScanInv, NEW m, NEW s, Handles(m, s), Switches(m, s)
  PROVE  Linked' /\ Scans'
<1>1. /\ \A w \in Begun' : IsStart(w) => w \in Begun
      /\ wire' \in Seq(Messages) /\ wire \in Seq(Messages) /\ backend \in Backends
  BY HandledCalls, IdleDoes DEF IInv, Types, Session, Sound, Base, States
<1>2. PICK n \in {0, 1} : Origin(m, n)
  BY HandledCalls
<1>3. /\ instance' = instance /\ scanning' = scanning /\ world' = world /\ held' = held
      /\ spent'.launches = spent.launches
      /\ backend.started /\ backend'.started /\ backend'.owner = m.owner
      /\ backend'.generation = backend.generation + 1 /\ backend.generation \in Nat
      /\ \A w \in backend'.watchers : w.kind = "owner" => w \in backend.watchers
  BY <1>1 DEF Handles, Switches, Incidental, Backends
<1>4. Linked /\ Awaited /\ Serving
  BY DEF ScanInv, Scans
<1>5. instance # None => backend.owner # instance
  <2>1. CASE m.kind = "owner"
    BY <1>2, <1>4, <2>1 DEF Linked, Connected, Origin
  <2>2. CASE m.kind = "reply" /\ m.watcher \in backend.watchers /\ m.watcher.kind = "owner"
             /\ m.watcher.generation = backend.generation
    BY <1>4, <2>2 DEF Linked, Inquiries
  <2> QED
    BY <2>1, <2>2 DEF Switches
<1>6. scanning = {} /\ (instance # None => \A w \in Begun : IsStart(w) => w.to # instance)
  BY <1>3, <1>4, <1>5 DEF Serving, Awaited
<1>7. m.owner = None \/ (n = 1 /\ TellsOwner(m))
  <2>1. CASE m.kind = "owner"
    BY <1>2, <2>1 DEF Origin, TellsOwner
  <2>2. CASE m.kind = "reply" /\ m.watcher.kind = "owner"
    <3>1. m \in Replies
      BY <2>2, MessageKinds DEF Handles
    <3>2. CASE m.error = "none"
      BY <1>2, <2>2, <3>2 DEF Origin, TellsOwner
    <3>3. CASE m.error # "none"
      BY <3>1, <3>3, ReplyTyped
    <3> QED
      BY <3>2, <3>3
  <2> QED
    BY <2>1, <2>2 DEF Switches
<1>8. Numbered'
  <2>1. Dated(m.owner)
    BY <1>2, <1>4, <1>7 DEF Linked, Numbered, Dated, Origin
  <2> QED
    BY <1>1, <1>2, <1>3, <1>4, <2>1 DEF Linked, Numbered, Dated, TellsOwner, IsStart, Taken, Origin
<1>9. LastWord'
  <2>1. \A j, k \in 1..Len(wire') : k < j => k + n < j + n
    BY <1>1
  <2>2. Taken(n)
    BY <1>2 DEF Origin
  <2>3. \A k \in 1..Len(wire') : k + n \in 1..Len(wire) /\ wire'[k] = wire[k + n]
    BY <2>2 DEF Taken
  <2> SUFFICES ASSUME instance # None, NEW k \in 1..Len(wire'), TellsOwner(wire'[k]),
                      wire'[k].owner = instance, NEW j \in 1..Len(wire'), k < j
               PROVE  wire'[j].kind # "owner"
    BY <1>3 DEF LastWord, TellsOwner
  <2>4. /\ k + n \in 1..Len(wire) /\ TellsOwner(wire[k + n]) /\ wire[k + n].owner = instance
        /\ j + n \in 1..Len(wire) /\ wire'[j] = wire[j + n] /\ k + n < j + n
    BY <2>1, <2>3
  <2> QED
    BY <1>4, <2>4 DEF Linked, LastWord
<1>10. Connected'
  <2> SUFFICES ASSUME instance # None, m.owner = instance, NEW k \in 1..Len(wire')
               PROVE  wire'[k].kind # "owner"
    BY <1>3 DEF Connected
  <2>1. n = 1 /\ 1 \in 1..Len(wire) /\ TellsOwner(wire[1]) /\ wire[1].owner = instance
    BY <1>2, <1>7 DEF Origin
  <2>2. k + 1 \in 1..Len(wire) /\ 1 < k + 1 /\ wire'[k] = wire[k + 1]
    BY <1>1, <1>2, <2>1 DEF Origin, Taken
  <2> QED
    BY <1>4, <2>1, <2>2 DEF Linked, LastWord
<1>11. Inquiries'
  <2>1. \A w \in backend'.watchers : w.kind = "owner" =>
          w.generation \in Nat /\ w.generation <= backend.generation
    <3>1. \A w \in backend.watchers : w \in Calls
      BY <1>1 DEF Backends
    <3> QED
      BY <1>3, <1>4, <3>1, CallKinds DEF Linked, Inquiries
  <2> QED
    BY <1>3, <2>1 DEF Inquiries
<1>12. Scans'
  BY <1>1, <1>3, <1>4, <1>6 DEF Scans, Awaited, Serving, Unbegun, Ended, Minded, IsStart
<1> QED
  BY <1>8, <1>9, <1>10, <1>11, <1>12 DEF Linked

LEMMA MessageScans ==
  ASSUME IInv, ScanInv, NEW m, Handles(m, delivered(Idle, m))
  PROVE  ScanInv'
<1> DEFINE s == delivered(Idle, m)
<1>1. Heeds(m, s) \/ Switches(m, s)
  <2>1. Base(Idle, wire) /\ TwoCalls /\ spent.agentCalls \in Nat /\ m \in Messages
    BY DEF IInv, Types, Session, Sound, ScanInv, Calling, Handles
  <2> QED
    BY <2>1, DeliveredDoes
<1> HIDE DEF s
<1>2. Calling'
  BY <1>1, HandledCalls DEF s
<1>3. Linked' /\ Scans'
  BY <1>1, HeedsLinks, HeedsScans, SwitchesScans DEF s
<1> QED
  BY <1>2, <1>3 DEF ScanInv

LEMMA DeliverScans ==
  ASSUME IInv, ScanInv, Deliver, UNCHANGED controllerVars
  PROVE  ScanInv'
<1> DEFINE m == Head(wire)
           s == delivered(Idle, m)
<1>1. wire \in Seq(Messages) /\ wire # <<>>
  BY DEF IInv, Types, Deliver
<1>2. m \in Messages
  BY <1>1
<1>3. /\ wire' = Tail(wire) /\ Run(s) /\ overlooked' = OverlookedAfter({}, s)
      /\ UNCHANGED <<held, instance, world, scanning, spent, timers, pending, outcome>>
  BY DEF Deliver, controllerVars
<1> HIDE DEF s
<1>4. Handles(m, s)
  BY <1>1, <1>2, <1>3 DEF Handles, Run, Becomes
<1> QED
  BY <1>4, MessageScans DEF s

LEMMA LocalErrorScans ==
  ASSUME IInv, ScanInv, NEW w \in backend.watchers, LocalError(w), UNCHANGED controllerVars
  PROVE  ScanInv'
<1> DEFINE m == Failure(w)
           s == delivered(Idle, m)
<1>0. w \in Calls /\ spent \in SpentType
  BY IdleDoes DEF IInv, Types, Session, Sound, Base, States, Backends, SpentType
<1>1. /\ m \in Messages /\ m.kind = "reply" /\ m.error = "Upstream" /\ m.owner = None
      /\ m.watcher = w
  <2>1. m \in Messages
    BY <1>0, AnswerTyped DEF IInv
  <2> QED
    BY <2>1 DEF Failure
<1>2. /\ wire' = wire /\ Run(s) /\ overlooked' = OverlookedAfter({w}, s)
      /\ UNCHANGED <<held, instance, world, scanning, timers, pending, outcome>>
      /\ spent'.launches = spent.launches /\ spent'.stopped = spent.stopped
  BY <1>0 DEF LocalError, controllerVars, SpentType
<1> HIDE DEF s, m
<1>3. Handles(m, s)
  BY <1>1, <1>2 DEF Handles, Run, Becomes
<1> QED
  BY <1>3, MessageScans DEF s

LEMMA QuietScans ==
  ASSUME IInv, ScanInv, EmitDeferred \/ (\E i \in backend.interactions : Respond(i)),
         UNCHANGED controllerVars
  PROVE  ScanInv'
<1>1. backend \in Backends /\ UNCHANGED <<busVars, overlooked>>
  BY IdleDoes DEF IInv, Session, Sound, Base, States, EmitDeferred, Respond, historyVars
<1>2. SameSession
  BY <1>1 DEF SameSession, EmitDeferred, Respond, Backends
<1>3. Ran'
  BY <1>1, SameRan DEF busVars, controllerVars
<1> QED
  BY <1>1, <1>2, <1>3, SessionScans

LEMMA StartScans ==
  ASSUME IInv, ScanInv, Start, UNCHANGED controllerVars
  PROVE  ScanInv'
<1> DEFINE w == [kind |-> "owner", to |-> None, generation |-> backend.generation]
           b == [backend EXCEPT !.started = TRUE]
           u == [Idle EXCEPT !.b = b]
           s == start(Idle)
           calls == s.calls
<1>0. /\ backend \in Backends /\ Idle \in States /\ sent \in Seq(Calls \cup Stops)
      /\ wire \in Seq(Messages) /\ Idle.b = backend
  BY IdleDoes DEF IInv, Types, Session, Sound, Base, States
<1>1. w \in Calls /\ w.kind = "owner"
  BY <1>0 DEF Calls, Queries, Owners, Backends
<1>2. /\ b \in Backends /\ b.started /\ b.owner = backend.owner
      /\ b.generation = backend.generation /\ b.watchers = backend.watchers
  BY <1>0 DEF Backends
<1>3. s = Watched(u, w)
  BY <1>0, IdleDoes DEF start, States
<1> HIDE DEF b, s
<1>4. u \in States /\ u.b = b /\ u.calls = <<>>
  BY <1>0, <1>2, IdleDoes DEF States
<1>5. /\ s \in States /\ s.b = [b EXCEPT !.watchers = @ \cup {w}] /\ calls = Append(<<>>, w)
  <2> HIDE DEF u, w
  <2> QED
    BY <1>1, <1>3, <1>4, WatchedDoes
<1>6. /\ backend' = s.b /\ sent' = sent \o calls
      /\ UNCHANGED <<wire, held, instance, world, scanning, spent, overlooked, timers, pending, outcome>>
      /\ ~backend.started /\ ~spent.stopped
  BY DEF Start, Run, Becomes, controllerVars, s
<1>7. /\ backend'.started /\ backend'.owner = backend.owner
      /\ backend'.generation = backend.generation /\ backend'.watchers = backend.watchers \cup {w}
  <2> HIDE DEF w
  <2> QED
    BY <1>2, <1>5, <1>6 DEF Backends
<1>8. calls \in Seq(Calls \cup Stops) /\ \A x \in ToSet(calls) : ~IsStart(x)
  <2>1. calls = <<w>>
    BY <1>5
  <2> QED
    BY <1>1, <2>1 DEF ToSet, IsStart
<1> HIDE DEF calls, w
<1>9. /\ SentOnce' /\ AnsweredOnce' /\ Apart' /\ \A x \in Begun' : IsStart(x) => x \in Begun
  BY <1>0, <1>6, <1>8, WireTaken, CallsStay
<1>10. backend.owner = None /\ scanning = {} /\ \A x \in Begun' : ~IsStart(x)
  BY <1>6, <1>9, IdleDoes DEF IInv, Session, Sound, Base, Connection, ScanInv, Scans, Unbegun
<1>11. Calling'
  <2>1. Ran'
    BY <1>6, <1>9, BegunRan
  <2> QED
    BY <1>1, <1>7, <1>9, <2>1 DEF Calling, ScanInv, TwoCalls
<1>12. Linked'
  <2>1. w.generation = backend.generation /\ backend.generation \in Nat
    BY <1>0 DEF w, Backends
  <2> QED
    BY <1>6, <1>7, <1>10, <2>1 DEF ScanInv, Linked, Numbered, Dated, LastWord, Connected, Inquiries,
                                  TellsOwner, IsStart
<1>13. Scans'
  BY <1>6, <1>7, <1>10 DEF ScanInv, Scans, Awaited, Serving, Unbegun, Ended, Minded, IsStart
<1> QED
  BY <1>11, <1>12, <1>13 DEF ScanInv

(* stop(): what has been asked for, and is not recorded, is given back or     *)
(* overlooked.                                                               *)
LEMMA StopScans ==
  ASSUME IInv, ScanInv, Stop, UNCHANGED controllerVars
  PROVE  ScanInv'
<1> DEFINE b == [backend EXCEPT !.started = FALSE]
           u == [Idle EXCEPT !.b = b]
           paths == backend.owned \cup backend.starting
           t == Told(u, StopCalls(backend.owner, paths))
           s == setOwner(t, None)
           calls == s.calls
<1>0. /\ backend \in Backends /\ Idle \in States /\ sent \in Seq(Calls \cup Stops)
      /\ wire \in Seq(Messages) /\ Idle.b = backend /\ paths \in SUBSET Objects
      /\ backend.generation \in Nat
  BY IdleDoes DEF IInv, Types, Session, Sound, Base, States, Backends
<1>1. stop(Idle) = s
  BY <1>0, IdleDoes DEF stop, States
<1>2. /\ b \in Backends /\ ~b.started /\ b.owner = backend.owner
      /\ b.generation = backend.generation /\ b.watchers = backend.watchers
  BY <1>0 DEF Backends
<1> HIDE DEF b, paths
<1>3. u \in States /\ u.b = b /\ u.calls = <<>>
  BY <1>0, <1>2, IdleDoes DEF States
<1>4. Tame(u, t) /\ t.b = b /\ \A o \in paths : GivesBack(t, o)
  <2>1. t = Told(u, StopCalls(u.b.owner, paths))
    BY <1>2, <1>3
  <2> HIDE DEF t, u
  <2> QED
    BY <1>0, <1>3, <2>1, StopsTame
<1>5. t \in States /\ \A x \in ToSet(t.calls) : x.kind = "stop" \/ Incidental(x)
  <2>1. ToSet(<<>>) = {}
    BY DEF ToSet
  <2> QED
    BY <1>3, <1>4, <2>1 DEF Tame
<1> HIDE DEF u, t
<1>6. /\ s \in States /\ ~s.b.started /\ s.b.owner = None
      /\ s.b.generation = backend.generation + 1
      /\ \A x \in s.b.watchers \ backend.watchers : Incidental(x)
      /\ ToSet(t.calls) \subseteq ToSet(calls)
      /\ \A x \in ToSet(calls) : x.kind = "stop" \/ Incidental(x)
  <2>1. None \in Owners
    BY DEF Owners
  <2> QED
    BY <1>2, <1>4, <1>5, <2>1, OwnerDoes
<1> HIDE DEF s
<1>7. /\ backend' = s.b /\ sent' = sent \o calls /\ spent'.stopped /\ spent'.launches = spent.launches
      /\ overlooked' = overlooked \cup (Sought(backend.watchers) \ backend.starting)
      /\ UNCHANGED <<wire, held, instance, world, scanning, timers, pending, outcome>>
      /\ backend.started
  <2>1. spent \in SpentType
    BY DEF IInv, Types, SpentType
  <2> QED
    BY <1>1, <2>1 DEF Stop, Run, Becomes, controllerVars, SpentType
<1>8. calls \in Seq(Calls \cup Stops) /\ \A x \in ToSet(calls) : ~IsStart(x)
  BY <1>6 DEF States, IsStart, Incidental
<1> HIDE DEF calls
<1>9. /\ SentOnce' /\ AnsweredOnce' /\ Apart' /\ \A x \in Begun' : IsStart(x) => x \in Begun
      /\ ToSet(sent') = ToSet(sent) \cup ToSet(calls)
  BY <1>0, <1>7, <1>8, WireTaken, CallsStay
<1>10. Calling'
  <2>1. Ran'
    BY <1>7, <1>9, BegunRan
  <2> QED
    BY <1>6, <1>7, <1>9, <2>1 DEF Calling, ScanInv, TwoCalls, Incidental
<1>11. Linked'
  <2>1. \A w \in backend'.watchers : w.kind = "owner" =>
          w.generation \in Nat /\ w.generation <= backend.generation
    <3>1. \A w \in backend.watchers : w \in Calls
      BY <1>0 DEF Backends
    <3>2. \A w \in backend'.watchers : w.kind = "owner" => w \in backend.watchers
      BY <1>6, <1>7 DEF Incidental
    <3> QED
      BY <3>1, <3>2, CallKinds DEF ScanInv, Linked, Inquiries
  <2>2. Inquiries'
    BY <1>0, <1>6, <1>7, <2>1 DEF Inquiries
  <2> QED
    BY <1>6, <1>7, <1>9, <2>2 DEF ScanInv, Linked, Numbered, Dated, LastWord, Connected,
                                 TellsOwner, IsStart
<1>12. Awaited' /\ Unbegun' /\ Serving'
  BY <1>6, <1>7 DEF ScanInv, Scans, Awaited, Unbegun, Serving, IsStart
(* The paths that are given back, to the daemon that runs. *)
<1>13. ASSUME backend.owner = instance, NEW o \in paths
       PROVE  \E c \in ToSet(calls) : IsStop(c, o)
  BY <1>2, <1>4, <1>6, <1>13 DEF GivesBack, IsStop
<1>14. ASSUME instance # None, NEW w \in Begun, IsStart(w), w.to = instance
       PROVE  /\ backend.owner = instance
              /\ w.object \in overlooked' \/ \E c \in ToSet(calls) : IsStop(c, w.object)
  <2>0. /\ backend.owner = instance
        /\ \/ w \in backend.watchers /\ w.generation = backend.generation
           \/ w.object \in overlooked
    BY <1>7, <1>14 DEF ScanInv, Scans, Awaited
  <2> SUFFICES ASSUME w.object \notin overlooked
               PROVE  w.object \in overlooked' \/ \E c \in ToSet(calls) : IsStop(c, w.object)
    BY <1>7, <2>0
  <2>1. backend.owner = instance /\ w \in backend.watchers /\ w.generation = backend.generation
    BY <2>0
  <2>2. w.object \in Sought(backend.watchers)
    BY <1>14, <2>1 DEF Sought, IsStart
  <2>3. CASE w.object \in backend.starting
    BY <1>13, <2>1, <2>3 DEF paths
  <2>4. CASE w.object \notin backend.starting
    BY <1>7, <2>1, <2>2, <2>4
  <2> QED
    BY <2>1, <2>3, <2>4
<1>15. Ended'
  <2>1. /\ Len(sent) \in Nat
        /\ \A k \in 1..Len(sent) : sent'[k] = sent[k]
        /\ \A i \in 1..Len(calls) : Len(sent) + i \in 1..Len(sent') /\ sent'[Len(sent) + i] = calls[i]
        /\ \A k \in 1..Len(sent') : k \in 1..Len(sent) \/ \E i \in 1..Len(calls) : k = Len(sent) + i
    <3>1. sent' = sent \o calls
      BY <1>7
    <3> QED
      BY <1>0, <1>8, <3>1, JoinedAt
  <2>2. \A i \in 1..Len(calls) : ~IsStart(calls[i])
    BY <1>8 DEF ToSet
  <2>3. \A c \in ToSet(calls) : \E i \in 1..Len(calls) : c = calls[i]
    BY <1>8 DEF ToSet
  <2> SUFFICES ASSUME instance # None
               PROVE  /\ \A i \in 1..Len(sent') : IsStart(sent'[i]) /\ sent'[i].to = instance =>
                           \/ sent'[i].object \in overlooked'
                           \/ \E j \in 1..Len(sent') : i < j /\ IsStop(sent'[j], sent'[i].object)
                      /\ \A w \in held : IsStart(w) =>
                           w.object \in overlooked' \/ \E c \in ToSet(sent') : IsStop(c, w.object)
    BY <1>7 DEF Ended, IsStart, IsStop
  <2>4. ASSUME NEW i \in 1..Len(sent'), IsStart(sent'[i]), sent'[i].to = instance
        PROVE  \/ sent'[i].object \in overlooked'
               \/ \E j \in 1..Len(sent') : i < j /\ IsStop(sent'[j], sent'[i].object)
    <3>1. i \in 1..Len(sent) /\ sent'[i] = sent[i]
      BY <2>1, <2>2, <2>4
    <3>2. sent[i] \in Begun
      BY <3>1, <1>0 DEF Begun, ToSet
    <3>3. sent[i].object \in overlooked' \/ \E c \in ToSet(calls) : IsStop(c, sent[i].object)
      BY <1>14, <2>4, <3>1, <3>2
    <3>4. ASSUME NEW c \in ToSet(calls), IsStop(c, sent[i].object)
          PROVE  \E j \in 1..Len(sent') : i < j /\ IsStop(sent'[j], sent[i].object)
      <4>1. PICK k \in 1..Len(calls) : c = calls[k]
        BY <2>3
      <4>2. Len(sent) + k \in 1..Len(sent') /\ i < Len(sent) + k /\ sent'[Len(sent) + k] = c
        BY <2>1, <3>1, <4>1
      <4> QED
        BY <3>4, <4>2
    <3> QED
      BY <3>1, <3>3, <3>4
  <2>5. ASSUME NEW w \in held, IsStart(w)
        PROVE  w.object \in overlooked' \/ \E c \in ToSet(sent') : IsStop(c, w.object)
    <3>1. w \in Begun /\ w.to = instance
      BY <2>5 DEF Begun, ScanInv, Scans, Serving
    <3> QED
      BY <1>9, <1>14, <2>5, <3>1
  <2> QED
    BY <2>4, <2>5
<1>16. Minded'
  <2> SUFFICES ASSUME NEW o \in scanning
               PROVE  \/ \E c \in ToSet(sent') : IsStop(c, o)
                      \/ o \in overlooked'
    BY <1>6, <1>7 DEF Minded, WillEnd, IsStop
  <2>1. /\ instance # None /\ backend.owner = instance
        /\ o \in overlooked' \/ WillEnd(o) \/ IsOwned(o) \/ WillBeOwned(o)
    BY <1>7 DEF ScanInv, Scans, Serving, Minded
  <2>2. CASE WillEnd(o)
    BY <1>9, <2>2 DEF WillEnd
  <2>3. CASE IsOwned(o)
    BY <1>9, <1>13, <2>1, <2>3 DEF IsOwned, paths
  <2>4. CASE WillBeOwned(o)
    <3>1. PICK k \in 1..Len(wire) : Acquires(wire[k], o)
      BY <2>4 DEF WillBeOwned
    <3>2. /\ wire[k].watcher \in Begun /\ IsStart(wire[k].watcher)
          /\ wire[k].watcher.to = instance /\ wire[k].watcher.object = o
      BY <3>1 DEF Begun, Answered, Acquires
    <3> QED
      BY <1>9, <1>14, <2>1, <3>2
  <2> QED
    BY <2>1, <2>2, <2>3, <2>4
<1> QED
  BY <1>10, <1>11, <1>12, <1>15, <1>16 DEF ScanInv, Scans

(* execute(): nothing is called, or one operation is begun. *)
LEMMA ExecuteDoes ==
  ASSUME Idle \in States, NEW c \in Requests
  PROVE  LET t == execute(Idle, c)
         IN /\ t.b.started = backend.started /\ t.b.owner = backend.owner
            /\ t.b.generation = backend.generation /\ t.b.owned = backend.owned
            /\ \/ t.calls = <<>> /\ t.b.watchers = backend.watchers
               \/ \E x \in Orders :
                    /\ t.calls = <<x>> /\ t.b.watchers = backend.watchers \cup {x}
                    /\ x.call = c /\ x.to = backend.owner /\ x.to # None
                    /\ x.generation = backend.generation
                    /\ x.step # "only" => c.operation = "Discoverable"
<1> DEFINE report == Append(backend.deferred, Finished(c, Refusal(backend, c)))
           step == IF c.operation = "Discoverable" THEN "timeout" ELSE "only"
           refused == [backend EXCEPT !.deferred = report]
           starting == IF c.operation \in Discovery THEN backend.starting \cup {c.target[1]}
                       ELSE backend.starting
           interactions == IF c.operation = "CancelPairing" THEN {} ELSE backend.interactions
           begun == [backend EXCEPT !.starting = starting, !.interactions = interactions]
           u == [Idle EXCEPT !.b = begun]
           x == OperationCall(begun, c, step)
           t == execute(Idle, c)
<1>0. /\ backend \in Backends /\ Idle.b = backend /\ backend.starting \in SUBSET Objects
      /\ backend.deferred \in Seq(Finishes) /\ c.target[1] \in Objects
      /\ step \in {"timeout", "set", "only"} /\ Idle.calls = <<>>
  BY IdleDoes DEF States, Backends, Requests
<1>1. Refusal(backend, c) \in Results
  BY DEF Refusal, Results
<1>2. report \in Seq(Finishes)
  BY <1>0, <1>1, OperationTyped
<1>3. /\ starting \in SUBSET Objects /\ interactions \in SUBSET [device : Ids, number : Nat]
  BY <1>0 DEF Backends
<1>4. step # "only" => c.operation = "Discoverable"
  OBVIOUS
<1>5. t = [Idle EXCEPT !.b = refused] \/ (backend.owner # None /\ t = Watched(u, OperationCall(backend, c, step)))
  <2>1. [Idle EXCEPT !.b = refused] = [Idle EXCEPT !.b.deferred = report]
    BY <1>0 DEF States
  <2>2. u = [Idle EXCEPT !.b.starting = starting, !.b.interactions = interactions]
    BY <1>0 DEF States, Backends
  <2>3. Refusal(backend, c) = "none" => backend.owner # None
    BY DEF Refusal
  <2> QED
    BY <1>0, <2>1, <2>2, <2>3 DEF execute
<1> HIDE DEF report, step, starting, interactions, t
<1>6. /\ refused \in Backends /\ refused.started = backend.started /\ refused.owner = backend.owner
      /\ refused.generation = backend.generation /\ refused.watchers = backend.watchers
      /\ refused.owned = backend.owned
  BY <1>0, <1>2 DEF Backends
<1>7. /\ begun \in Backends /\ begun.started = backend.started /\ begun.owner = backend.owner
      /\ begun.generation = backend.generation /\ begun.watchers = backend.watchers
      /\ begun.owned = backend.owned
  BY <1>0, <1>3 DEF Backends
<1> HIDE DEF refused, begun
<1>8. CASE t = [Idle EXCEPT !.b = refused]
  BY <1>0, <1>6, <1>8 DEF States, t
<1>9. CASE backend.owner # None /\ t = Watched(u, OperationCall(backend, c, step))
  <2>1. OperationCall(backend, c, step) = x
    BY <1>7 DEF OperationCall
  <2>2. /\ x \in Calls /\ x.kind = "operation" /\ x.call = c /\ x.to = backend.owner
        /\ x.generation = backend.generation /\ x.step = step
    <3>1. x \in Calls /\ x.kind = "operation"
      BY <1>0, <1>1, <1>7, OperationTyped
    <3> QED
      BY <1>7, <3>1 DEF OperationCall
  <2> HIDE DEF x
  <2>3. u \in States /\ u.b = begun /\ u.calls = <<>>
    BY <1>0, <1>7 DEF States
  <2> HIDE DEF u
  <2>4. t.b = [begun EXCEPT !.watchers = @ \cup {x}] /\ t.calls = Append(<<>>, x)
    BY <1>9, <2>1, <2>2, <2>3, WatchedDoes
  <2>5. /\ t.b.started = backend.started /\ t.b.owner = backend.owner
        /\ t.b.generation = backend.generation /\ t.b.owned = backend.owned
        /\ t.b.watchers = backend.watchers \cup {x}
    BY <1>7, <2>4 DEF Backends
  <2>6. t.calls = <<x>> /\ x \in Orders
    BY <2>2, <2>4, CallKinds
  <2> QED
    BY <1>4, <1>9, <2>2, <2>5, <2>6 DEF t
<1> QED
  BY <1>5, <1>8, <1>9

(* A request runs once, so its StartDiscovery is a new one. *)
LEMMA BeginScans ==
  ASSUME IInv, ScanInv, NEW r \in timers, r \in pending, timers' = timers \ {r},
         NEW x \in Orders, x.call.request = r, x.to = backend.owner, x.to # None,
         x.generation = backend.generation, x.step # "only" => x.call.operation = "Discoverable",
         backend'.started = backend.started, backend'.owner = backend.owner,
         backend'.generation = backend.generation, backend'.owned = backend.owned,
         backend'.watchers = backend.watchers \cup {x}, sent' = sent \o <<x>>,
         UNCHANGED <<pending, outcome, wire, held, instance, world, scanning, spent, overlooked>>
  PROVE  ScanInv'
<1>0. /\ sent \in Seq(Calls \cup Stops) /\ wire \in Seq(Messages) /\ x \in Calls \cup Stops
      /\ x.kind = "operation" /\ ScanInv /\ backend.started
  BY IdleDoes DEF IInv, Types, Session, Sound, Base, Connection, Calls, Orders
<1>1. /\ <<x>> \in Seq(Calls \cup Stops) /\ ToSet(<<x>>) = {x}
  BY <1>0 DEF ToSet
<1>2. /\ ToSet(sent') = ToSet(sent) \cup {x}
      /\ \A k \in 1..Len(sent) : k \in 1..Len(sent') /\ sent'[k] = sent[k]
      /\ Len(sent) \in Nat /\ Len(sent') = Len(sent) + 1 /\ sent'[Len(sent) + 1] = x
  <2>1. ToSet(sent') = ToSet(sent) \cup ToSet(<<x>>)
    <3> DEFINE calls == <<x>>
    <3>1. calls \in Seq(Calls \cup Stops) /\ sent' = sent \o calls
      BY <1>1
    <3> HIDE DEF calls
    <3>2. ToSet(sent') = ToSet(sent) \cup ToSet(calls)
      BY <1>0, <3>1, SetOfJoined
    <3> QED
      BY <3>2 DEF calls
  <2> QED
    BY <1>0, <1>1, <2>1
<1>3. IsStart(x) => x \notin Begun
  BY DEF ScanInv, Calling, Ran
<1>4. \A w \in Begun' : w \in Begun \/ w = x
  BY <1>2 DEF Begun, Answered
<1>5. SentOnce'
  <2>1. \A k \in 1..Len(sent) : sent[k] \in Begun
    BY <1>0 DEF Begun, ToSet
  <2>2. \A k \in 1..Len(sent') : k \in 1..Len(sent) \/ k = Len(sent) + 1
    BY <1>2
  <2> QED
    BY <1>2, <1>3, <2>1, <2>2 DEF ScanInv, Calling, SentOnce, IsStart
<1>6. AnsweredOnce' /\ Apart'
  BY <1>2, <1>3 DEF ScanInv, Calling, AnsweredOnce, Apart, IsStart, Answered, Begun
<1>7. Ran' /\ TwoCalls'
  BY <1>4 DEF ScanInv, Calling, Ran, TwoCalls, IsStart
<1>8. Linked'
  BY <1>0, <1>4 DEF ScanInv, Linked, Numbered, Dated, LastWord, Connected, Inquiries, TellsOwner, IsStart
<1>9. Awaited' /\ Serving' /\ Unbegun' /\ Ended'
  BY <1>0, <1>4 DEF ScanInv, Scans, Awaited, Serving, Unbegun, Ended, IsStart
<1>10. Minded'
  BY <1>0, <1>2 DEF ScanInv, Scans, Minded, WillEnd, IsStop, IsOwned, WillBeOwned, Acquires, Drops, IsStart
<1> QED
  BY <1>5, <1>6, <1>7, <1>8, <1>9, <1>10 DEF ScanInv, Calling, Scans

LEMMA TimerScans ==
  ASSUME IInv, ScanInv, NEW r \in timers, Timer(r)
  PROVE  ScanInv'
<1>0. timers' = timers \ {r}
  BY DEF Timer
<1>1. CASE UNCHANGED <<backendVars, emitted>>
  <2>1. UNCHANGED <<busVars, overlooked, wire, sent, held>> /\ SameSession
    BY <1>1 DEF backendVars, busVars, historyVars, SameSession
  <2>2. CASE UNCHANGED <<pending, outcome>>
    <3>1. Ran'
      BY <1>0, <2>1, <2>2 DEF ScanInv, Calling, Ran, Begun, Answered, IsStart
    <3> QED
      BY <2>1, <3>1, SessionScans
  <2>3. CASE r \in pending /\ request[r].error # "none" /\ Finish({r}, request[r].error)
    <3>1. Ran'
      BY <1>0, <2>1, <2>3, FinishRan
    <3> QED
      BY <2>1, <3>1, SessionScans
  <2> QED
    BY <1>1, <2>2, <2>3 DEF Timer
<1>2. CASE ~UNCHANGED <<backendVars, emitted>>
  <2> DEFINE c == [request |-> r, operation |-> request[r].operation, target |-> request[r].target]
             t == execute(Idle, c)
  <2>1. /\ r \in pending /\ Run(t)
        /\ UNCHANGED <<pending, outcome, wire, held, instance, world, scanning, spent, overlooked>>
    BY <1>2 DEF Timer
  <2>2. c \in Requests
    BY <2>1 DEF IInv, Session, Types, Requests
  <2>3. Idle \in States /\ sent \in Seq(Calls \cup Stops)
    BY DEF IInv, Session, Sound, Base
  <2>4. c.request = r
    OBVIOUS
  <2> HIDE DEF c
  <2>5. backend' = t.b /\ sent' = sent \o t.calls
    BY <2>1 DEF Run, Becomes
  <2>6. /\ t.b.started = backend.started /\ t.b.owner = backend.owner
        /\ t.b.generation = backend.generation /\ t.b.owned = backend.owned
        /\ \/ t.calls = <<>> /\ t.b.watchers = backend.watchers
           \/ \E x \in Orders :
                /\ t.calls = <<x>> /\ t.b.watchers = backend.watchers \cup {x}
                /\ x.call = c /\ x.to = backend.owner /\ x.to # None
                /\ x.generation = backend.generation
                /\ x.step # "only" => c.operation = "Discoverable"
    BY <2>2, <2>3, ExecuteDoes
  <2> HIDE DEF t
  <2>7. CASE t.calls = <<>> /\ t.b.watchers = backend.watchers
    <3>1. sent' = sent
      BY <2>3, <2>5, <2>7
    <3>2. SameSession /\ UNCHANGED <<busVars, overlooked>>
      BY <2>1, <2>5, <2>6, <2>7, <3>1 DEF SameSession, busVars
    <3>3. Ran'
      BY <1>0, <2>1, <3>1 DEF ScanInv, Calling, Ran, Begun, Answered, IsStart
    <3> QED
      BY <3>2, <3>3, SessionScans
  <2>8. ASSUME NEW x \in Orders, t.calls = <<x>>, t.b.watchers = backend.watchers \cup {x},
               x.call = c, x.to = backend.owner, x.to # None, x.generation = backend.generation,
               x.step # "only" => c.operation = "Discoverable"
        PROVE  ScanInv'
    BY <1>0, <2>1, <2>4, <2>5, <2>6, <2>8, BeginScans
  <2> QED
    BY <2>6, <2>7, <2>8
<1> QED
  BY <1>1, <1>2

LEMMA BackendScans ==
  ASSUME IInv, ScanInv, BackendStep, UNCHANGED controllerVars
  PROVE  ScanInv'
BY StartScans, StopScans, DeliverScans, QuietScans, LocalErrorScans DEF BackendStep

-----------------------------------------------------------------------------
(* Steps of the bus and the daemon: messages are added, the oldest call may   *)
(* be taken.                                                                 *)

(* The calls that are left, when n have been taken. *)
Handed(n) ==
  /\ \A k \in 1..Len(sent') : k + n \in 1..Len(sent) /\ sent'[k] = sent[k + n]
  /\ \A j \in 1..Len(sent) : j <= n \/ \E k \in 1..Len(sent') : j = k + n

(* Messages ms are added and n calls taken; a StartDiscovery is held or is     *)
(* answered when it is taken.                                                *)
Adds(ms, n) ==
  /\ Environment /\ UNCHANGED controllerVars /\ UNCHANGED instance
  /\ spent'.launches = spent.launches /\ spent'.stopped = spent.stopped
  /\ ms \in Seq(Messages) /\ wire' = wire \o ms
  /\ sent' \in Seq(Calls \cup Stops) /\ Handed(n) /\ n \in {0, 1}
  /\ n = 1 => 1 \in 1..Len(sent)
  /\ \A i \in 1..Len(ms) :
       /\ ms[i].kind # "owner" /\ (TellsOwner(ms[i]) => ms[i].owner = instance)
       /\ ms[i].kind = "reply" /\ IsStart(ms[i].watcher) =>
            /\ ms[i].watcher \in ToSet(sent) \cup held
            /\ ms[i].watcher \notin ToSet(sent') /\ ms[i].watcher \notin held'
            /\ \A j \in 1..Len(ms) : ms[j].kind = "reply" /\ ms[j].watcher = ms[i].watcher => j = i
  /\ \A w \in held' : IsStart(w) => \/ w \in held
                                    \/ n = 1 /\ w = sent[1] /\ w.to = instance /\ instance # None

LEMMA CallsHanded ==
  ASSUME sent \in Seq(Calls \cup Stops)
  PROVE  /\ sent' = sent => Handed(0)
         /\ sent # <<>> /\ sent' = Tail(sent) => Handed(1) /\ 1 \in 1..Len(sent) /\ Oldest = sent[1]
<1>1. CASE sent' = sent
  <2>1. Len(sent) \in Nat
    OBVIOUS
  <2> QED
    BY <1>1, <2>1 DEF Handed
<1>2. CASE sent # <<>> /\ sent' = Tail(sent)
  <2>1. /\ \A k \in 1..Len(sent') : k + 1 \in 1..Len(sent) /\ sent'[k] = sent[k + 1]
        /\ \A j \in 1..Len(sent) : j = 1 \/ \E k \in 1..Len(sent') : j = k + 1
        /\ 1 \in 1..Len(sent) /\ Oldest = sent[1]
    BY <1>2, RestAt DEF Oldest
  <2> QED
    BY <1>2, <2>1 DEF Handed
<1>3. sent # <<>> /\ sent' = Tail(sent) => sent' # sent
  <2>1. sent # <<>> => Len(Tail(sent)) # Len(sent)
    OBVIOUS
  <2> QED
    BY <2>1
<1> QED
  BY <1>1, <1>2, <1>3

(* A StartDiscovery that is taken is not among the calls that are left. *)
LEMMA TakenOnce ==
  ASSUME IInv, ScanInv, sent' \in Seq(Calls \cup Stops), NEW n \in {0, 1}, Handed(n)
  PROVE  /\ ToSet(sent') \subseteq ToSet(sent)
         /\ \A c \in ToSet(sent) : c \in ToSet(sent') \/ (n = 1 /\ c = sent[1])
         /\ n = 1 /\ 1 \in 1..Len(sent) /\ IsStart(sent[1]) =>
              sent[1] \in ToSet(sent) /\ sent[1] \notin ToSet(sent')
<1>0. sent \in Seq(Calls \cup Stops) /\ Len(sent) \in Nat /\ Len(sent') \in Nat /\ SentOnce
  BY DEF IInv, Session, Sound, Base, ScanInv, Calling
<1>1. /\ \A c : c \in ToSet(sent) <=> \E k \in 1..Len(sent) : c = sent[k]
      /\ \A c : c \in ToSet(sent') <=> \E k \in 1..Len(sent') : c = sent'[k]
  BY <1>0 DEF ToSet
<1>2. ToSet(sent') \subseteq ToSet(sent)
  BY <1>1 DEF Handed
<1>3. ASSUME NEW c \in ToSet(sent) PROVE c \in ToSet(sent') \/ (n = 1 /\ c = sent[1])
  <2>1. PICK k \in 1..Len(sent) : c = sent[k]
    BY <1>1
  <2>2. CASE \E i \in 1..Len(sent') : k = i + n
    BY <1>1, <2>1, <2>2 DEF Handed
  <2>3. CASE k <= n
    BY <2>1, <2>3
  <2> QED
    BY <2>1, <2>2, <2>3 DEF Handed
<1>4. ASSUME n = 1, 1 \in 1..Len(sent), IsStart(sent[1]), sent[1] \in ToSet(sent')
      PROVE  FALSE
  <2>1. PICK k \in 1..Len(sent') : sent[1] = sent'[k]
    BY <1>1, <1>4
  <2>2. k + 1 \in 1..Len(sent) /\ sent[k + 1] = sent[1]
    BY <1>4, <2>1 DEF Handed
  <2>3. k + 1 = 1
    BY <1>0, <1>4, <2>2 DEF SentOnce
  <2> QED
    BY <1>0, <2>1, <2>3
<1> QED
  BY <1>1, <1>2, <1>3, <1>4

LEMMA WireAdded ==
  ASSUME wire \in Seq(Messages), NEW ms \in Seq(Messages), wire' = wire \o ms
  PROVE  /\ wire' \in Seq(Messages) /\ Len(wire) \in Nat
         /\ \A k \in 1..Len(wire) : k \in 1..Len(wire') /\ wire'[k] = wire[k]
         /\ \A i \in 1..Len(ms) : Len(wire) + i \in 1..Len(wire') /\ wire'[Len(wire) + i] = ms[i]
         /\ \A k \in 1..Len(wire') : k \in 1..Len(wire) \/ \E i \in 1..Len(ms) : k = Len(wire) + i
<1> DEFINE q == wire \o ms
<1>1. /\ q \in Seq(Messages) /\ Len(wire) \in Nat
      /\ \A k \in 1..Len(wire) : k \in 1..Len(q) /\ q[k] = wire[k]
      /\ \A i \in 1..Len(ms) : Len(wire) + i \in 1..Len(q) /\ q[Len(wire) + i] = ms[i]
      /\ \A k \in 1..Len(q) : k \in 1..Len(wire) \/ \E i \in 1..Len(ms) : k = Len(wire) + i
  BY JoinedAt
<1>2. wire' = q
  OBVIOUS
<1> HIDE DEF q
<1> QED
  BY <1>1, <1>2

LEMMA AddsCalls ==
  ASSUME IInv, ScanInv, NEW ms, NEW n, Adds(ms, n)
  PROVE  /\ Calling'
         /\ \A w \in Begun' : IsStart(w) => w \in Begun
<1>0. /\ wire \in Seq(Messages) /\ sent \in Seq(Calls \cup Stops) /\ SentOnce /\ AnsweredOnce /\ Apart
      /\ ms \in Seq(Messages) /\ n \in {0, 1} /\ Handed(n) /\ sent' \in Seq(Calls \cup Stops)
      /\ Len(sent) \in Nat /\ Len(sent') \in Nat
  BY DEF IInv, Types, Session, Sound, Base, ScanInv, Calling, Adds
<1>1. /\ wire' \in Seq(Messages) /\ Len(wire) \in Nat
      /\ \A k \in 1..Len(wire) : k \in 1..Len(wire') /\ wire'[k] = wire[k]
      /\ \A i \in 1..Len(ms) : Len(wire) + i \in 1..Len(wire') /\ wire'[Len(wire) + i] = ms[i]
      /\ \A k \in 1..Len(wire') : k \in 1..Len(wire) \/ \E i \in 1..Len(ms) : k = Len(wire) + i
  BY <1>0, WireAdded DEF Adds
<1>2. /\ ToSet(sent') \subseteq ToSet(sent)
      /\ n = 1 /\ 1 \in 1..Len(sent) /\ IsStart(sent[1]) =>
           sent[1] \in ToSet(sent) /\ sent[1] \notin ToSet(sent')
  BY <1>0, TakenOnce
<1>3. \A w \in Answered(wire') :
        \/ w \in Answered(wire)
        \/ IsStart(w) => w \in ToSet(sent) \cup held /\ w \notin ToSet(sent') /\ w \notin held'
  <2> SUFFICES ASSUME NEW w \in Answered(wire'), w \notin Answered(wire), IsStart(w)
               PROVE  w \in ToSet(sent) \cup held /\ w \notin ToSet(sent') /\ w \notin held'
    OBVIOUS
  <2>1. PICK k \in 1..Len(wire') : wire'[k].kind = "reply" /\ wire'[k].watcher = w
    BY DEF Answered
  <2>2. PICK i \in 1..Len(ms) : wire'[k] = ms[i]
    BY <1>1, <2>1 DEF Answered
  <2> QED
    BY <2>1, <2>2 DEF Adds
(* A call that is held and was not is the one that was taken. *)
<1>4. \A w \in held' : IsStart(w) => \/ w \in held
                                     \/ w \in ToSet(sent) /\ w \notin ToSet(sent')
  BY <1>0, <1>2 DEF Adds, Handed
<1>5. SentOnce'
  <2>1. \A i, j \in 1..Len(sent') : i + n = j + n => i = j
    BY <1>0
  <2> QED
    BY <1>0, <2>1 DEF SentOnce, Handed, IsStart
<1>6. AnsweredOnce'
  <2> SUFFICES ASSUME NEW i \in 1..Len(wire'), NEW j \in 1..Len(wire'),
                      wire'[i].kind = "reply", IsStart(wire'[i].watcher),
                      wire'[j].kind = "reply", wire'[j].watcher = wire'[i].watcher
               PROVE  i = j
    BY DEF AnsweredOnce, IsStart
  <2>1. ASSUME NEW x \in 1..Len(wire), wire[x].kind = "reply", IsStart(wire[x].watcher)
        PROVE  wire[x].watcher \notin ToSet(sent) \cup held
    BY <1>0, <2>1 DEF Apart, Answered
  <2>2. CASE i \in 1..Len(wire) /\ j \in 1..Len(wire)
    BY <1>0, <1>1, <2>2 DEF AnsweredOnce
  <2>3. CASE i \in 1..Len(wire) /\ \E k \in 1..Len(ms) : j = Len(wire) + k
    BY <1>1, <2>1, <2>3 DEF Adds
  <2>4. CASE j \in 1..Len(wire) /\ \E k \in 1..Len(ms) : i = Len(wire) + k
    BY <1>1, <2>1, <2>4 DEF Adds
  <2>5. CASE \E x, y \in 1..Len(ms) : i = Len(wire) + x /\ j = Len(wire) + y
    BY <1>1, <2>5 DEF Adds
  <2> QED
    BY <1>1, <2>2, <2>3, <2>4, <2>5
<1>7. Apart'
  BY <1>0, <1>2, <1>3, <1>4 DEF Apart, IsStart, Answered
<1>8. \A w \in Begun' : IsStart(w) => w \in Begun
  BY <1>2, <1>3, <1>4 DEF Begun, Answered
<1>9. Ran' /\ TwoCalls'
  <2>1. UNCHANGED <<timers, pending, outcome, backend>>
    BY DEF Adds, Environment, controllerVars
  <2>2. Ran'
    BY <1>8, <2>1, BegunRan
  <2> QED
    BY <2>1, <2>2 DEF ScanInv, Calling, TwoCalls
<1> QED
  BY <1>5, <1>6, <1>7, <1>8, <1>9 DEF Calling

LEMMA AddsLinks ==
  ASSUME IInv, ScanInv, NEW ms, NEW n, Adds(ms, n)
  PROVE  Linked'
<1>0. wire \in Seq(Messages) /\ ms \in Seq(Messages) /\ Linked
  BY DEF IInv, Types, ScanInv, Adds
<1>1. /\ wire' \in Seq(Messages) /\ Len(wire) \in Nat
      /\ \A k \in 1..Len(wire) : k \in 1..Len(wire') /\ wire'[k] = wire[k]
      /\ \A i \in 1..Len(ms) : Len(wire) + i \in 1..Len(wire') /\ wire'[Len(wire) + i] = ms[i]
      /\ \A k \in 1..Len(wire') : k \in 1..Len(wire) \/ \E i \in 1..Len(ms) : k = Len(wire) + i
  BY <1>0, WireAdded DEF Adds
<1>2. backend' = backend /\ instance' = instance /\ spent'.launches = spent.launches
  BY DEF Adds, Environment
<1>3. \A i \in 1..Len(ms) : ms[i].kind # "owner" /\ (TellsOwner(ms[i]) => ms[i].owner = instance)
  BY DEF Adds
<1>4. \A w \in Begun' : IsStart(w) => w \in Begun
  BY AddsCalls
<1>5. \A k \in 1..Len(wire') :
        \/ k \in 1..Len(wire) /\ wire'[k] = wire[k]
        \/ /\ wire'[k].kind # "owner" /\ (TellsOwner(wire'[k]) => wire'[k].owner = instance)
           /\ Len(wire) < k
  <2> SUFFICES ASSUME NEW k \in 1..Len(wire')
               PROVE  \/ k \in 1..Len(wire) /\ wire'[k] = wire[k]
                      \/ /\ wire'[k].kind # "owner"
                         /\ TellsOwner(wire'[k]) => wire'[k].owner = instance
                         /\ Len(wire) < k
    OBVIOUS
  <2>1. ASSUME NEW i \in 1..Len(ms), k = Len(wire) + i
        PROVE  /\ wire'[k].kind # "owner" /\ Len(wire) < k
               /\ TellsOwner(wire'[k]) => wire'[k].owner = instance
    <3>1. wire'[k] = ms[i]
      BY <1>1, <2>1
    <3>2. Len(wire) < k
      BY <1>1, <2>1
    <3> QED
      BY <1>3, <3>1, <3>2
  <2> QED
    BY <1>1, <2>1
<1>6. Numbered'
  BY <1>0, <1>2, <1>4, <1>5 DEF Linked, Numbered, Dated, TellsOwner, IsStart
<1>7. LastWord'
  <2> SUFFICES ASSUME instance # None, NEW k \in 1..Len(wire'), TellsOwner(wire'[k]),
                      wire'[k].owner = instance, NEW j \in 1..Len(wire'), k < j
               PROVE  wire'[j].kind # "owner"
    BY <1>2 DEF LastWord, TellsOwner
  <2>1. CASE j \in 1..Len(wire) /\ wire'[j] = wire[j]
    <3>1. k \in 1..Len(wire) /\ wire'[k] = wire[k]
      BY <1>1, <1>5, <2>1
    <3> QED
      BY <1>0, <2>1, <3>1 DEF Linked, LastWord
  <2> QED
    BY <1>5, <2>1
<1>8. Connected' /\ Inquiries'
  BY <1>0, <1>2, <1>5 DEF Linked, Connected, Inquiries
<1> QED
  BY <1>6, <1>7, <1>8 DEF Linked

(* The StopDiscovery calls for o are still on their way. *)
Keeps(o) == \A c \in ToSet(sent) : IsStop(c, o) => c \in ToSet(sent')

(* A StartDiscovery on o that is performed, and is answered last. *)
Begins(ms, n, o) ==
  \E w \in Begun :
    /\ IsStart(w) /\ w.object = o /\ w.to = instance /\ instance # None
    /\ (w \in held /\ n = 0) \/ (n = 1 /\ w = sent[1])
    /\ \E i \in 1..Len(ms) : Acquires(ms[i], o) /\ \A j \in 1..Len(ms) : i < j => ~Drops(ms[j], o)

LEMMA AddsScans ==
  ASSUME IInv, ScanInv, NEW ms, NEW n, Adds(ms, n), scanning' \subseteq world'.powered,
         \A o \in scanning' : \/ /\ o \in scanning /\ Keeps(o)
                                 /\ \A i \in 1..Len(ms) : ~Drops(ms[i], o)
                              \/ Begins(ms, n, o),
         \A w \in held' : IsStart(w) => (w \in held /\ Keeps(w.object)) \/ (n = 1 /\ w = sent[1])
  PROVE  ScanInv'
<1>0. /\ wire \in Seq(Messages) /\ ms \in Seq(Messages) /\ sent \in Seq(Calls \cup Stops)
      /\ n \in {0, 1} /\ Handed(n) /\ sent' \in Seq(Calls \cup Stops) /\ (n = 1 => 1 \in 1..Len(sent))
      /\ Len(sent) \in Nat /\ Len(sent') \in Nat
      /\ Awaited /\ Serving /\ Unbegun /\ Ended /\ Minded
  BY DEF IInv, Types, Session, Sound, Base, ScanInv, Scans, Adds
<1>1. /\ wire' \in Seq(Messages) /\ Len(wire) \in Nat
      /\ \A k \in 1..Len(wire) : k \in 1..Len(wire') /\ wire'[k] = wire[k]
      /\ \A i \in 1..Len(ms) : Len(wire) + i \in 1..Len(wire') /\ wire'[Len(wire) + i] = ms[i]
      /\ \A k \in 1..Len(wire') : k \in 1..Len(wire) \/ \E i \in 1..Len(ms) : k = Len(wire) + i
  BY <1>0, WireAdded DEF Adds
<1>2. /\ backend' = backend /\ instance' = instance /\ overlooked' = overlooked
      /\ spent'.stopped = spent.stopped
  BY DEF Adds, Environment, historyVars
<1>3. Calling' /\ Linked' /\ \A w \in Begun' : IsStart(w) => w \in Begun
  BY AddsCalls, AddsLinks
<1>4. /\ ToSet(sent') \subseteq ToSet(sent)
      /\ \A c \in ToSet(sent) : c \in ToSet(sent') \/ (n = 1 /\ c = sent[1])
  BY <1>0, TakenOnce
<1>5. Awaited'
  BY <1>0, <1>2, <1>3 DEF Awaited, IsStart
<1>6. \A w \in held' : IsStart(w) => instance # None /\ w.to = instance
  BY <1>0 DEF Adds, Serving
<1>7. Serving'
  <2>1. scanning' # {} => instance # None /\ (backend.started => backend.owner = instance)
    BY <1>0 DEF Begins, Serving, Awaited
  <2> QED
    BY <1>2, <1>6, <2>1 DEF Serving, IsStart
<1>8. Unbegun'
  BY <1>0, <1>2, <1>3 DEF Unbegun, Begins, IsStart
(* What stands for the call that was taken, after stop(). *)
<1>9. ASSUME ~backend.started, instance # None, n = 1, IsStart(sent[1]), sent[1].to = instance
      PROVE  sent[1].object \in overlooked \/ \E c \in ToSet(sent') : IsStop(c, sent[1].object)
  <2>1. \/ sent[1].object \in overlooked
        \/ \E j \in 1..Len(sent) : 1 < j /\ IsStop(sent[j], sent[1].object)
    BY <1>0, <1>9 DEF Ended
  <2>2. ASSUME NEW j \in 1..Len(sent), 1 < j, IsStop(sent[j], sent[1].object)
        PROVE  \E c \in ToSet(sent') : IsStop(c, sent[1].object)
    <3>1. PICK k \in 1..Len(sent') : j = k + 1
      BY <1>0, <1>9, <2>2 DEF Handed
    <3>2. sent'[k] = sent[j] /\ sent'[k] \in ToSet(sent')
      BY <1>0, <1>9, <3>1 DEF Handed, ToSet
    <3> QED
      BY <2>2, <3>2
  <2> QED
    BY <2>1, <2>2
<1>10. Ended'
  <2> SUFFICES ASSUME ~backend.started, instance # None
               PROVE  /\ \A i \in 1..Len(sent') : IsStart(sent'[i]) /\ sent'[i].to = instance =>
                           \/ sent'[i].object \in overlooked
                           \/ \E j \in 1..Len(sent') : i < j /\ IsStop(sent'[j], sent'[i].object)
                      /\ \A w \in held' : IsStart(w) =>
                           w.object \in overlooked \/ \E c \in ToSet(sent') : IsStop(c, w.object)
    BY <1>2 DEF Ended, IsStart, IsStop
  <2>1. ASSUME NEW i \in 1..Len(sent'), IsStart(sent'[i]), sent'[i].to = instance,
               sent'[i].object \notin overlooked
        PROVE  \E j \in 1..Len(sent') : i < j /\ IsStop(sent'[j], sent'[i].object)
    <3>1. i + n \in 1..Len(sent) /\ sent'[i] = sent[i + n]
      BY <1>0 DEF Handed
    <3>2. PICK j \in 1..Len(sent) : i + n < j /\ IsStop(sent[j], sent[i + n].object)
      BY <1>0, <2>1, <3>1 DEF Ended
    <3>3. ~(j <= n)
      BY <1>0, <3>2
    <3>4. PICK k \in 1..Len(sent') : j = k + n
      BY <1>0, <3>3 DEF Handed
    <3>5. i < k /\ sent'[k] = sent[j]
      BY <1>0, <3>2, <3>4 DEF Handed
    <3> QED
      BY <3>1, <3>2, <3>5
  <2>2. ASSUME NEW w \in held', IsStart(w)
        PROVE  w.object \in overlooked \/ \E c \in ToSet(sent') : IsStop(c, w.object)
    <3>1. CASE w \in held /\ Keeps(w.object)
      BY <1>0, <2>2, <3>1 DEF Ended, Keeps
    <3>2. CASE n = 1 /\ w = sent[1]
      BY <1>6, <1>9, <2>2, <3>2
    <3> QED
      BY <2>2, <3>1, <3>2
  <2> QED
    BY <2>1, <2>2
<1>11. Minded'
  <2> SUFFICES ASSUME NEW o \in scanning'
               PROVE  \/ WillEnd(o)'
                      \/ o \in overlooked
                      \/ backend.started /\ (IsOwned(o)' \/ WillBeOwned(o)')
    BY <1>2 DEF Minded
  <2>1. CASE o \in scanning /\ Keeps(o) /\ \A i \in 1..Len(ms) : ~Drops(ms[i], o)
    <3>1. WillEnd(o) => WillEnd(o)'
      BY <1>2, <2>1 DEF WillEnd, IsStop, Keeps
    <3>2. \A k \in 1..Len(wire') :
            \/ k \in 1..Len(wire) /\ wire'[k] = wire[k]
            \/ ~Drops(wire'[k], o)
      BY <1>1, <2>1
    <3>3. IsOwned(o) => IsOwned(o)'
      BY <1>2, <3>2 DEF IsOwned, Drops
    <3>4. ASSUME NEW k \in 1..Len(wire), Acquires(wire[k], o),
                 \A j \in 1..Len(wire) : k < j => ~Drops(wire[j], o)
          PROVE  WillBeOwned(o)'
      <4>1. k \in 1..Len(wire') /\ Acquires(wire'[k], o)
        BY <1>1, <3>4
      <4>2. \A j \in 1..Len(wire') : k < j => ~Drops(wire'[j], o)
        BY <3>2, <3>4
      <4> QED
        BY <1>2, <4>1, <4>2 DEF WillBeOwned, Acquires, Drops, IsStart
    <3> QED
      BY <1>0, <2>1, <3>1, <3>3, <3>4 DEF Minded, WillBeOwned
  <2>2. CASE Begins(ms, n, o)
    <3>1. PICK w \in Begun :
            /\ IsStart(w) /\ w.object = o /\ w.to = instance /\ instance # None
            /\ (w \in held /\ n = 0) \/ (n = 1 /\ w = sent[1])
            /\ \E i \in 1..Len(ms) : /\ Acquires(ms[i], o)
                                     /\ \A j \in 1..Len(ms) : i < j => ~Drops(ms[j], o)
      BY <2>2 DEF Begins
    <3>2. CASE backend.started
      <4>1. PICK i \in 1..Len(ms) : /\ Acquires(ms[i], o)
                                    /\ \A j \in 1..Len(ms) : i < j => ~Drops(ms[j], o)
        BY <3>1
      <4>2. Len(wire) + i \in 1..Len(wire') /\ Acquires(wire'[Len(wire) + i], o)
        BY <1>1, <4>1
      <4>3. \A j \in 1..Len(wire') : Len(wire) + i < j => ~Drops(wire'[j], o)
        <5> SUFFICES ASSUME NEW j \in 1..Len(wire'), Len(wire) + i < j
                     PROVE  ~Drops(wire'[j], o)
          OBVIOUS
        <5>0. j \notin 1..Len(wire)
          BY <1>1
        <5>1. PICK x \in 1..Len(ms) : j = Len(wire) + x
          BY <1>1, <5>0
        <5>2. i < x /\ wire'[j] = ms[x]
          BY <1>1, <5>1
        <5> QED
          BY <4>1, <5>2
      <4> QED
        BY <1>2, <3>2, <4>2, <4>3 DEF WillBeOwned, Acquires, Drops, IsStart
    <3>3. CASE ~backend.started
      <4>1. w.object \in overlooked \/ \E c \in ToSet(sent') : IsStop(c, w.object)
        <5>1. CASE n = 1 /\ w = sent[1]
          BY <1>9, <3>1, <3>3, <5>1
        <5>2. CASE w \in held /\ n = 0
          BY <1>0, <1>4, <3>1, <3>3, <5>2 DEF Ended
        <5> QED
          BY <3>1, <5>1, <5>2
      <4> QED
        BY <1>2, <3>1, <3>3, <4>1 DEF WillEnd, IsStop
    <3> QED
      BY <3>2, <3>3
  <2> QED
    BY <2>1, <2>2
<1> QED
  BY <1>3, <1>5, <1>7, <1>8, <1>10, <1>11 DEF ScanInv, Scans

(* What the daemon signals drops no session that goes on. *)
Spares(m) == m.kind = "changed" \/ (m.kind = "removed" /\ m.object \notin scanning')

LEMMA SparingSignals ==
  ASSUME NEW m, Spares(m)
  PROVE  /\ m.kind # "owner" /\ m.kind # "reply" /\ ~TellsOwner(m)
         /\ \A o \in scanning' : ~Drops(m, o)
BY DEF Spares, TellsOwner, Drops

LEMMA SignalsSpare ==
  ASSUME Types, WorldMoves, UNCHANGED instance, scanning' \cap (world.present \ world'.present) = {}
  PROVE  Signals \in Seq(Messages) /\ \A i \in 1..Len(Signals) : Spares(Signals[i])
<1> DEFINE gone == world.present \ world'.present
           first == SetToSeq(gone \cap Devices)
           last == SetToSeq(gone \cap Adapters)
           order == first \o last
           version == world.version + 1
           change == [kind |-> "changed", from |-> instance, version |-> version]
           removal(i) == [kind |-> "removed", object |-> order[i], from |-> instance, version |-> version]
<1>0. Signals \in Seq(Messages)
  BY SignalsTell
<1>1. Signals = IF instance = None THEN <<>> ELSE IF gone = {} THEN <<change>>
                ELSE [i \in DOMAIN order |-> removal(i)]
  BY DEF Signals
<1>2. gone \in SUBSET Objects
  BY DEF Types, Worlds
<1>3. order \in Seq(gone) /\ DOMAIN order = 1..Len(order) /\ Len(order) \in Nat
  <2>1. IsFiniteSet(gone \cap Devices) /\ IsFiniteSet(gone \cap Adapters)
    BY <1>2, FS_Subset, BlueZConstants
  <2>2. first \in Seq(gone \cap Devices) /\ last \in Seq(gone \cap Adapters)
    BY <2>1, SequenceOf
  <2> HIDE DEF first, last, gone
  <2>3. first \in Seq(gone) /\ last \in Seq(gone)
    BY <2>2
  <2> QED
    BY <2>3
<1> HIDE DEF order
<1>4. \A i \in 1..Len(order) : order[i] \in gone
  BY <1>3
<1>5. CASE instance = None
  <2>1. Signals = <<>>
    BY <1>1, <1>5
  <2> QED
    BY <1>0, <2>1
<1>6. CASE instance # None /\ gone = {}
  <2>1. Signals = <<change>> /\ Spares(change)
    BY <1>1, <1>6 DEF Spares
  <2> HIDE DEF change
  <2> QED
    BY <1>0, <2>1
<1>7. CASE instance # None /\ gone # {}
  <2>1. \A i \in 1..Len(order) : Spares(removal(i))
    BY <1>4 DEF Spares
  <2>2. Signals = [i \in 1..Len(order) |-> removal(i)]
    BY <1>1, <1>3, <1>7
  <2> HIDE DEF removal, gone
  <2>3. Len(Signals) = Len(order) /\ \A i \in 1..Len(order) : Signals[i] = removal(i)
    BY <1>3, <2>2
  <2> QED
    BY <1>0, <2>1, <2>3
<1> QED
  BY <1>5, <1>6, <1>7

(* Nothing is called or taken, and no session begins. *)
LEMMA QuietDaemonScans ==
  ASSUME IInv, ScanInv, Environment, UNCHANGED controllerVars, UNCHANGED <<sent, held, instance>>,
         spent'.launches = spent.launches, spent'.stopped = spent.stopped,
         NEW ms \in Seq(Messages), wire' = wire \o ms,
         \A i \in 1..Len(ms) : Spares(ms[i]) \/ ms[i].kind = "agent",
         scanning' \subseteq scanning, scanning' \subseteq world'.powered
  PROVE  ScanInv'
<1>0. sent \in Seq(Calls \cup Stops)
  BY DEF IInv, Session, Sound, Base
<1>1. \A i \in 1..Len(ms) :
        /\ ms[i].kind # "owner" /\ ms[i].kind # "reply" /\ ~TellsOwner(ms[i])
        /\ \A o \in scanning' : ~Drops(ms[i], o)
  BY SparingSignals DEF TellsOwner, Drops
<1>2. Adds(ms, 0)
  <2>1. Handed(0) /\ sent' \in Seq(Calls \cup Stops) /\ held' = held /\ UNCHANGED instance
    BY <1>0, CallsHanded
  <2> QED
    BY <1>1, <2>1 DEF Adds
<1>3. \A o : Keeps(o)
  BY DEF Keeps
<1> QED
  BY <1>1, <1>2, <1>3, AddsScans

LEMMA WorldScans ==
  ASSUME IInv, ScanInv, UNCHANGED controllerVars, NEW o \in Objects, Plug(o) \/ Unplug(o) \/ TogglePower(o)
  PROVE  ScanInv'
<1>1. /\ Types /\ world \in Worlds /\ world.present \in SUBSET Objects
      /\ world.powered \in SUBSET Objects /\ world.incarnation \in [Objects -> Nat]
      /\ spent \in SpentType
  BY DEF IInv, Types, Worlds, SpentType
<1>2. /\ Environment /\ wire' = wire \o Signals /\ UNCHANGED <<sent, held, instance>>
      /\ spent'.launches = spent.launches /\ spent'.stopped = spent.stopped
  <2>1. Disturbed /\ Environment /\ wire' = wire \o Signals /\ UNCHANGED <<sent, held, instance>>
    BY DEF Plug, Unplug, TogglePower
  <2>2. spent' = [spent EXCEPT !.changes = spent.changes + 1]
    BY <2>1 DEF Disturbed
  <2> QED
    BY <1>1, <2>1, <2>2 DEF SpentType
<1>3. /\ WorldMoves /\ scanning' \subseteq scanning /\ scanning' \subseteq world'.powered
      /\ scanning' \subseteq world'.present
  <2>1. CASE Plug(o)
    <3> DEFINE incarnation == [world.incarnation EXCEPT ![o] = @ + 1]
    <3>1. world.incarnation[o] + 1 \in Nat
      BY <1>1
    <3>2. incarnation \in [Objects -> Nat] /\ \A p \in Objects : p # o => incarnation[p] = world.incarnation[p]
      BY <1>1, <3>1
    <3>3. o \notin world.present /\ Moved(world.present \cup {o}, world.powered, incarnation)
      BY <2>1 DEF Plug
    <3> HIDE DEF incarnation
    <3>4. WorldMoves
      BY <1>1, <3>2, <3>3, MovedDoes
    <3> QED
      BY <3>3, <3>4 DEF Moved
  <2>2. CASE Unplug(o)
    <3>1. WorldMoves
      BY <1>1, <2>2, MovedDoes DEF Unplug, Without
    <3>2. Moved(Without(o), world.powered, world.incarnation)
      BY <2>2 DEF Unplug
    <3> QED
      BY <3>1, <3>2 DEF Moved
  <2>3. CASE TogglePower(o)
    <3> DEFINE powered == IF o \in world.powered THEN world.powered \ {o} ELSE world.powered \cup {o}
    <3>1. powered \in SUBSET Objects /\ Moved(world.present, powered, world.incarnation)
      BY <1>1, <2>3 DEF TogglePower
    <3> HIDE DEF powered
    <3>2. WorldMoves
      BY <1>1, <3>1, MovedDoes
    <3> QED
      BY <3>1, <3>2 DEF Moved
  <2> QED
    BY <2>1, <2>2, <2>3
<1>4. Signals \in Seq(Messages) /\ \A i \in 1..Len(Signals) : Spares(Signals[i])
  BY <1>1, <1>2, <1>3, SignalsSpare
<1> DEFINE ms == Signals
<1>5. ms \in Seq(Messages) /\ wire' = wire \o ms /\ \A i \in 1..Len(ms) : Spares(ms[i])
  BY <1>2, <1>4
<1> HIDE DEF ms
<1> QED
  BY <1>2, <1>3, <1>5, QuietDaemonScans

LEMMA AgentScans ==
  ASSUME IInv, ScanInv, UNCHANGED controllerVars, NEW d \in Devices, AgentCall(d)
  PROVE  ScanInv'
<1> DEFINE m == [kind |-> "agent", from |-> instance, object |-> d, version |-> 0]
           ms == <<m>>
<1>1. /\ instance # None /\ wire' = Append(wire, m) /\ Environment
      /\ UNCHANGED <<sent, held, world, instance, scanning>>
      /\ spent' = [spent EXCEPT !.agentCalls = spent.agentCalls + 1]
  BY DEF AgentCall
<1>2. wire \in Seq(Messages) /\ instance \in Owners /\ spent \in SpentType /\ scanning \subseteq world.powered
  BY DEF IInv, Types, SpentType, ScanInv, Scans, Serving
<1>3. m \in Messages /\ m.kind = "agent"
  BY <1>1, <1>2 DEF Messages, AgentCalls, Owners, Objects
<1>4. spent'.launches = spent.launches /\ spent'.stopped = spent.stopped
  BY <1>1, <1>2 DEF SpentType
<1> HIDE DEF m
<1>5. wire' = wire \o ms /\ ms \in Seq(Messages) /\ Len(ms) = 1 /\ ms[1] = m
  BY <1>1, <1>2, <1>3, OneJoined
<1> HIDE DEF ms
<1> QED
  BY <1>1, <1>2, <1>3, <1>4, <1>5, QuietDaemonScans

-----------------------------------------------------------------------------
(* The daemon takes a call. *)

(* Only the StopDiscovery that is handled goes. *)
LEMMA OthersKept ==
  ASSUME IInv, ScanInv, sent' \in Seq(Calls \cup Stops), NEW n \in {0, 1}, Handed(n),
         NEW o, n = 1 => ~IsStop(sent[1], o)
  PROVE  Keeps(o)
BY TakenOnce DEF Keeps

LEMMA TakeScans ==
  ASSUME IInv, ScanInv, UNCHANGED controllerVars, Take, UNCHANGED <<world, scanning>>,
         held' = held \/ (held' = held \cup {Oldest} /\ Oldest.to = instance),
         Oldest.kind # "stop" \/ Oldest.to # instance,
         NEW ms \in Seq(Messages), wire' = wire \o ms,
         \A i \in 1..Len(ms) :
           /\ ms[i].kind = "reply" /\ ~IsStart(ms[i].watcher)
           /\ TellsOwner(ms[i]) => ms[i].owner = instance
           /\ \A o \in scanning : ~Drops(ms[i], o)
  PROVE  ScanInv'
<1>0. sent \in Seq(Calls \cup Stops) /\ Numbered /\ Serving
  BY DEF IInv, Session, Sound, Base, ScanInv, Linked, Scans
<1>1. /\ sent # <<>> /\ sent' = Tail(sent) /\ UNCHANGED <<instance, spent>> /\ Environment
      /\ sent' \in Seq(Calls \cup Stops)
  BY TakeDoes DEF Take
<1>2. Handed(1) /\ 1 \in 1..Len(sent) /\ Oldest = sent[1]
  BY <1>0, <1>1, CallsHanded
<1>3. IsStart(Oldest) => Oldest.to # None
  <2>1. Oldest \in Begun
    BY <1>2 DEF Begun, ToSet
  <2> QED
    BY <1>0, <2>1 DEF Numbered
<1>4. \A w \in held' : IsStart(w) => \/ w \in held
                                     \/ w = sent[1] /\ w.to = instance /\ instance # None
  BY <1>2, <1>3
<1>5. Adds(ms, 1)
  <2>1. /\ \A i \in 1..Len(ms) : ms[i].kind # "owner" /\ (TellsOwner(ms[i]) => ms[i].owner = instance)
        /\ \A i \in 1..Len(ms) : ~(ms[i].kind = "reply" /\ IsStart(ms[i].watcher))
        /\ 1 \in {0, 1}
    OBVIOUS
  <2> QED
    BY <1>1, <1>2, <1>4, <2>1 DEF Adds
<1>6. \A o : ~IsStop(sent[1], o)
  BY <1>2 DEF IsStop
<1>7. \A o : Keeps(o)
  BY <1>1, <1>2, <1>6, OthersKept
<1>8. scanning' \subseteq world'.powered /\ \A w \in held' : w \in held \/ w = sent[1]
  BY <1>0, <1>2 DEF Serving
<1> QED
  BY <1>5, <1>7, <1>8, AddsScans

LEMMA QueryScans ==
  ASSUME IInv, ScanInv, UNCHANGED controllerVars, Undeliverable \/ HandleQuery
  PROVE  ScanInv'
<1>1. /\ Take /\ UNCHANGED <<held, world, scanning>> /\ Types /\ wire \in Seq(Messages)
      /\ Oldest \in Calls \cup Stops /\ scanning \subseteq world.powered
  BY TakeDoes DEF Undeliverable, HandleQuery, IInv, Types, ScanInv, Scans, Serving
<1>2. CASE Undeliverable
  <2> DEFINE ms == <<>>
  <2>1. ms \in Seq(Messages) /\ Len(ms) = 0 /\ wire' = wire \o ms
    BY <1>1, <1>2 DEF Undeliverable
  <2> HIDE DEF ms
  <2>2. Oldest.to # instance
    BY <1>2 DEF Undeliverable
  <2>3. \A i \in 1..Len(ms) :
          /\ ms[i].kind = "reply" /\ ~IsStart(ms[i].watcher)
          /\ TellsOwner(ms[i]) => ms[i].owner = instance
          /\ \A o \in scanning : ~Drops(ms[i], o)
    BY <2>1
  <2> QED
    BY <1>1, <2>1, <2>2, <2>3, TakeScans
<1>3. CASE HandleQuery
  <2>1. /\ wire' = Append(wire, Answer(Oldest)) \/ wire' = Append(wire, Failure(Oldest))
        /\ Oldest.kind \in {"owner", "register", "refresh"}
    BY <1>3 DEF HandleQuery
  <2>2. Oldest \in Calls
    BY <1>1, <2>1, CallKinds DEF Calls
  <2>3. ASSUME NEW m \in {Answer(Oldest), Failure(Oldest)}, wire' = Append(wire, m) PROVE ScanInv'
    <3>1. /\ m \in Messages /\ m.kind = "reply" /\ m.watcher = Oldest
          /\ m.error = "none" => m.owner = instance /\ m.world = world
      BY <1>1, <2>2, AnswerTyped
    <3>2. ~IsStart(m.watcher) /\ (TellsOwner(m) => m.owner = instance)
      BY <2>1, <3>1 DEF IsStart, TellsOwner
    <3>3. \A o \in scanning : ~Drops(m, o)
      BY <1>1, <2>1, <3>1 DEF Drops
    <3> DEFINE ms == <<m>>
    <3>4. wire' = wire \o ms /\ ms \in Seq(Messages) /\ Len(ms) = 1 /\ ms[1] = m
      BY <1>1, <2>3, <3>1, OneJoined
    <3> HIDE DEF ms
    <3> QED
      BY <1>1, <2>1, <3>1, <3>2, <3>3, <3>4, TakeScans
  <2> QED
    BY <2>1, <2>3
<1> QED
  BY <1>2, <1>3

LEMMA InOrderOnce ==
  ASSUME NEW S, IsFiniteSet(S)
  PROVE  \A i, j \in 1..Len(SetToSeq(S)) : SetToSeq(S)[i] = SetToSeq(S)[j] => i = j
<1> DEFINE n == Cardinality(S)  order == SetToSeq(S)
<1>1. n \in Nat /\ ExistsBijection(1..n, S)
  BY FS_CardinalityType
<1>2. PICK f \in Bijection(1..n, S) : TRUE
  BY <1>1 DEF ExistsBijection
<1>3. f \in [1..n -> S] /\ IsInjective(f)
  BY <1>2 DEF Bijection, Injection
<1>4. order \in [1..n -> S] /\ IsInjective(order)
  BY <1>3 DEF SetToSeq
<1> HIDE DEF order
<1>5. Len(order) = n
  BY <1>1, <1>4
<1> QED
  BY <1>4, <1>5 DEF IsInjective, order

LEMMA HandleStopScans ==
  ASSUME IInv, ScanInv, UNCHANGED controllerVars, HandleStop
  PROVE  ScanInv'
<1> DEFINE ended == Ending(Oldest.object)
           order == SetToSeq(ended)
           ms == [i \in 1..Cardinality(ended) |-> Failure(order[i])]
<1>1. /\ Take /\ UNCHANGED world /\ Types /\ wire \in Seq(Messages)
      /\ held \subseteq Orders /\ IsFiniteSet(held) /\ Oldest.kind = "stop"
      /\ scanning' = scanning \ {Oldest.object}
      /\ held' = held \ ended /\ wire' = wire \o ms /\ Serving
  BY DEF HandleStop, IInv, Types, ScanInv, Scans
<1>2. /\ sent \in Seq(Calls \cup Stops) /\ sent' \in Seq(Calls \cup Stops)
      /\ sent # <<>> /\ sent' = Tail(sent)
      /\ Environment /\ UNCHANGED <<instance, spent>>
  BY <1>1, TakeDoes DEF Take, IInv, Session, Sound, Base
<1>3. Handed(1) /\ 1 \in 1..Len(sent) /\ Oldest = sent[1]
  BY <1>2, CallsHanded
<1>4. /\ ended \subseteq held
      /\ \A w \in held' : IsStart(w) => w.object # Oldest.object
  BY <1>1 DEF Ending, IsStart
<1> HIDE DEF ended
<1>5. IsFiniteSet(ended)
  BY <1>1, <1>4, FS_Subset
<1>6. /\ Cardinality(ended) \in Nat /\ Len(order) = Cardinality(ended)
      /\ \A i \in 1..Cardinality(ended) : order[i] \in ended
      /\ \A i, j \in 1..Cardinality(ended) : order[i] = order[j] => i = j
  BY <1>5, SequenceOf, InOrderOnce
<1> HIDE DEF order
<1>7. \A i \in 1..Cardinality(ended) :
        /\ Failure(order[i]) \in Messages /\ Failure(order[i]).kind = "reply"
        /\ Failure(order[i]).watcher = order[i] /\ Failure(order[i]).error = "Upstream"
  <2> SUFFICES ASSUME NEW i \in 1..Cardinality(ended)
               PROVE  /\ Failure(order[i]) \in Messages /\ Failure(order[i]).kind = "reply"
                      /\ Failure(order[i]).watcher = order[i] /\ Failure(order[i]).error = "Upstream"
    OBVIOUS
  <2>1. order[i] \in Calls
    BY <1>1, <1>4, <1>6 DEF Calls
  <2> QED
    BY <1>1, <2>1, AnswerTyped
<1>8. /\ ms \in Seq(Messages) /\ Len(ms) = Cardinality(ended)
      /\ \A i \in 1..Len(ms) : ms[i] = Failure(order[i])
  BY <1>6, <1>7
<1> HIDE DEF ms
<1>9. \A i \in 1..Len(ms) :
        /\ ms[i].kind # "owner" /\ ~TellsOwner(ms[i]) /\ \A o : ~Drops(ms[i], o)
        /\ ms[i].watcher \in held /\ ms[i].watcher \notin held'
        /\ \A j \in 1..Len(ms) : ms[j].watcher = ms[i].watcher => j = i
  BY <1>1, <1>4, <1>6, <1>7, <1>8 DEF TellsOwner, Drops
<1>10. \A w \in held : IsStart(w) => w \notin ToSet(sent')
  <2>1. ToSet(sent') \subseteq ToSet(sent)
    BY <1>2, <1>3, TakenOnce
  <2> QED
    BY <2>1 DEF ScanInv, Calling, Apart
<1>11. Adds(ms, 1)
  <2>1. held' \subseteq held /\ 1 \in {0, 1}
    BY <1>1
  <2> QED
    BY <1>1, <1>2, <1>3, <1>8, <1>9, <1>10, <2>1 DEF Adds
<1>12. \A o : o # Oldest.object => Keeps(o)
  BY <1>2, <1>3, OthersKept DEF IsStop
<1>13. scanning' \subseteq world'.powered
  BY <1>1 DEF Serving
<1> QED
  BY <1>1, <1>4, <1>9, <1>11, <1>12, <1>13, AddsScans

(* What performing an operation does to the sessions. *)
LEMMA PerformedScans ==
  ASSUME IInv, ScanInv, NEW w \in Orders, Performed(w)
  PROVE  /\ scanning' \subseteq world'.powered
         /\ world' # world => ~IsStart(w) /\ scanning' \cap (world.present \ world'.present) = {}
         /\ \A o \in scanning' : \/ o \in scanning /\ ~Drops(Answer(w), o)
                                 \/ IsStart(w) /\ o = w.object
<1>0. scanning \subseteq world.powered /\ Types
  BY DEF IInv, ScanInv, Scans, Serving
<1>1. /\ w.kind = "operation" /\ Answer(w).kind = "reply" /\ Answer(w).watcher = w
  BY <1>0, AnswerTyped DEF Orders, Calls
<1> HIDE DEF Answer
<1>2. CASE w.call.operation = "StartDiscovery"
  BY <1>0, <1>1, <1>2 DEF Performed, Drops, IsStart
<1>3. CASE w.call.operation = "StopDiscovery"
  BY <1>0, <1>1, <1>3 DEF Performed, Drops, IsStart
<1>4. CASE w.call.operation \notin {"StartDiscovery", "StopDiscovery"}
  <2>1. \/ UNCHANGED <<world, scanning>>
        \/ Moved(world.present, world.powered \cup {w.object}, world.incarnation)
        \/ Moved(world.present, world.powered \ {w.object}, world.incarnation)
        \/ Moved(Without(w.object), world.powered, world.incarnation)
    BY <1>4 DEF Performed
  <2>2. /\ scanning' \subseteq scanning /\ scanning' \subseteq world'.powered
        /\ world' # world => scanning' \subseteq world'.present
    BY <1>0, <2>1 DEF Moved
  <2>3. \A o : ~Drops(Answer(w), o)
    BY <1>1, <1>4 DEF Drops
  <2> QED
    BY <1>4, <2>2, <2>3 DEF IsStart
<1> QED
  BY <1>2, <1>3, <1>4

(* An operation that is taken, or was held, is handled: one message answers  *)
(* it, the others are signals.                                               *)
Handling(w, n) ==
  /\ Environment /\ UNCHANGED controllerVars /\ UNCHANGED <<instance, spent>>
  /\ sent' \in Seq(Calls \cup Stops) /\ Handed(n) /\ n \in {0, 1} /\ w \in Orders
  /\ \/ n = 1 /\ 1 \in 1..Len(sent) /\ w = sent[1] /\ w.to = instance /\ held' = held
     \/ n = 0 /\ w \in held /\ held' = held \ {w}

(* What comes of the sessions, with m for an answer. *)
Continues(w, m) ==
  /\ scanning' \subseteq world'.powered
  /\ \A o \in scanning' : \/ o \in scanning /\ ~Drops(m, o)
                          \/ IsStart(w) /\ o = w.object /\ m.error = "none"

LEMMA HandlingScans ==
  ASSUME IInv, ScanInv, NEW w, NEW n, Handling(w, n),
         NEW m \in Messages, m.kind = "reply", m.watcher = w, Continues(w, m),
         NEW ms \in Seq(Messages), wire' = wire \o ms,
         \E i \in 1..Len(ms) : ms[i] = m /\ \A j \in 1..Len(ms) : j # i => Spares(ms[j])
  PROVE  ScanInv'
<1>0. /\ sent \in Seq(Calls \cup Stops) /\ sent' \in Seq(Calls \cup Stops) /\ Handed(n) /\ n \in {0, 1}
      /\ Numbered /\ Serving /\ Apart
      /\ w.kind = "operation" /\ UNCHANGED instance
  BY DEF IInv, Session, Sound, Base, ScanInv, Calling, Linked, Scans, Handling, Orders
<1>1. PICK i \in 1..Len(ms) : ms[i] = m /\ \A j \in 1..Len(ms) : j # i => Spares(ms[j])
  OBVIOUS
<1>2. w \in Begun /\ w \in ToSet(sent) \cup held
  BY DEF Handling, Begun, ToSet
<1>3. ToSet(sent') \subseteq ToSet(sent) /\ held' \subseteq held
  BY <1>0, TakenOnce DEF Handling
<1>4. IsStart(w) => /\ w \notin ToSet(sent') /\ w \notin held'
                    /\ w.to = instance /\ instance # None
  <2>1. CASE n = 1
    <3>1. IsStart(w) => w \in ToSet(sent) /\ w \notin ToSet(sent')
      BY <1>0, <2>1, TakenOnce DEF Handling
    <3> QED
      BY <1>0, <1>2, <2>1, <3>1 DEF Handling, Apart, Numbered
  <2>2. CASE n = 0
    BY <1>0, <1>3, <2>2 DEF Handling, Apart, Serving
  <2> QED
    BY <1>0, <2>1, <2>2
<1>5. Adds(ms, n)
  <2>1. \A j \in 1..Len(ms) : ms[j].kind # "owner" /\ ~TellsOwner(ms[j])
    BY <1>0, <1>1, SparingSignals DEF TellsOwner
  <2>2. \A j \in 1..Len(ms) : ms[j].kind = "reply" => j = i /\ ms[j].watcher = w
    BY <1>1, SparingSignals
  <2>3. \A j \in 1..Len(ms) :
          ms[j].kind = "reply" /\ IsStart(ms[j].watcher) =>
            /\ ms[j].watcher \in ToSet(sent) \cup held
            /\ ms[j].watcher \notin ToSet(sent') /\ ms[j].watcher \notin held'
            /\ \A k \in 1..Len(ms) : ms[k].kind = "reply" /\ ms[k].watcher = ms[j].watcher => k = j
    BY <1>2, <1>4, <2>2
  <2>4. n = 1 => 1 \in 1..Len(sent)
    BY DEF Handling
  <2>5. spent'.launches = spent.launches /\ spent'.stopped = spent.stopped
    BY DEF Handling
  <2> QED
    BY <1>0, <1>3, <2>1, <2>3, <2>4, <2>5 DEF Adds, Handling
<1>6. \A o : Keeps(o)
  BY <1>0, OthersKept DEF Handling, IsStop
<1>7. ASSUME NEW o \in scanning'
      PROVE  \/ o \in scanning /\ Keeps(o) /\ \A j \in 1..Len(ms) : ~Drops(ms[j], o)
             \/ Begins(ms, n, o)
  <2>1. \A j \in 1..Len(ms) : j # i => ~Drops(ms[j], o)
    BY <1>1, SparingSignals
  <2>2. CASE o \in scanning /\ ~Drops(m, o)
    BY <1>1, <1>6, <2>1, <2>2
  <2>3. CASE IsStart(w) /\ o = w.object /\ m.error = "none"
    <3>1. Acquires(ms[i], o) /\ i \in Nat
      BY <1>1, <1>4, <2>3 DEF Acquires
    <3>2. \A j \in 1..Len(ms) : i < j => ~Drops(ms[j], o)
      BY <2>1, <3>1
    <3>3. (w \in held /\ n = 0) \/ (n = 1 /\ w = sent[1])
      BY DEF Handling
    <3> QED
      BY <1>2, <1>4, <2>3, <3>1, <3>2, <3>3 DEF Begins
  <2> QED
    BY <1>7, <2>2, <2>3 DEF Continues
<1>8. \A w2 \in held' : w2 \in held /\ Keeps(w2.object)
  BY <1>3, <1>6
<1> QED
  BY <1>5, <1>7, <1>8, AddsScans DEF Continues

LEMMA HandledScans ==
  ASSUME IInv, ScanInv, NEW w, NEW n, Handling(w, n), Handled(w)
  PROVE  ScanInv'
<1>1. /\ Types /\ world \in Worlds /\ wire \in Seq(Messages) /\ w \in Orders /\ w \in Calls
      /\ UNCHANGED instance
  BY DEF IInv, Types, Handling, Calls
<1> DEFINE a == Answer(w)  f == Failure(w)
<1>2. /\ a \in Messages /\ a.kind = "reply" /\ a.watcher = w /\ a.error = "none"
      /\ f \in Messages /\ f.kind = "reply" /\ f.watcher = w /\ f.error = "Upstream"
  BY <1>1, AnswerTyped
(* One message only. *)
<1>3. ASSUME NEW m \in {a, f}, wire' = Append(wire, m), Continues(w, m)
      PROVE  ScanInv'
  <2> HIDE DEF a, f
  <2>1. m \in Messages /\ m.kind = "reply" /\ m.watcher = w
    BY <1>2
  <2> DEFINE ms == <<m>>
  <2>2. wire' = wire \o ms /\ ms \in Seq(Messages) /\ Len(ms) = 1 /\ ms[1] = m
    BY <1>1, <1>3, <2>1, OneJoined
  <2> HIDE DEF ms
  <2>3. \E i \in 1..Len(ms) : ms[i] = m /\ \A j \in 1..Len(ms) : j # i => Spares(ms[j])
    BY <2>2
  <2> QED
    BY <1>3, <2>1, <2>2, <2>3, HandlingScans
<1>4. CASE wire' = Append(wire, Failure(w)) /\ UNCHANGED <<world, scanning>>
  <2>1. Continues(w, f)
    BY <1>2, <1>4 DEF Continues, Drops, ScanInv, Scans, Serving
  <2> QED
    BY <1>3, <1>4, <2>1
<1>5. Performed(w) => Continues(w, a)
  BY <1>1, <1>2, PerformedScans DEF Continues
<1>6. ASSUME Performed(w), world' = world, wire' \in {wire \o <<>> \o <<a>>, wire \o <<a>> \o <<>>}
      PROVE  ScanInv'
  <2>1. Continues(w, a) /\ a \in Messages
    BY <1>2, <1>5, <1>6
  <2> HIDE DEF a
  <2>2. wire' = Append(wire, a)
    BY <1>1, <1>6, <2>1
  <2> QED
    BY <1>3, <2>1, <2>2
<1>7. ASSUME Performed(w), world' # world, wire' \in {wire \o Signals \o <<a>>, wire \o <<a>> \o Signals}
      PROVE  ScanInv'
  <2>0. WorldMoves /\ scanning' \cap (world.present \ world'.present) = {} /\ Continues(w, a)
    BY <1>1, <1>5, <1>7, PerformedMoves, PerformedScans
  <2>1. Signals \in Seq(Messages) /\ \A i \in 1..Len(Signals) : Spares(Signals[i])
    BY <1>1, <2>0, SignalsSpare
  <2>2. a \in Messages
    BY <1>2
  <2> DEFINE signals == Signals  last == <<a>>
  <2>3. /\ last \in Seq(Messages) /\ Len(last) = 1 /\ last[1] = a /\ signals \in Seq(Messages)
        /\ \A i \in 1..Len(signals) : Spares(signals[i])
        /\ wire' \in {wire \o signals \o last, wire \o last \o signals}
    <3>1. wire' \in {wire \o signals \o last, wire \o last \o signals}
      BY <1>7
    <3>2. last \in Seq(Messages) /\ Len(last) = 1 /\ last[1] = a
      BY <2>2
    <3> QED
      BY <2>1, <3>1, <3>2
  <2> HIDE DEF a, last, signals
  <2>4. (wire \o signals) \o last = wire \o (signals \o last)
    BY <1>1, <2>3, Associative
  <2>5. (wire \o last) \o signals = wire \o (last \o signals)
    BY <1>1, <2>3, Associative
  <2>6. CASE wire' = wire \o (signals \o last)
    <3> DEFINE ms == signals \o last
    <3>1. /\ ms \in Seq(Messages) /\ wire' = wire \o ms /\ Len(signals) \in Nat
          /\ \A k \in 1..Len(signals) : k \in 1..Len(ms) /\ ms[k] = signals[k]
          /\ \A i \in 1..Len(last) : Len(signals) + i \in 1..Len(ms) /\ ms[Len(signals) + i] = last[i]
          /\ \A k \in 1..Len(ms) : k \in 1..Len(signals) \/ \E i \in 1..Len(last) : k = Len(signals) + i
      <4>1. signals \in Seq(Messages) /\ last \in Seq(Messages)
        BY <2>3
      <4> QED
        BY <4>1, <2>6, JoinedAt
    <3> HIDE DEF ms
    <3>2. Len(signals) + 1 \in 1..Len(ms) /\ ms[Len(signals) + 1] = a
      BY <2>3, <3>1
    <3>3. \A j \in 1..Len(ms) : j # Len(signals) + 1 => Spares(ms[j])
      BY <2>3, <3>1
    <3>4. \E i \in 1..Len(ms) : ms[i] = a /\ \A j \in 1..Len(ms) : j # i => Spares(ms[j])
      BY <3>2, <3>3
    <3> QED
      BY <1>2, <2>0, <3>1, <3>4, HandlingScans
  <2>7. CASE wire' = wire \o (last \o signals)
    <3> DEFINE ms == last \o signals
    <3>1. /\ ms \in Seq(Messages) /\ wire' = wire \o ms
          /\ \A k \in 1..Len(last) : k \in 1..Len(ms) /\ ms[k] = last[k]
          /\ \A i \in 1..Len(signals) : Len(last) + i \in 1..Len(ms) /\ ms[Len(last) + i] = signals[i]
          /\ \A k \in 1..Len(ms) : k \in 1..Len(last) \/ \E i \in 1..Len(signals) : k = Len(last) + i
      <4>1. signals \in Seq(Messages) /\ last \in Seq(Messages)
        BY <2>3
      <4> QED
        BY <4>1, <2>7, JoinedAt
    <3> HIDE DEF ms
    <3>2. 1 \in 1..Len(ms) /\ ms[1] = a
      BY <2>3, <3>1
    <3>3. \A j \in 1..Len(ms) : j # 1 => Spares(ms[j])
      BY <2>3, <3>1
    <3>4. \E i \in 1..Len(ms) : ms[i] = a /\ \A j \in 1..Len(ms) : j # i => Spares(ms[j])
      BY <3>2, <3>3
    <3> QED
      BY <1>2, <2>0, <3>1, <3>4, HandlingScans
  <2> QED
    BY <2>3, <2>4, <2>5, <2>6, <2>7
<1>8. CASE Performed(w) /\ wire' \in {wire \o (IF world' = world THEN <<>> ELSE Signals) \o <<Answer(w)>>,
                                      wire \o <<Answer(w)>> \o (IF world' = world THEN <<>> ELSE Signals)}
  BY <1>6, <1>7, <1>8
<1> QED
  BY <1>4, <1>8 DEF Handled

LEMMA OperationScans ==
  ASSUME IInv, ScanInv, UNCHANGED controllerVars, HandleOperation \/ \E w \in held : Complete(w)
  PROVE  ScanInv'
<1>1. /\ wire \in Seq(Messages) /\ sent \in Seq(Calls \cup Stops) /\ held \subseteq Orders
  BY DEF IInv, Types, Session, Sound, Base
<1>2. CASE HandleOperation
  <2>1. Take /\ Oldest.kind = "operation" /\ Oldest.to = instance
    BY <1>2 DEF HandleOperation
  <2>2. /\ Oldest \in Orders /\ sent' \in Seq(Calls \cup Stops)
        /\ sent # <<>> /\ sent' = Tail(sent)
        /\ Environment /\ UNCHANGED <<instance, spent>>
    BY <2>1, TakeDoes, CallKinds DEF Take
  <2>3. Handed(1) /\ 1 \in 1..Len(sent) /\ Oldest = sent[1]
    BY <1>1, <2>2, CallsHanded
  <2>4. CASE Handled(Oldest) /\ UNCHANGED held
    <3>1. Handling(Oldest, 1)
      BY <2>1, <2>2, <2>3, <2>4 DEF Handling
    <3> QED
      BY <2>4, <3>1, HandledScans
  <2>5. CASE held' = held \cup {Oldest} /\ UNCHANGED <<wire, world, scanning>>
    <3> DEFINE ms == <<>>
    <3>1. ms \in Seq(Messages) /\ Len(ms) = 0 /\ wire' = wire \o ms
      BY <1>1, <2>5
    <3> HIDE DEF ms
    <3>2. \A i \in 1..Len(ms) :
            /\ ms[i].kind = "reply" /\ ~IsStart(ms[i].watcher)
            /\ TellsOwner(ms[i]) => ms[i].owner = instance
            /\ \A o \in scanning : ~Drops(ms[i], o)
      BY <3>1
    <3> QED
      BY <2>1, <2>5, <3>1, <3>2, TakeScans
  <2> QED
    BY <1>2, <2>4, <2>5 DEF HandleOperation
<1>3. ASSUME NEW w \in held, Complete(w) PROVE ScanInv'
  <2>1. /\ held' = held \ {w} /\ Handled(w) /\ UNCHANGED <<sent, instance, spent>> /\ Environment
    BY <1>3 DEF Complete
  <2>2. Handed(0)
    BY <1>1, <2>1, CallsHanded
  <2>3. Handling(w, 0)
    BY <1>1, <2>1, <2>2 DEF Handling
  <2> QED
    BY <2>1, <2>3, HandledScans
<1> QED
  BY <1>2, <1>3

(* The daemon comes or goes: nothing that was said or asked names the new one. *)
LEMMA DaemonScans ==
  ASSUME IInv, ScanInv, Environment, UNCHANGED controllerVars, UNCHANGED sent, spent'.stopped = spent.stopped,
         NEW m \in Messages, m.kind = "owner", m.owner = instance', wire' = Append(wire, m),
         held' \subseteq held, scanning' = {},
         (instance' = None /\ held' = {} /\ spent' = spent)
         \/ (instance = None /\ instance' = spent.launches + 1 /\ spent'.launches = spent.launches + 1)
  PROVE  ScanInv'
<1>0. /\ wire \in Seq(Messages) /\ backend.owner \in Owners /\ spent.launches \in Nat /\ None \notin Nat
      /\ backend' = backend /\ overlooked' = overlooked
  BY BlueZConstants, IdleDoes DEF IInv, Session, Sound, Base, States, Backends, Types, Environment, historyVars
<1>1. /\ Len(wire) \in Nat /\ Len(wire') = Len(wire) + 1 /\ wire'[Len(wire) + 1] = m
      /\ \A k \in 1..Len(wire) : k \in 1..Len(wire') /\ wire'[k] = wire[k]
      /\ \A k \in 1..Len(wire') : k \in 1..Len(wire) \/ k = Len(wire) + 1
  <2> DEFINE q == Append(wire, m)
  <2>1. /\ Len(wire) \in Nat /\ Len(q) = Len(wire) + 1 /\ q[Len(wire) + 1] = m
        /\ \A k \in 1..Len(wire) : q[k] = wire[k]
    BY <1>0
  <2> HIDE DEF q
  <2>2. \A k \in 1..Len(wire) : k \in 1..Len(q)
    BY <2>1
  <2>3. \A k \in 1..Len(q) : k \in 1..Len(wire) \/ k = Len(wire) + 1
    BY <2>1
  <2> QED
    BY <2>1, <2>2, <2>3 DEF q
<1>2. Answered(wire') = Answered(wire)
  <2>1. \A k \in 1..Len(wire') : wire'[k].kind = "reply" => k \in 1..Len(wire) /\ wire'[k] = wire[k]
    BY <1>1
  <2> QED
    BY <1>1, <2>1 DEF Answered
<1>3. \A w \in Begun' : w \in Begun
  BY <1>2 DEF Begun
<1>4. Calling'
  <2>1. SentOnce' /\ Apart' /\ TwoCalls'
    BY <1>0, <1>2 DEF ScanInv, Calling, SentOnce, Apart, TwoCalls, IsStart
  <2>2. AnsweredOnce'
    BY <1>1 DEF ScanInv, Calling, AnsweredOnce, IsStart
  <2>3. Ran'
    BY <1>3, BegunRan DEF controllerVars
  <2> QED
    BY <2>1, <2>2, <2>3 DEF Calling
(* The numbers that are known are not the new daemon's. *)
<1>5. /\ instance' = None \/ instance' <= spent'.launches
      /\ \A n \in Owners : Dated(n) => /\ n = None \/ n <= spent'.launches
                                       /\ instance' # None => n # instance'
  <2>1. CASE instance' = None /\ spent' = spent
    BY <1>0, <2>1 DEF Dated, Owners
  <2>2. CASE instance' = spent.launches + 1 /\ spent'.launches = spent.launches + 1
    BY <1>0, <2>2 DEF Dated, Owners
  <2> QED
    BY <2>1, <2>2
<1>6. /\ Dated(backend.owner) /\ \A w \in Begun : IsStart(w) => w.to # None /\ Dated(w.to) /\ w.to \in Owners
      /\ \A k \in 1..Len(wire) : TellsOwner(wire[k]) => Dated(wire[k].owner) /\ wire[k].owner \in Owners
  <2>1. \A w \in Begun : IsStart(w) => w.to \in Owners
    BY BegunTyped
  <2>2. \A k \in 1..Len(wire) : TellsOwner(wire[k]) => wire[k].owner \in Owners
    BY <1>0, MessageKinds, ReplyTyped DEF TellsOwner, OwnerSignals
  <2> QED
    BY <2>1, <2>2 DEF ScanInv, Linked, Numbered
<1>7. Linked'
  <2>1. Numbered'
    <3>1. \A k \in 1..Len(wire') : TellsOwner(wire'[k]) =>
            wire'[k].owner = None \/ wire'[k].owner <= spent'.launches
      BY <1>1, <1>5, <1>6
    <3>2. \A w \in Begun' : IsStart(w) => w.to # None /\ w.to <= spent'.launches
      BY <1>3, <1>5, <1>6
    <3>3. backend.owner = None \/ backend.owner <= spent'.launches
      BY <1>0, <1>5, <1>6
    <3> QED
      BY <1>0, <1>5, <3>1, <3>2, <3>3 DEF Numbered, Dated, TellsOwner, IsStart
  <2>2. LastWord'
    <3>1. instance' # None =>
            \A k \in 1..Len(wire') : TellsOwner(wire'[k]) /\ wire'[k].owner = instance' => k = Len(wire) + 1
      BY <1>1, <1>5, <1>6
    <3> QED
      BY <1>1, <3>1 DEF LastWord, TellsOwner
  <2>3. Connected'
    BY <1>0, <1>5, <1>6 DEF Connected
  <2>4. Inquiries'
    BY <1>0 DEF ScanInv, Linked, Inquiries
  <2> QED
    BY <2>1, <2>2, <2>3, <2>4 DEF Linked
<1>8. \A w \in held' : ~IsStart(w)
  BY DEF ScanInv, Scans, Serving
<1>9. Awaited'
  BY <1>3, <1>5, <1>6 DEF Awaited, IsStart
<1>10. Serving' /\ Minded'
  BY <1>8 DEF Serving, Minded, IsStart
<1>11. Unbegun'
  BY <1>0, <1>3 DEF ScanInv, Scans, Unbegun, IsStart
<1>12. Ended'
  <2>1. \A i \in 1..Len(sent) : sent[i] \in Begun
    BY DEF IInv, Session, Sound, Base, Begun, ToSet
  <2> QED
    BY <1>5, <1>6, <1>8, <2>1 DEF Ended, IsStart
<1> QED
  BY <1>4, <1>7, <1>9, <1>10, <1>11, <1>12 DEF ScanInv, Scans

LEMMA LaunchScans ==
  ASSUME IInv, ScanInv, UNCHANGED controllerVars, Launch
  PROVE  ScanInv'
<1> DEFINE m == [kind |-> "owner", owner |-> instance']
<1>1. /\ spent \in SpentType /\ spent.launches + 1 \in Nat
  BY DEF IInv, Types, SpentType
<1>2. /\ instance = None /\ instance' = spent.launches + 1 /\ wire' = Append(wire, m) /\ Environment
      /\ UNCHANGED <<sent, held, scanning>> /\ spent' = [spent EXCEPT !.launches = spent.launches + 1]
  BY DEF Launch
<1>3. m \in Messages /\ m.kind = "owner" /\ m.owner = instance'
  BY <1>1, <1>2 DEF Messages, OwnerSignals, Owners
<1>4. spent'.launches = spent.launches + 1 /\ spent'.stopped = spent.stopped
  BY <1>1, <1>2 DEF SpentType
<1>5. scanning = {}
  BY <1>2 DEF ScanInv, Scans, Serving
<1> HIDE DEF m
<1> QED
  BY <1>2, <1>3, <1>4, <1>5, DaemonScans

LEMMA CrashScans ==
  ASSUME IInv, ScanInv, UNCHANGED controllerVars, Crash
  PROVE  ScanInv'
<1> DEFINE m == [kind |-> "owner", owner |-> None]
<1>1. /\ instance' = None /\ wire' = Append(wire, m) /\ Environment
      /\ UNCHANGED <<sent, spent>> /\ held' = {} /\ scanning' = {}
  BY DEF Crash
<1>2. m \in Messages /\ m.kind = "owner" /\ m.owner = instance'
  BY <1>1 DEF Messages, OwnerSignals, Owners
<1> HIDE DEF m
<1> QED
  BY <1>1, <1>2, DaemonScans

-----------------------------------------------------------------------------
LEMMA InitScans ==
  ASSUME Init
  PROVE  ScanInv
<1>1. /\ backend = NewBackend /\ wire = <<>> /\ sent = <<>> /\ held = {} /\ instance = 0 /\ scanning = {}
      /\ spent.launches = 0 /\ spent.stopped = FALSE
  BY DEF Init, BackendInit
<1>2. /\ Len(wire) = 0 /\ Len(sent) = 0 /\ Answered(wire) = {} /\ ToSet(sent) = {} /\ Begun = {}
      /\ ~backend.started /\ backend.owner = None /\ backend.watchers = {}
  BY <1>1 DEF Answered, ToSet, Begun, NewBackend
<1>3. Calling
  BY <1>1, <1>2 DEF Calling, SentOnce, AnsweredOnce, Apart, Ran, TwoCalls
<1>4. Linked
  BY <1>1, <1>2 DEF Linked, Numbered, Dated, LastWord, Connected, Inquiries
<1>5. Scans
  BY <1>1, <1>2 DEF Scans, Awaited, Serving, Unbegun, Ended, Minded
<1> QED
  BY <1>3, <1>4, <1>5 DEF ScanInv

LEMMA NextScans ==
  ASSUME IInv, ScanInv, [Next]_vars
  PROVE  ScanInv'
<1>1. CASE Received
  BY <1>1, ReceivedScans
<1>2. CASE Asked
  BY <1>2, AskedScans
<1>3. CASE \E r \in timers : Timer(r)
  BY <1>3, TimerScans
<1>4. CASE BackendStep /\ UNCHANGED controllerVars
  BY <1>4, BackendScans
<1>5. CASE DaemonStep /\ UNCHANGED controllerVars
  <2>1. CASE \E o \in Objects : Plug(o) \/ Unplug(o)
    BY <1>5, <2>1, WorldScans
  <2>2. CASE \E a \in Adapters : TogglePower(a)
    BY <1>5, <2>2, WorldScans DEF Objects
  <2>3. CASE \E d \in Devices : AgentCall(d)
    BY <1>5, <2>3, AgentScans
  <2>4. CASE Launch \/ Crash
    BY <1>5, <2>4, LaunchScans, CrashScans
  <2>5. CASE Undeliverable \/ HandleQuery
    BY <1>5, <2>5, QueryScans
  <2>6. CASE HandleStop
    BY <1>5, <2>6, HandleStopScans
  <2>7. CASE HandleOperation \/ \E w \in held : Complete(w)
    BY <1>5, <2>7, OperationScans
  <2> QED
    BY <1>5, <2>1, <2>2, <2>3, <2>4, <2>5, <2>6, <2>7 DEF DaemonStep
<1>6. CASE UNCHANGED vars
  <2>1. UNCHANGED backendVars /\ UNCHANGED controllerVars
    BY <1>6 DEF vars
  <2>2. SameSession /\ UNCHANGED <<busVars, overlooked>>
    BY <2>1 DEF SameSession, backendVars, historyVars
  <2>3. Ran'
    BY <2>1, SameRan DEF backendVars, busVars, controllerVars
  <2> QED
    BY <2>2, <2>3, SessionScans
<1> QED
  BY <1>1, <1>2, <1>3, <1>4, <1>5, <1>6 DEF Next

(* Once no discovery call is under way, every session the daemon keeps for   *)
(* this client is one it owns and will give back, whatever was lost, retired *)
(* or restarted: onlyReply() gives back what it acquired for a retired id,   *)
(* stop() ends what is owned or being started, and setOwner() forgets only   *)
(* the sessions of a daemon that is gone.  The exceptions are the two that   *)
(* NoOrphanScan names: the call that stop() overlooks, and the one that      *)
(* timed out.                                                                *)
THEOREM NoScanIsOrphaned == Spec => []NoOrphanScan
<1>1. Init => ScanInv
  BY InitScans
<1>2. IInv /\ ScanInv /\ [Next]_vars => ScanInv'
  BY NextScans
<1>3. IInv /\ ScanInv => NoOrphanScan
  BY ScansAreMinded
<1> QED
  BY <1>1, <1>2, <1>3, BluetoothInvariant, PTL DEF Spec
=============================================================================
