------------------------- MODULE UDisks2BackendProofs -------------------------
(***************************************************************************)
(* Ids, results and snapshots of UDisks2Backend, for any objects and       *)
(* bounds: OneDevicePerId, CompletionsFresh, MountedVolumeListed, and      *)
(* QuietShowsWorld.                                                        *)
(*                                                                         *)
(* What the backend publishes was computed some time before it arrives.    *)
(* The invariant says what makes that safe: the one refresh that may still *)
(* be published was asked for after everything the backend has been told,  *)
(* and what happened to a device since is told either before its answer,   *)
(* which makes the answer stale, or after it, which retires the id.        *)
(*                                                                         *)
(* That the snapshot is right in the end is a second invariant: whatever   *)
(* the backend waits for is on its way, and what is on its way is right    *)
(* unless news behind it will make the backend ask again.                  *)
(***************************************************************************)
EXTENDS UDisks2Backend, FiniteSetTheorems, TLAPS

Operations == {"Mount", "Unmount", "Eject", "PowerOff"}
Instances == Nat \cup {None}
Addresses == Instances \cup {ServiceName}
Requests == [operation : Operations, target : Objects \X Nat, tag : Nat]
Queries == [kind : {"owner", "refresh"}, generation : Nat, revision : Nat, to : Addresses]
Orders == [kind : {"operation"}, generation : Nat, revision : Nat, to : Addresses,
           object : Objects, call : Requests]
Calls == Queries \cup Orders
Worlds == [present : SUBSET Objects, mounted : SUBSET Objects, incarnation : [Objects -> Nat],
           version : Nat]
OwnerSignals == [kind : {"owner"}, owner : Instances]
ChangeSignals == [kind : {"changed"}, version : Nat]
RemovalSignals == [kind : {"removed"}, object : Objects, version : Nat]
Replies == [kind : {"reply"}, watcher : Calls, error : {"none", "Upstream"}, owner : Instances,
            world : Worlds \cup {Nothing}, version : Nat]
Messages == OwnerSignals \cup ChangeSignals \cup RemovalSignals \cup Replies
Completed == [signal : {"operationFinished"}, call : Requests,
              error : {"none", "Upstream", "Disappeared"}, version : Nat]
Spendings == [starts : Nat, calls : Nat, launches : Nat, changes : Nat, errors : Nat]

TypeOK ==
  /\ started \in BOOLEAN /\ owner \in Addresses /\ generation \in Nat /\ revision \in Nat
  /\ refreshing \in BOOLEAN /\ completions \in Seq(Completed)
  /\ minted \in [Objects -> Nat] /\ DOMAIN ids = Objects
  /\ watchers \subseteq Calls /\ sent \subseteq Calls /\ deferred \in Seq(Requests)
  /\ wire \in Seq(Messages) /\ \A h \in held : h \in Seq(Messages) /\ Len(h) = 1
  /\ instance \in Instances /\ world \in Worlds
  /\ spent \in Spendings

-----------------------------------------------------------------------------
InFlight == {wire[i] : i \in 1..Len(wire)} \cup {h[1] : h \in held}
Answers == {m \in InFlight : m.kind = "reply"}

(* The refreshes of this connection. *)
Refreshes(calls) == {w \in calls : w.kind = "refresh" /\ w.generation = generation}

(* No call is of a later connection, or asks for a later revision; of this    *)
(* connection one refresh at most is waited for, and none is newer.           *)
Asked ==
  /\ \A w \in watchers \cup sent \cup {m.watcher : m \in Answers} :
       w.generation <= generation /\ w.revision <= revision
  /\ \A w \in Refreshes(watchers) :
       /\ started /\ refreshing /\ owner # None
       /\ w = [kind |-> "refresh", generation |-> generation, revision |-> w.revision,
               to |-> owner]
       /\ \A x \in Refreshes(watchers) : x = w
       /\ \A x \in Refreshes(sent \cup {m.watcher : m \in Answers}) : x.revision <= w.revision

(* What the world was when a message was sent, it is or has been.             *)
Versions ==
  /\ \A m \in InFlight : m.kind # "owner" => m.version <= world.version
  /\ \A i \in 1..Len(completions) : completions[i].version <= world.version

(* A reply that will be published if it arrives now.                          *)
Awaited(w) == w \in Refreshes(watchers) /\ w.revision = revision
Publishable(m) == m.kind = "reply" /\ Awaited(m.watcher)

(* It was computed after the operations whose results wait for it.            *)
Fresh ==
  \A m \in InFlight : Publishable(m) =>
    \A i \in 1..Len(completions) :
      completions[i].error = "none" => completions[i].version <= m.world.version

(* Signals that make every answer stale, and those that retire an id.         *)
Disturbs(m) == m.kind \in {"owner", "changed", "removed"}
Retires(m, o) == m.kind = "owner" \/ (m.kind = "removed" /\ m.object = o)
Calm(k) == \A j \in 1..Len(wire) : j < k => ~Disturbs(wire[j])
Silent == \A j \in 1..Len(wire) : ~Disturbs(wire[j])
Retired(k, o) == \E j \in 1..Len(wire) : k < j /\ Retires(wire[j], o)

(* The daemon runs, and manages this incarnation of o. *)
Managed(o, incarnation) ==
  instance # None /\ o \in world.present /\ world.incarnation[o] = incarnation

(* The id of an object is the id of the device that is there, or it is about  *)
(* to be retired.                                                             *)
IdsStand ==
  \A o \in Objects : ids[o] # None =>
    /\ started
    /\ \/ Retired(0, o)
       \/ \E n \in Nat : Managed(o, n) /\ [id |-> ids[o], incarnation |-> n] \in named

(* An answer at place k of the wire, if nothing comes before it that makes it *)
(* stale, agrees with the ids there are, and the devices it lists are there   *)
(* unless their end is told after it.                                         *)
Agrees(shot, k) ==
  \A o \in shot.present :
    /\ ids[o] # None => [id |-> ids[o], incarnation |-> shot.incarnation[o]] \in named
    /\ Retired(k, o) \/ Managed(o, shot.incarnation[o])

AnswersStand ==
  /\ \A k \in 1..Len(wire) : (Publishable(wire[k]) /\ Calm(k)) => Agrees(wire[k].world, k)
  /\ \A h \in held : (Publishable(h[1]) /\ Silent) => Agrees(h[1].world, Len(wire))

(* An id carries the number of ids its object has had. *)
Minted == \A p \in named : \E o \in Objects : \E n \in 1..minted[o] : p.id = <<o, n>>

IInv == /\ TypeOK /\ Asked /\ Versions /\ Fresh /\ IdsStand /\ AnswersStand
        /\ Minted /\ OneDevicePerId

-----------------------------------------------------------------------------
(* Messages and calls.                                                        *)

LEMMA MessageKinds ==
  ASSUME NEW m \in Messages
  PROVE  \/ m.kind = "owner" /\ m \in OwnerSignals
         \/ m.kind = "changed" /\ m \in ChangeSignals
         \/ m.kind = "removed" /\ m \in RemovalSignals
         \/ m.kind = "reply" /\ m \in Replies
BY DEF Messages, OwnerSignals, ChangeSignals, RemovalSignals, Replies

LEMMA CallKinds ==
  ASSUME NEW w \in Calls
  PROVE  /\ \/ w.kind = "operation" /\ w \in Orders
            \/ w.kind \in {"owner", "refresh"} /\ w \in Queries
         /\ w.generation \in Nat /\ w.revision \in Nat
BY DEF Calls, Queries, Orders

(* What TypeOK says of what travels and of what waits.                        *)
LEMMA Typed ==
  ASSUME TypeOK
  PROVE  /\ world.version \in Nat
         /\ \A m \in InFlight : m \in Messages /\ (m.kind # "owner" => m.version \in Nat)
         /\ \A m \in InFlight : m.kind = "reply" =>
              m \in Replies /\ m.world \in Worlds \cup {Nothing} /\ m.watcher \in Calls
         /\ \A k \in 1..Len(wire) : wire[k] \in InFlight
         /\ \A h \in held : h[1] \in InFlight
         /\ Len(completions) \in Nat
         /\ \A i \in 1..Len(completions) :
              completions[i] \in Completed /\ completions[i].version \in Nat
<1>1. world.version \in Nat
  BY DEF TypeOK, Worlds
<1>2. ASSUME NEW m \in InFlight PROVE m \in Messages
  <2>1. wire \in Seq(Messages) /\ \A h \in held : h \in Seq(Messages) /\ Len(h) = 1
    BY DEF TypeOK
  <2> QED
    BY <2>1 DEF InFlight
<1>3. ASSUME NEW m \in Messages, m.kind # "owner" PROVE m.version \in Nat
  <2>1. m \in ChangeSignals \/ m \in RemovalSignals \/ m \in Replies
    BY <1>3, MessageKinds
  <2>2. CASE m \in ChangeSignals
    BY <2>2 DEF ChangeSignals
  <2>3. CASE m \in RemovalSignals
    BY <2>3 DEF RemovalSignals
  <2>4. CASE m \in Replies
    BY <2>4 DEF Replies
  <2> QED
    BY <2>1, <2>2, <2>3, <2>4
<1>4. ASSUME NEW m \in Messages, m.kind = "reply"
      PROVE  m \in Replies /\ m.world \in Worlds \cup {Nothing} /\ m.watcher \in Calls
  <2>1. m \in Replies
    BY <1>4, MessageKinds
  <2> HIDE DEF Worlds, Calls, Nothing
  <2> QED
    BY <2>1 DEF Replies
<1>5. /\ \A k \in 1..Len(wire) : wire[k] \in InFlight
      /\ \A h \in held : h[1] \in InFlight
  BY DEF InFlight
<1>6. Len(completions) \in Nat /\ \A i \in 1..Len(completions) : completions[i] \in Completed
  BY DEF TypeOK
<1>7. \A c \in Completed : c.version \in Nat
  BY DEF Completed
<1> QED
  BY <1>1, <1>2, <1>3, <1>4, <1>5, <1>6, <1>7

(* Of two sequences one after the other.                                      *)
LEMMA Joined ==
  ASSUME NEW S, NEW q \in Seq(S), NEW r \in Seq(S)
  PROVE  /\ q \o r \in Seq(S) /\ Len(q \o r) = Len(q) + Len(r)
         /\ Len(q) \in Nat /\ Len(r) \in Nat
         /\ \A i \in 1..Len(q) : (q \o r)[i] = q[i]
         /\ \A i \in 1..Len(r) : (q \o r)[Len(q) + i] = r[i]
OBVIOUS

LEMMA JoinedElements ==
  ASSUME NEW q \in Seq(Messages), NEW r \in Seq(Messages)
  PROVE  /\ \A i \in 1..Len(q \o r) : \/ \E j \in 1..Len(q) : (q \o r)[i] = q[j]
                                      \/ \E j \in 1..Len(r) : (q \o r)[i] = r[j]
         /\ \A j \in 1..Len(q) : \E i \in 1..Len(q \o r) : (q \o r)[i] = q[j]
         /\ \A j \in 1..Len(r) : \E i \in 1..Len(q \o r) : (q \o r)[i] = r[j]
<1>1. ASSUME NEW i \in 1..Len(q \o r)
      PROVE  \/ \E j \in 1..Len(q) : (q \o r)[i] = q[j]
             \/ \E j \in 1..Len(r) : (q \o r)[i] = r[j]
  <2>1. CASE i <= Len(q)
    BY <2>1, Joined
  <2>2. CASE ~(i <= Len(q))
    <3>1. i - Len(q) \in 1..Len(r) /\ (q \o r)[i] = r[i - Len(q)]
      BY <2>2, Joined
    <3> QED
      BY <3>1
  <2> QED
    BY <2>1, <2>2
<1>2. ASSUME NEW j \in 1..Len(q) PROVE \E i \in 1..Len(q \o r) : (q \o r)[i] = q[j]
  <2>1. j \in 1..Len(q \o r) /\ (q \o r)[j] = q[j]
    BY Joined
  <2> QED
    BY <2>1
<1>3. ASSUME NEW j \in 1..Len(r) PROVE \E i \in 1..Len(q \o r) : (q \o r)[i] = r[j]
  <2>1. Len(q) + j \in 1..Len(q \o r) /\ (q \o r)[Len(q) + j] = r[j]
    BY Joined
  <2> QED
    BY <2>1
<1> QED
  BY <1>1, <1>2, <1>3

LEMMA Regrouped ==
  ASSUME NEW S, NEW q \in Seq(S), NEW r \in Seq(S), NEW t \in Seq(S)
  PROVE  q \o r \o t = q \o (r \o t)
OBVIOUS

LEMMA Taken ==
  ASSUME NEW S, NEW q \in Seq(S), q # <<>>
  PROVE  /\ Tail(q) \in Seq(S) /\ Len(Tail(q)) = Len(q) - 1 /\ Len(q) \in Nat \ {0}
         /\ Head(q) = q[1] /\ q[1] \in S
         /\ \A i \in 1..Len(Tail(q)) : Tail(q)[i] = q[i + 1]
OBVIOUS

LEMMA Appended ==
  ASSUME NEW S, NEW q \in Seq(S), NEW x \in S
  PROVE  Append(q, x) = q \o <<x>>
OBVIOUS

LEMMA SpentMore ==
  ASSUME NEW s \in Spendings
  PROVE  /\ [s EXCEPT !.starts = @ + 1] \in Spendings
         /\ [s EXCEPT !.calls = @ + 1] \in Spendings
         /\ [s EXCEPT !.launches = @ + 1] \in Spendings
         /\ [s EXCEPT !.changes = @ + 1] \in Spendings
         /\ [s EXCEPT !.errors = @ + 1] \in Spendings
BY DEF Spendings

(* A change is told by one signal, and the end of each object by its own.     *)
LEMMA SignalsTold ==
  ASSUME NEW removed \in SUBSET Objects, NEW version \in Nat
  PROVE  /\ Signals(removed, version) \in Seq(Messages)
         /\ \A i \in 1..Len(Signals(removed, version)) :
              /\ Signals(removed, version)[i].kind \in {"changed", "removed"}
              /\ Signals(removed, version)[i].version = version
         /\ \A o \in removed : \E i \in 1..Len(Signals(removed, version)) :
              Retires(Signals(removed, version)[i], o)
         /\ removed = {} => Signals(removed, version) = <<[kind |-> "changed", version |-> version]>>
<1>1. CASE removed = {}
  <2>1. Signals(removed, version) = <<[kind |-> "changed", version |-> version]>>
    BY <1>1 DEF Signals
  <2>2. [kind |-> "changed", version |-> version] \in Messages
    BY DEF Messages, ChangeSignals
  <2>3. /\ Signals(removed, version) \in Seq(Messages) /\ Len(Signals(removed, version)) = 1
        /\ Signals(removed, version)[1] = [kind |-> "changed", version |-> version]
    BY <2>1, <2>2
  <2> QED
    BY <1>1, <2>1, <2>3
<1>2. CASE removed # {}
  <2> DEFINE n == Cardinality(removed)
             order == SetToSeq(removed)
             signal(i) == [kind |-> "removed", object |-> order[i], version |-> version]
  <2>1. IsFiniteSet(removed) /\ n \in Nat /\ ExistsBijection(1..n, removed)
    BY FS_Subset, FS_CardinalityType, BackendConstants
  <2>2. PICK f \in Bijection(1..n, removed) : TRUE
    BY <2>1 DEF ExistsBijection
  <2>3. f \in [1..n -> removed] /\ IsInjective(f)
    BY <2>2 DEF Bijection, Injection
  <2>4. order \in [1..n -> removed] /\ IsInjective(order)
    BY <2>3 DEF SetToSeq
  <2>5. Cardinality(1..n) = n
    BY <2>1, FS_Interval
  <2>6. order \in Surjection(1..n, removed)
    BY <2>1, <2>4, <2>5, FS_Injection DEF Injection
  <2>7. \A o \in removed : \E i \in 1..n : order[i] = o
    BY <2>6 DEF Surjection
  <2> HIDE DEF n, order
  <2>8. Signals(removed, version) = [i \in 1..n |-> signal(i)]
    BY <1>2 DEF Signals, n, order
  <2>9. \A i \in 1..n : signal(i) \in Messages
    BY <2>4 DEF Messages, RemovalSignals
  <2>10. Signals(removed, version) \in Seq(Messages) /\ Len(Signals(removed, version)) = n
    BY <2>1, <2>8, <2>9
  <2>11. \A i \in 1..n : Signals(removed, version)[i] = signal(i)
    BY <2>8
  <2> QED
    BY <1>2, <2>7, <2>10, <2>11 DEF Retires
<1> QED
  BY <1>1, <1>2

-----------------------------------------------------------------------------
(* The bus and the daemon.                                                    *)

LEMMA WireGrows ==
  ASSUME TypeOK, NEW added \in Seq(Messages), wire' = wire \o added
  PROVE  /\ wire' \in Seq(Messages) /\ Len(wire') = Len(wire) + Len(added)
         /\ Len(wire) \in Nat /\ Len(added) \in Nat
         /\ \A k \in 1..Len(wire) : wire'[k] = wire[k]
         /\ \A i \in 1..Len(added) : wire'[Len(wire) + i] = added[i]
         /\ \A o : \A k \in Nat : Retired(k, o) => Retired(k, o)'
         /\ \A o : \A k \in 0..Len(wire), i \in 1..Len(added) :
              Retires(added[i], o) => Retired(k, o)'
         /\ \A k \in Nat : Calm(k)' => Calm(k)
         /\ Silent' => Silent /\ \A i \in 1..Len(added) : ~Disturbs(added[i])
         /\ \A o : ~Retired(Len(wire), o)
<1>1. /\ wire' \in Seq(Messages) /\ Len(wire') = Len(wire) + Len(added)
      /\ Len(wire) \in Nat /\ Len(added) \in Nat
      /\ \A k \in 1..Len(wire) : wire'[k] = wire[k]
      /\ \A i \in 1..Len(added) : wire'[Len(wire) + i] = added[i]
  BY Joined DEF TypeOK
<1>2. 1..Len(wire) \subseteq 1..Len(wire')
  BY <1>1
<1>3. \A o : \A k \in Nat : Retired(k, o) => Retired(k, o)'
  BY <1>1, <1>2 DEF Retired, Retires
<1>4. ASSUME NEW k \in 0..Len(wire), NEW o, NEW i \in 1..Len(added), Retires(added[i], o)
      PROVE  Retired(k, o)'
  <2>1. Len(wire) + i \in 1..Len(wire') /\ k < Len(wire) + i /\ wire'[Len(wire) + i] = added[i]
    BY <1>1
  <2> QED
    BY <1>4, <2>1 DEF Retired, Retires
<1>5. \A k \in Nat : Calm(k)' => Calm(k)
  BY <1>1, <1>2 DEF Calm, Disturbs
<1>6. Silent' => Silent /\ \A i \in 1..Len(added) : ~Disturbs(added[i])
  <2>1. \A i \in 1..Len(added) : Len(wire) + i \in 1..Len(wire')
    BY <1>1
  <2> QED
    BY <1>1, <1>2, <2>1 DEF Silent, Disturbs
<1>7. \A o : ~Retired(Len(wire), o)
  BY <1>1 DEF Retired
<1> QED
  BY <1>1, <1>3, <1>4, <1>5, <1>6, <1>7

(* No call is added, and what was asked stays as it was.                      *)
LEMMA AskedKept ==
  ASSUME Asked, UNCHANGED <<started, refreshing, owner, generation, revision, watchers>>,
         \A w \in (sent \cup {m.watcher : m \in Answers})' :
           w \in sent \cup {m.watcher : m \in Answers}
  PROVE  Asked'
<1>1. Refreshes(watchers)' = Refreshes(watchers)
  BY DEF Refreshes
<1>2. Refreshes(sent \cup {m.watcher : m \in Answers})'
        \subseteq Refreshes(sent \cup {m.watcher : m \in Answers})
  BY DEF Refreshes
<1>3. \A w \in (watchers \cup sent \cup {m.watcher : m \in Answers})' :
        w.generation <= generation /\ w.revision <= revision
  <2>1. \A w \in (watchers \cup sent \cup {m.watcher : m \in Answers})' :
          w \in watchers \cup sent \cup {m.watcher : m \in Answers}
    OBVIOUS
  <2> QED
    BY <2>1 DEF Asked
<1>4. \A w \in Refreshes(watchers) :
        /\ started /\ refreshing /\ owner # None
        /\ w = [kind |-> "refresh", generation |-> generation, revision |-> w.revision,
                to |-> owner]
        /\ \A x \in Refreshes(watchers) : x = w
        /\ \A x \in Refreshes(sent \cup {m.watcher : m \in Answers})' : x.revision <= w.revision
  BY <1>2 DEF Asked
<1> QED
  BY <1>1, <1>3, <1>4 DEF Asked

(* A step that changes the world, or tells of it, without a snapshot: what    *)
(* it takes away it tells at once.                                            *)
LEMMA EnvironmentKeeps ==
  ASSUME IInv, Environment, NEW added \in Seq(Messages), wire' = wire \o added,
         sent' \subseteq sent, instance' \in Instances, world' \in Worlds,
         spent' \in Spendings,
         world.version <= world'.version,
         \A i \in 1..Len(added) :
           /\ added[i].kind # "owner" => added[i].version <= world'.version
           /\ added[i].kind = "reply" => /\ added[i].watcher.kind # "refresh"
                                         /\ added[i].watcher \in sent,
         \A h \in held' : \/ h \in held
                          \/ /\ h \in Seq(Messages) /\ Len(h) = 1
                             /\ h[1].kind = "changed" /\ h[1].version <= world'.version,
         \A o \in Objects, n \in Nat :
           Managed(o, n) => Managed(o, n)' \/ \E i \in 1..Len(added) : Retires(added[i], o)
  PROVE  IInv'
<1>1. UNCHANGED <<started, owner, generation, revision, refreshing, completions, ids, minted,
                  watchers, deferred, shown, heard, named>>
  BY DEF Environment, backendVars, historyVars
<1>2. TypeOK /\ Asked /\ Versions /\ Fresh /\ IdsStand /\ AnswersStand
  BY DEF IInv
<1>3. TypeOK'
  BY <1>1, <1>2, WireGrows DEF TypeOK
<1>4. \A m \in InFlight' : m \in InFlight \/ /\ m.kind # "owner" => m.version <= world'.version
                                             /\ m.kind = "reply" => /\ m.watcher.kind # "refresh"
                                                                     /\ m.watcher \in sent
  <2>1. ASSUME NEW k \in 1..Len(wire')
        PROVE  (\E j \in 1..Len(wire) : wire'[k] = wire[j]) \/ \E i \in 1..Len(added) : wire'[k] = added[i]
    <3>1. CASE k <= Len(wire)
      BY <1>2, <3>1, WireGrows
    <3>2. CASE ~(k <= Len(wire))
      <4>1. k - Len(wire) \in 1..Len(added) /\ Len(wire) + (k - Len(wire)) = k
        BY <1>2, <3>2, WireGrows
      <4>2. \A i \in 1..Len(added) : wire'[Len(wire) + i] = added[i]
        BY <1>2, WireGrows
      <4>3. wire'[k] = added[k - Len(wire)]
        BY <4>1, <4>2
      <4> QED
        BY <4>1, <4>3
    <3> QED
      BY <3>1, <3>2
  <2>2. ASSUME NEW h \in held'
        PROVE  h[1] \in InFlight \/ (h[1].kind = "changed" /\ h[1].version <= world'.version)
    BY DEF InFlight
  <2>3. ASSUME NEW k \in 1..Len(wire) PROVE wire[k] \in InFlight
    BY DEF InFlight
  <2>4. \A m \in InFlight' : (\E k \in 1..Len(wire') : m = wire'[k]) \/ (\E h \in held' : m = h[1])
    BY DEF InFlight
  <2> SUFFICES ASSUME NEW m \in InFlight'
               PROVE  \/ m \in InFlight
                      \/ /\ m.kind # "owner" => m.version <= world'.version
                         /\ m.kind = "reply" => /\ m.watcher.kind # "refresh"
                                                /\ m.watcher \in sent
    OBVIOUS
  <2>5. CASE \E k \in 1..Len(wire') : m = wire'[k]
    <3>1. PICK k \in 1..Len(wire') : m = wire'[k]
      BY <2>5
    <3> QED
      BY <2>1, <2>3, <3>1
  <2>6. CASE \E h \in held' : m = h[1]
    BY <2>2, <2>6
  <2> QED
    BY <2>4, <2>5, <2>6
<1>5. Asked'
  <2>1. \A m \in Answers' : m \in Answers \/ m.watcher \in sent
    BY <1>4 DEF Answers
  <2> QED
    BY <1>1, <1>2, <2>1, AskedKept
<1>6. Versions'
  <2>1. world.version \in Nat /\ world'.version \in Nat
    BY <1>2, Typed DEF Worlds
  <2>2. \A m \in InFlight' : m.kind # "owner" => m.version <= world'.version
    BY <1>2, <1>4, <2>1, Typed DEF Versions
  <2>3. ASSUME NEW i \in 1..Len(completions) PROVE completions[i].version <= world'.version
    <3>1. completions[i].version \in Nat /\ completions[i].version <= world.version
      BY <1>2, Typed DEF Versions
    <3>2. world.version \in Nat /\ world.version <= world'.version
      BY <2>1
    <3> QED
      BY <2>1, <3>1, <3>2
  <2> QED
    BY <1>1, <2>2, <2>3 DEF Versions
<1>7. \A m \in InFlight' : Publishable(m)' => m \in InFlight /\ Publishable(m)
  BY <1>1, <1>4 DEF Publishable, Awaited, Refreshes
<1>8. Fresh'
  BY <1>1, <1>2, <1>7 DEF Fresh
<1>9. ASSUME NEW k \in 0..Len(wire), NEW shot \in Worlds \cup {Nothing}, Agrees(shot, k)
      PROVE  Agrees(shot, k)'
  <2>1. ASSUME NEW o \in shot.present
        PROVE  Retired(k, o)' \/ Managed(o, shot.incarnation[o])'
    <3>1. o \in Objects /\ shot.incarnation[o] \in Nat /\ k \in Nat
      BY <2>1, <1>2, WireGrows DEF Worlds, Nothing
    <3>2. CASE Retired(k, o)
      BY <1>2, <3>1, <3>2, WireGrows
    <3>3. CASE Managed(o, shot.incarnation[o])
      <4>1. PICK n \in Nat : n = shot.incarnation[o]
        BY <3>1
      <4>2. Managed(o, n)' \/ \E i \in 1..Len(added) : Retires(added[i], o)
        BY <3>1, <3>3, <4>1
      <4> QED
        BY <1>2, <3>1, <4>1, <4>2, WireGrows DEF Managed
    <3> QED
      BY <1>9, <2>1, <3>2, <3>3 DEF Agrees
  <2> QED
    BY <1>1, <1>9, <2>1 DEF Agrees
<1>10. IdsStand'
  <2> SUFFICES ASSUME NEW o \in Objects, ids'[o] # None
               PROVE  /\ started'
                      /\ \/ Retired(0, o)'
                         \/ \E n \in Nat : /\ Managed(o, n)'
                                           /\ [id |-> ids[o], incarnation |-> n]' \in named'
    BY <1>1 DEF IdsStand
  <2>1. started /\ \/ Retired(0, o)
                   \/ \E n \in Nat : Managed(o, n) /\ [id |-> ids[o], incarnation |-> n] \in named
    BY <1>1, <1>2 DEF IdsStand
  <2>2. 0 \in Nat /\ 0 \in 0..Len(wire)
    BY <1>2, WireGrows
  <2>3. CASE Retired(0, o)
    BY <1>1, <1>2, <2>1, <2>2, <2>3, WireGrows
  <2>4. ASSUME NEW n \in Nat, Managed(o, n), [id |-> ids[o], incarnation |-> n] \in named
        PROVE  Retired(0, o)' \/ \E i \in Nat : /\ Managed(o, i)'
                                               /\ [id |-> ids[o], incarnation |-> i]' \in named'
    <3>1. Managed(o, n)' \/ \E i \in 1..Len(added) : Retires(added[i], o)
      BY <2>4
    <3>2. [id |-> ids[o], incarnation |-> n]' \in named'
      BY <1>1, <2>4
    <3> QED
      BY <1>2, <2>2, <3>1, <3>2, WireGrows
  <2> QED
    BY <1>1, <2>1, <2>3, <2>4
<1>11. AnswersStand'
  <2>1. ASSUME NEW k \in 1..Len(wire'), Publishable(wire[k])', Calm(k)'
        PROVE  Agrees(wire[k].world, k)'
    <3>1. k \in 1..Len(wire)
      <4> SUFFICES ASSUME k \notin 1..Len(wire) PROVE FALSE
        OBVIOUS
      <4>1. k - Len(wire) \in 1..Len(added) /\ Len(wire) + (k - Len(wire)) = k
        BY <1>2, WireGrows
      <4>2. wire'[k] = added[k - Len(wire)]
        BY <1>2, <4>1, WireGrows
      <4> QED
        BY <2>1, <4>1, <4>2 DEF Publishable, Awaited, Refreshes
    <3>2. wire'[k] = wire[k] /\ wire[k] \in InFlight /\ k \in Nat /\ k \in 0..Len(wire)
      BY <1>2, <3>1, WireGrows DEF InFlight
    <3>3. Publishable(wire[k]) /\ Calm(k)
      BY <1>1, <1>2, <2>1, <3>2, WireGrows DEF Publishable, Awaited, Refreshes
    <3>4. Agrees(wire[k].world, k)
      BY <1>2, <3>1, <3>3 DEF AnswersStand
    <3>5. wire[k].world \in Worlds \cup {Nothing}
      BY <1>2, <3>1, <3>3, Typed DEF Publishable
    <3> QED
      BY <1>9, <3>2, <3>4, <3>5 DEF Agrees
  <2>2. ASSUME NEW h \in held', Publishable(h[1])', Silent'
        PROVE  Agrees(h[1].world, Len(wire))'
    <3>1. h \in held /\ h[1] \in InFlight /\ Publishable(h[1])
      <4>1. h[1].kind = "reply"
        BY <2>2 DEF Publishable
      <4> QED
        BY <1>1, <2>2, <4>1 DEF Publishable, Awaited, Refreshes, InFlight
    <3>2. Agrees(h[1].world, Len(wire))
      BY <1>2, <2>2, <3>1, WireGrows DEF AnswersStand
    <3>3. h[1].world \in Worlds \cup {Nothing}
      BY <1>2, <3>1, Typed DEF Publishable
    <3>4. ASSUME NEW o \in h[1].world.present
          PROVE  Managed(o, h[1].world.incarnation[o])'
      <4>1. o \in Objects /\ h[1].world.incarnation[o] \in Nat
        BY <3>3, <3>4 DEF Worlds, Nothing
      <4>2. Managed(o, h[1].world.incarnation[o])
        BY <1>2, <3>2, <3>4, WireGrows DEF Agrees
      <4>3. \A i \in 1..Len(added) : ~Retires(added[i], o)
        BY <1>2, <2>2, WireGrows DEF Disturbs, Retires
      <4> QED
        BY <4>1, <4>2, <4>3
    <3> QED
      BY <1>1, <3>2, <3>4 DEF Agrees
  <2> QED
    BY <1>1, <2>1, <2>2 DEF AnswersStand
<1>12. Minted' /\ OneDevicePerId'
  BY <1>1 DEF IInv, Minted, OneDevicePerId
<1> QED
  BY <1>3, <1>5, <1>6, <1>8, <1>10, <1>11, <1>12 DEF IInv

(* What was held is sent: nothing told since makes it stale.                  *)
LEMMA SendKeeps ==
  ASSUME IInv, NEW h \in held, Send(h)
  PROVE  IInv'
<1>1. /\ UNCHANGED <<started, owner, generation, revision, refreshing, completions, ids, minted,
                     watchers, deferred, shown, heard, named, sent, instance, world, spent>>
      /\ wire' = wire \o h /\ held' = held \ {h}
  BY DEF Send, Environment, backendVars, historyVars
<1>2. TypeOK /\ Asked /\ Versions /\ Fresh /\ IdsStand /\ AnswersStand
  BY DEF IInv
<1>3. h \in Seq(Messages) /\ Len(h) = 1
  BY <1>2 DEF TypeOK
<1>4. TypeOK'
  BY <1>1, <1>2, <1>3, WireGrows DEF TypeOK
<1>5. /\ Len(wire') = Len(wire) + 1 /\ wire'[Len(wire) + 1] = h[1] /\ Len(wire) \in Nat
      /\ \A k \in 1..Len(wire) : wire'[k] = wire[k]
  <2>1. /\ Len(wire') = Len(wire) + Len(h) /\ Len(wire) \in Nat
        /\ \A k \in 1..Len(wire) : wire'[k] = wire[k]
        /\ \A i \in 1..Len(h) : wire'[Len(wire) + i] = h[i]
    BY <1>1, <1>2, <1>3, WireGrows
  <2>2. 1 \in 1..Len(h)
    BY <1>3
  <2> QED
    BY <1>3, <2>1, <2>2
<1>6. InFlight' \subseteq InFlight
  <2>1. ASSUME NEW k \in 1..Len(wire') PROVE wire'[k] \in InFlight
    <3>1. k \in 1..Len(wire) \/ k = Len(wire) + 1
      BY <1>5
    <3> QED
      BY <1>5, <3>1 DEF InFlight
  <2> QED
    BY <1>1, <2>1 DEF InFlight
<1>7. Asked'
  <2>1. Answers' \subseteq Answers
    BY <1>6 DEF Answers
  <2> QED
    BY <1>1, <1>2, <2>1, AskedKept
<1>8. \A m : Publishable(m)' => Publishable(m)
  BY <1>1 DEF Publishable, Awaited, Refreshes
<1>9. Versions' /\ Fresh'
  BY <1>1, <1>2, <1>6, <1>8 DEF Versions, Fresh
<1>10. IdsStand'
  <2>1. \A o : Retired(0, o) => Retired(0, o)'
    BY <1>1, <1>2, <1>3, WireGrows
  <2> QED
    BY <1>1, <1>2, <2>1 DEF IdsStand, Managed
<1>11. ASSUME NEW k \in Nat, NEW shot, Agrees(shot, k) PROVE Agrees(shot, k)'
  <2>1. \A o : Retired(k, o) => Retired(k, o)'
    BY <1>1, <1>2, <1>3, WireGrows
  <2> QED
    BY <1>1, <1>11, <2>1 DEF Agrees, Managed
<1>12. AnswersStand'
  <2>1. ASSUME NEW k \in 1..Len(wire'), Publishable(wire[k])', Calm(k)'
        PROVE  Agrees(wire[k].world, k)'
    <3>1. CASE k \in 1..Len(wire)
      <4>1. wire'[k] = wire[k] /\ k \in Nat /\ Calm(k)
        <5>1. wire'[k] = wire[k] /\ k \in Nat
          BY <1>5, <3>1
        <5>2. \A j \in Nat : Calm(j)' => Calm(j)
          BY <1>1, <1>2, <1>3, WireGrows
        <5>3. Calm(k)
          BY <2>1, <5>1, <5>2 DEF Calm, Disturbs
        <5> QED
          BY <5>1, <5>3
      <4>2. Agrees(wire[k].world, k)
        BY <1>2, <1>8, <2>1, <3>1, <4>1 DEF AnswersStand
      <4> QED
        BY <1>11, <4>1, <4>2 DEF Agrees
    <3>2. CASE k = Len(wire) + 1
      <4>1. Silent /\ wire'[k] = h[1]
        BY <1>5, <2>1, <3>2 DEF Calm, Silent, Disturbs
      <4>2. Agrees(h[1].world, Len(wire))
        BY <1>2, <1>8, <2>1, <4>1 DEF AnswersStand
      <4>3. \A o : ~Retired(Len(wire), o)
        BY <1>1, <1>2, <1>3, WireGrows
      <4> QED
        BY <1>1, <4>1, <4>2, <4>3 DEF Agrees, Managed
    <3> QED
      BY <1>5, <3>1, <3>2
  <2>2. ASSUME NEW i \in held', Publishable(i[1])', Silent'
        PROVE  Agrees(i[1].world, Len(wire))'
    <3>1. Agrees(i[1].world, Len(wire)) /\ \A o : ~Retired(Len(wire), o)
      BY <1>1, <1>2, <1>3, <1>8, <2>2, WireGrows DEF AnswersStand
    <3> QED
      BY <1>1, <3>1 DEF Agrees, Managed
  <2> QED
    BY <1>1, <2>1, <2>2 DEF AnswersStand
<1>13. Minted' /\ OneDevicePerId'
  BY <1>1 DEF IInv, Minted, OneDevicePerId
<1> QED
  BY <1>4, <1>7, <1>9, <1>10, <1>12, <1>13 DEF IInv

(* A snapshot is computed from the world there is: while nothing is on its    *)
(* way that would make it stale, it agrees with every id.                     *)
LEMMA HandleRefreshKeeps ==
  ASSUME IInv, NEW w \in sent, HandleRefresh(w)
  PROVE  IInv'
<1> DEFINE m == Reply(w, "none", None, world, world.version)
<1>1. /\ UNCHANGED <<started, owner, generation, revision, refreshing, completions, ids, minted,
                     watchers, deferred, shown, heard, named, wire, instance, world, spent>>
      /\ held' = held \cup {<<m>>} /\ sent' = sent \ {w} /\ instance # None
  BY DEF HandleRefresh, Reaches, Environment, backendVars, historyVars
<1>2. TypeOK /\ Asked /\ Versions /\ Fresh /\ IdsStand /\ AnswersStand
  BY DEF IInv
<1>3. /\ m.kind = "reply" /\ m.watcher = w /\ m.world = world /\ m.version = world.version
      /\ m \in Messages
  <2>1. w \in Calls /\ world \in Worlds /\ None \in Instances /\ world.version \in Nat
    BY <1>2, Typed DEF TypeOK, Instances
  <2> HIDE DEF Calls, Worlds, Instances
  <2> QED
    BY <2>1 DEF Reply, Messages, Replies
<1> HIDE DEF m
<1>4. TypeOK'
  <2>1. <<m>> \in Seq(Messages) /\ Len(<<m>>) = 1
    BY <1>3
  <2> QED
    BY <1>1, <1>2, <2>1 DEF TypeOK
<1>5. InFlight' = InFlight \cup {m}
  <2>1. <<m>>[1] = m
    OBVIOUS
  <2>2. {h[1] : h \in held'} = {h[1] : h \in held} \cup {m}
    BY <1>1, <2>1
  <2>3. {wire'[i] : i \in 1..Len(wire')} = {wire[i] : i \in 1..Len(wire)}
    BY <1>1
  <2> QED
    BY <2>2, <2>3 DEF InFlight
<1>6. Asked'
  <2>1. Answers' = Answers \cup {m}
    BY <1>3, <1>5 DEF Answers
  <2> QED
    BY <1>1, <1>2, <1>3, <2>1, AskedKept
<1>7. \A n : Publishable(n)' => Publishable(n)
  BY <1>1 DEF Publishable, Awaited, Refreshes
<1>8. Versions'
  <2>1. world.version <= world.version
    BY <1>2, Typed
  <2> QED
    BY <1>1, <1>2, <1>3, <1>5, <2>1 DEF Versions
<1>9. Fresh'
  BY <1>1, <1>2, <1>3, <1>5, <1>7 DEF Fresh, Versions
<1>10. IdsStand'
  BY <1>1, <1>2 DEF IdsStand, Managed, Retired
<1>11. ASSUME NEW k, NEW shot, Agrees(shot, k) PROVE Agrees(shot, k)'
  BY <1>1, <1>11 DEF Agrees, Managed, Retired
<1>12. Silent => Agrees(world, Len(wire))
  <2> SUFFICES ASSUME Silent, NEW o \in world.present
               PROVE  /\ ids[o] # None =>
                           [id |-> ids[o], incarnation |-> world.incarnation[o]] \in named
                      /\ Managed(o, world.incarnation[o])
    BY DEF Agrees
  <2>1. o \in Objects
    BY <1>2 DEF TypeOK, Worlds
  <2>2. ~Retired(0, o)
    BY DEF Silent, Retired, Retires, Disturbs
  <2> QED
    BY <1>1, <1>2, <2>1, <2>2 DEF IdsStand, Managed
<1>13. AnswersStand'
  <2>1. ASSUME NEW k \in 1..Len(wire'), Publishable(wire[k])', Calm(k)'
        PROVE  Agrees(wire[k].world, k)'
    <3>1. Agrees(wire[k].world, k)
      BY <1>1, <1>2, <1>7, <2>1 DEF AnswersStand, Calm
    <3> QED
      BY <1>1, <1>11, <3>1 DEF Agrees
  <2>2. ASSUME NEW h \in held', Publishable(h[1])', Silent'
        PROVE  Agrees(h[1].world, Len(wire))'
    <3>1. Silent
      BY <1>1, <2>2 DEF Silent
    <3>2. CASE h \in held
      <4>1. Agrees(h[1].world, Len(wire))
        BY <1>2, <1>7, <2>2, <3>1, <3>2 DEF AnswersStand
      <4> QED
        BY <1>1, <1>11, <4>1 DEF Agrees
    <3>3. CASE h = <<m>>
      <4>1. h[1].world = world
        BY <1>3, <3>3
      <4> QED
        BY <1>1, <1>11, <1>12, <3>1, <4>1 DEF Agrees
    <3> QED
      BY <1>1, <3>2, <3>3
  <2> QED
    BY <2>1, <2>2 DEF AnswersStand
<1>14. Minted' /\ OneDevicePerId'
  BY <1>1 DEF IInv, Minted, OneDevicePerId
<1> QED
  BY <1>4, <1>6, <1>8, <1>9, <1>10, <1>13, <1>14 DEF IInv

LEMMA WorldTyped ==
  ASSUME TypeOK, NEW P \in SUBSET Objects, NEW M \in SUBSET Objects, NEW I \in [Objects -> Nat]
  PROVE  /\ World(P, M, I) \in Worlds /\ World(P, M, I).version = world.version + 1
         /\ World(P, M, I).present = P /\ World(P, M, I).incarnation = I
         /\ world.version <= World(P, M, I).version
<1>1. world.version \in Nat
  BY Typed
<1> QED
  BY <1>1 DEF World, Worlds

(* A change a running daemon tells of: the devices that stay keep their       *)
(* incarnation, the end of the others is told.                                *)
LEMMA ChangeManaged ==
  ASSUME TypeOK, NEW new \in Worlds, world' = new, UNCHANGED instance,
         \A o \in world.present \cap new.present : new.incarnation[o] = world.incarnation[o],
         NEW o \in Objects, NEW n \in Nat, Managed(o, n)
  PROVE  /\ Signals(world.present \ new.present, new.version) \in Seq(Messages)
         /\ Managed(o, n)' \/ \E i \in 1..Len(Signals(world.present \ new.present, new.version)) :
              Retires(Signals(world.present \ new.present, new.version)[i], o)
<1>1. world.present \ new.present \in SUBSET Objects /\ new.version \in Nat
  BY DEF TypeOK, Worlds
<1>2. CASE o \in new.present
  BY <1>1, <1>2, SignalsTold DEF Managed
<1>3. CASE o \notin new.present
  <2>1. o \in world.present \ new.present
    BY <1>3 DEF Managed
  <2> QED
    BY <1>1, <2>1, SignalsTold
<1> QED
  BY <1>2, <1>3

LEMMA ChangeKeeps ==
  ASSUME IInv, Environment, Disturbed, UNCHANGED <<sent, held, instance>>,
         NEW new \in Worlds, Change(new), world.version <= new.version,
         \A o \in world.present \cap new.present : new.incarnation[o] = world.incarnation[o]
  PROVE  IInv'
<1>1. TypeOK
  BY DEF IInv
<1>2. world' = new /\ UNCHANGED <<sent, held, instance>>
  BY DEF Change
<1>3. spent' \in Spendings
  <2>1. spent' = [spent EXCEPT !.changes = @ + 1] /\ spent \in Spendings
    BY <1>1 DEF Disturbed, TypeOK
  <2> QED
    BY <2>1, SpentMore
<1>4. CASE instance = None
  <2> DEFINE added == <<>>
  <2>1. added \in Seq(Messages) /\ Len(added) = 0 /\ wire' = wire \o added
    <3>1. wire \in Seq(Messages)
      BY <1>1 DEF TypeOK
    <3> QED
      BY <1>4, <3>1 DEF Change
  <2>2. \A i \in 1..Len(added) : FALSE
    BY <2>1
  <2>3. \A o \in Objects, n \in Nat : ~Managed(o, n)
    BY <1>4 DEF Managed
  <2>4. sent' \subseteq sent /\ instance' \in Instances /\ world' \in Worlds /\ held' = held
        /\ world.version <= world'.version
    BY <1>1, <1>2 DEF TypeOK
  <2> HIDE DEF added
  <2> QED
    BY <1>3, <2>1, <2>2, <2>3, <2>4, EnvironmentKeeps
<1>5. CASE instance # None
  <2> DEFINE added == Signals(world.present \ new.present, new.version)
  <2>1. world.present \ new.present \in SUBSET Objects /\ new.version \in Nat
    BY <1>1 DEF TypeOK, Worlds
  <2>2. /\ added \in Seq(Messages)
        /\ \A i \in 1..Len(added) : added[i].kind \in {"changed", "removed"}
                                    /\ added[i].version = new.version
    BY <2>1, SignalsTold
  <2>3. wire' = wire \o added
    BY <1>5 DEF Change
  <2>4. \A o \in Objects, n \in Nat :
          Managed(o, n) => Managed(o, n)' \/ \E i \in 1..Len(added) : Retires(added[i], o)
    BY <1>1, <1>2, ChangeManaged
  <2>5. sent' \subseteq sent /\ instance' \in Instances /\ world' \in Worlds /\ held' = held
        /\ world.version <= world'.version
    BY <1>1, <1>2 DEF TypeOK
  <2>6. \A i \in 1..Len(added) :
          /\ added[i].kind # "owner" => added[i].version <= world'.version
          /\ added[i].kind # "reply"
    <3> HIDE DEF added
    <3>1. world'.version = new.version /\ new.version <= new.version
      BY <1>2, <2>1
    <3> QED
      BY <2>2, <3>1
  <2> HIDE DEF added
  <2> QED
    BY <1>3, <2>2, <2>3, <2>4, <2>5, <2>6, EnvironmentKeeps
<1> QED
  BY <1>4, <1>5

LEMMA WorldKeeps ==
  ASSUME IInv, NEW o \in Objects, Plug(o) \/ Unplug(o) \/ (o \in Volumes /\ ToggleMount(o))
  PROVE  IInv'
<1>1. TypeOK
  BY DEF IInv
<1>2. /\ world.present \in SUBSET Objects /\ world.mounted \in SUBSET Objects
      /\ world.incarnation \in [Objects -> Nat]
  BY <1>1 DEF TypeOK, Worlds
<1>3. CASE Plug(o)
  <2> DEFINE I == [world.incarnation EXCEPT ![o] = @ + 1]
             new == World(world.present \cup {o}, world.mounted, I)
  <2>1. I \in [Objects -> Nat] /\ \A p \in Objects \ {o} : I[p] = world.incarnation[p]
    BY <1>2
  <2> HIDE DEF I
  <2>2. /\ new \in Worlds /\ world.version <= new.version
        /\ new.present = world.present \cup {o} /\ new.incarnation = I
    BY <1>1, <1>2, <2>1, WorldTyped
  <2>3. Change(new) /\ Disturbed /\ Environment /\ UNCHANGED <<sent, held, instance>>
        /\ o \notin world.present
    BY <1>3 DEF Plug, I
  <2>4. \A p \in world.present \cap new.present : new.incarnation[p] = world.incarnation[p]
    BY <1>2, <2>1, <2>2, <2>3
  <2> HIDE DEF new
  <2> QED
    BY <2>2, <2>3, <2>4, ChangeKeeps
<1>4. CASE Unplug(o)
  <2> DEFINE new == Without({o} \cup VolumesOn(o))
  <2>1. /\ new \in Worlds /\ world.version <= new.version /\ new.incarnation = world.incarnation
    BY <1>1, <1>2, WorldTyped DEF Without
  <2>2. Change(new) /\ Disturbed /\ Environment /\ UNCHANGED <<sent, held, instance>>
    BY <1>4 DEF Unplug
  <2> HIDE DEF new
  <2> QED
    BY <2>1, <2>2, ChangeKeeps
<1>5. CASE o \in Volumes /\ ToggleMount(o)
  <2> DEFINE M == IF o \in world.mounted THEN world.mounted \ {o} ELSE world.mounted \cup {o}
             new == World(world.present, M, world.incarnation)
  <2>1. M \in SUBSET Objects
    BY <1>2, <1>5
  <2>2. Change(new) /\ Disturbed /\ Environment /\ UNCHANGED <<sent, held, instance>>
    BY <1>5 DEF ToggleMount
  <2> HIDE DEF M
  <2>3. /\ new \in Worlds /\ world.version <= new.version /\ new.incarnation = world.incarnation
    BY <1>1, <1>2, <2>1, WorldTyped
  <2> HIDE DEF new
  <2> QED
    BY <2>2, <2>3, ChangeKeeps
<1> QED
  BY <1>3, <1>4, <1>5

(* Launching and dying are told by the bus; a dead daemon's ids are all       *)
(* about to be retired.                                                       *)
LEMMA LifeKeeps ==
  ASSUME IInv, Launch \/ Crash
  PROVE  IInv'
<1>1. TypeOK
  BY DEF IInv
<1>2. \A new \in Instances : LET m == [kind |-> "owner", owner |-> new] IN
        <<m>> \in Seq(Messages) /\ Len(<<m>>) = 1 /\ <<m>>[1] = m
  BY DEF Messages, OwnerSignals
<1>3. wire \in Seq(Messages) /\ world \in Worlds /\ world.version \in Nat
  BY <1>1, Typed DEF TypeOK
<1>4. CASE Launch
  <2> DEFINE new == spent.launches + 1
             added == <<[kind |-> "owner", owner |-> new]>>
  <2>1. new \in Nat /\ new \in Instances
    <3>1. spent \in Spendings
      BY <1>1 DEF TypeOK
    <3> QED
      BY <3>1 DEF Spendings, Instances
  <2>2. /\ instance = None /\ instance' = new /\ wire' = Append(wire, added[1])
        /\ Environment /\ UNCHANGED <<sent, held, world>>
    BY <1>4 DEF Launch
  <2>3. spent' \in Spendings
    <3>1. spent' = [spent EXCEPT !.launches = @ + 1] /\ spent \in Spendings
      BY <1>1, <1>4 DEF Launch, TypeOK
    <3> QED
      BY <3>1, SpentMore
  <2>4. added \in Seq(Messages) /\ Len(added) = 1 /\ added[1] = [kind |-> "owner", owner |-> new]
    BY <1>2, <2>1
  <2>5. added[1].kind = "owner"
    BY <2>4
  <2>6. wire' = wire \o added
    BY <1>2, <1>3, <2>1, <2>2, Appended DEF Messages, OwnerSignals
  <2> HIDE DEF added
  <2>7. \A i \in 1..Len(added) : added[i].kind = "owner"
    BY <2>4, <2>5
  <2>8. \A o \in Objects, n \in Nat : ~Managed(o, n)
    BY <2>2 DEF Managed
  <2>9. sent' \subseteq sent /\ instance' \in Instances /\ world' \in Worlds /\ held' = held
        /\ world.version <= world'.version
    BY <1>3, <2>1, <2>2
  <2> QED
    BY <2>2, <2>3, <2>4, <2>6, <2>7, <2>8, <2>9, EnvironmentKeeps
<1>5. CASE Crash
  <2> DEFINE added == <<[kind |-> "owner", owner |-> None]>>
  <2>1. /\ instance' = None /\ wire' = Append(wire, added[1]) /\ held' = {}
        /\ sent' \subseteq sent /\ Environment /\ UNCHANGED <<world, spent>>
    BY <1>5 DEF Crash
  <2>2. None \in Instances
    BY DEF Instances
  <2>3. added \in Seq(Messages) /\ Len(added) = 1 /\ added[1] = [kind |-> "owner", owner |-> None]
    BY <1>2, <2>2
  <2>4. added[1].kind = "owner" /\ 1 \in 1..Len(added)
    BY <2>3
  <2>5. wire' = wire \o added
    BY <1>3, <2>1, <2>2, Appended DEF Messages, OwnerSignals
  <2> HIDE DEF added
  <2>6. \A i \in 1..Len(added) : added[i].kind = "owner"
    BY <2>3, <2>4
  <2>7. \A o \in Objects : \E i \in 1..Len(added) : Retires(added[i], o)
    BY <2>4 DEF Retires
  <2>8. instance' \in Instances /\ world' \in Worlds /\ world.version <= world'.version
    BY <1>3, <2>1, <2>2
  <2>9. spent' \in Spendings
    BY <1>1, <2>1 DEF TypeOK
  <2> QED
    BY <2>1, <2>3, <2>5, <2>6, <2>7, <2>8, <2>9, EnvironmentKeeps
<1> QED
  BY <1>4, <1>5

LEMMA AnswerTyped ==
  ASSUME TypeOK, NEW w \in sent, NEW error \in {"none", "Upstream"}, NEW new \in Instances,
         NEW version \in Nat
  PROVE  LET m == Reply(w, error, new, Nothing, version) IN
           /\ m \in Messages /\ <<m>> \in Seq(Messages) /\ Len(<<m>>) = 1 /\ <<m>>[1] = m
           /\ m.kind = "reply" /\ m.watcher = w /\ m.version = version
<1> DEFINE m == Reply(w, error, new, Nothing, version)
<1>1. w \in Calls /\ Nothing \in Worlds \cup {Nothing}
  BY DEF TypeOK
<1>2. m \in Messages /\ m.kind = "reply" /\ m.watcher = w /\ m.version = version
  <2> HIDE DEF Calls, Worlds, Instances, Nothing
  <2> QED
    BY <1>1 DEF Reply, Messages, Replies
<1> HIDE DEF m
<1>3. <<m>> \in Seq(Messages) /\ Len(<<m>>) = 1 /\ <<m>>[1] = m
  BY <1>2
<1> QED
  BY <1>2, <1>3 DEF m

LEMMA HandleOwnerKeeps ==
  ASSUME IInv, NEW w \in sent, HandleOwner(w)
  PROVE  IInv'
<1> DEFINE m == Reply(w, "none", instance, Nothing, 0)
           added == <<m>>
<1>1. TypeOK
  BY DEF IInv
<1>2. /\ wire \in Seq(Messages) /\ world \in Worlds /\ world.version \in Nat
      /\ instance \in Instances
  BY <1>1, Typed DEF TypeOK
<1>3. /\ m \in Messages /\ added \in Seq(Messages) /\ Len(added) = 1 /\ added[1] = m
      /\ m.kind = "reply" /\ m.watcher = w /\ m.version = 0
  BY <1>1, <1>2, AnswerTyped
<1> HIDE DEF m
<1>4. /\ wire' = Append(wire, m) /\ sent' = sent \ {w} /\ Environment
      /\ UNCHANGED <<held, instance, world, spent>> /\ w.kind = "owner"
  BY DEF HandleOwner, m
<1>5. wire' = wire \o added
  BY <1>2, <1>3, <1>4, Appended
<1> HIDE DEF added
<1>6. \A i \in 1..Len(added) : added[i].version = 0 /\ added[i].watcher = w
  BY <1>3
<1>7. 0 <= world'.version /\ w.kind # "refresh" /\ w \in sent
  BY <1>2, <1>4
<1>8. /\ sent' \subseteq sent /\ instance' \in Instances /\ world' \in Worlds
      /\ world.version <= world'.version /\ held' = held
  BY <1>2, <1>4
<1>9. spent' \in Spendings
  BY <1>1, <1>4 DEF TypeOK
<1>10. \A o, n : Managed(o, n) => Managed(o, n)'
  BY <1>4 DEF Managed
<1> QED
  BY <1>3, <1>4, <1>5, <1>6, <1>7, <1>8, <1>9, <1>10, EnvironmentKeeps

LEMMA PerformedTyped ==
  ASSUME TypeOK, NEW operation \in Operations, NEW o \in Objects
  PROVE  /\ Performed(operation, o) \in Worlds
         /\ world.version <= Performed(operation, o).version
         /\ Performed(operation, o).version \in Nat
         /\ Performed(operation, o).incarnation = world.incarnation
<1>1. /\ world.present \in SUBSET Objects /\ world.mounted \in SUBSET Objects
      /\ world.incarnation \in [Objects -> Nat]
  BY DEF TypeOK, Worlds
<1>2. ASSUME NEW new, new = Performed(operation, o)
      PROVE  \E P, M \in SUBSET Objects : new = World(P, M, world.incarnation)
  <2>1. CASE operation = "Mount"
    <3>1. world.mounted \cup {o} \in SUBSET Objects
      BY <1>1
    <3> QED
      BY <1>1, <1>2, <2>1, <3>1 DEF Performed
  <2>2. CASE operation = "Unmount"
    <3>1. world.mounted \ {o} \in SUBSET Objects
      BY <1>1
    <3> QED
      BY <1>1, <1>2, <2>2, <3>1 DEF Performed
  <2>3. CASE operation = "Eject"
    <3>1. world.present \ VolumesOn(o) \in SUBSET Objects
          /\ world.mounted \ VolumesOn(o) \in SUBSET Objects
      BY <1>1
    <3> QED
      BY <1>1, <1>2, <2>3, <3>1 DEF Performed, Without
  <2>4. CASE operation = "PowerOff"
    <3>1. world.present \ ({o} \cup VolumesOn(o)) \in SUBSET Objects
          /\ world.mounted \ ({o} \cup VolumesOn(o)) \in SUBSET Objects
      BY <1>1
    <3> QED
      BY <1>1, <1>2, <2>4, <3>1 DEF Performed, Without
  <2> QED
    BY <2>1, <2>2, <2>3, <2>4 DEF Operations
<1>3. PICK P, M \in SUBSET Objects : Performed(operation, o) = World(P, M, world.incarnation)
  BY <1>2
<1>4. World(P, M, world.incarnation).version \in Nat
  BY <1>1, WorldTyped DEF Worlds
<1> QED
  BY <1>1, <1>3, <1>4, WorldTyped

LEMMA HandleOperationKeeps ==
  ASSUME IInv, NEW w \in sent, HandleOperation(w)
  PROVE  IInv'
<1>1. TypeOK
  BY DEF IInv
<1>2. /\ wire \in Seq(Messages) /\ world \in Worlds /\ world.version \in Nat
      /\ instance \in Instances /\ spent \in Spendings /\ None \in Instances
  BY <1>1, Typed DEF TypeOK, Instances
<1>3. w.call.operation \in Operations /\ w.object \in Objects
  <2>1. w \in Orders
    <3>1. w \in Calls /\ w.kind = "operation"
      BY <1>1 DEF TypeOK, HandleOperation
    <3> QED
      BY <3>1, CallKinds
  <2> QED
    BY <2>1 DEF Orders, Requests
<1>4. /\ sent' \subseteq sent /\ Environment /\ UNCHANGED <<instance, spent>>
      /\ w.kind # "refresh" /\ w \in sent
  BY DEF HandleOperation
<1> DEFINE new == Performed(w.call.operation, w.object)
           m == Reply(w, "none", None, Nothing, new.version)
           signals == Signals(world.present \ new.present, new.version)
           answer == <<m>>
           refusal == Reply(w, "Upstream", None, Nothing, world.version)
<1>5. /\ new \in Worlds /\ world.version <= new.version /\ new.version \in Nat
      /\ new.incarnation = world.incarnation
  BY <1>1, <1>3, PerformedTyped
<1>6. /\ answer \in Seq(Messages) /\ Len(answer) = 1 /\ answer[1] = m
      /\ m.kind = "reply" /\ m.watcher = w /\ m.version = new.version
  BY <1>1, <1>2, <1>4, <1>5, AnswerTyped
<1>7. /\ signals \in Seq(Messages)
      /\ \A i \in 1..Len(signals) : /\ signals[i].kind \in {"changed", "removed"}
                                    /\ signals[i].version = new.version
      /\ world.present = new.present =>
           signals = <<[kind |-> "changed", version |-> new.version]>>
  <2>1. world.present \ new.present \in SUBSET Objects
    BY <1>2 DEF Worlds
  <2>2. world.present = new.present => world.present \ new.present = {}
    OBVIOUS
  <2> HIDE DEF new
  <2> QED
    BY <1>5, <2>1, <2>2, SignalsTold
<1>8. \/ /\ world' = new
         /\ \/ /\ wire' \in {wire \o signals \o answer, wire \o answer \o signals}
               /\ UNCHANGED held
            \/ /\ new.present = world.present
               /\ wire' = wire \o answer /\ held' = held \cup {signals}
      \/ wire' = Append(wire, refusal) /\ UNCHANGED <<held, world>>
  BY DEF HandleOperation
<1>9. ASSUME world' = new, NEW o \in Objects, NEW n \in Nat, Managed(o, n)
      PROVE  Managed(o, n)' \/ \E i \in 1..Len(signals) : Retires(signals[i], o)
  <2>1. \A p \in world.present \cap new.present : new.incarnation[p] = world.incarnation[p]
    BY <1>5
  <2> HIDE DEF new
  <2> QED
    BY <1>1, <1>4, <1>5, <1>9, <2>1, ChangeManaged
<1>10. new.version <= new.version /\ world.version <= world.version
  BY <1>2, <1>5
<1>11. ASSUME world' = new, UNCHANGED held, NEW added \in Seq(Messages), wire' = wire \o added,
              \A i \in 1..Len(added) : \/ \E j \in 1..Len(signals) : added[i] = signals[j]
                                       \/ \E j \in 1..Len(answer) : added[i] = answer[j],
              \A j \in 1..Len(signals) : \E i \in 1..Len(added) : added[i] = signals[j]
       PROVE  IInv'
  <2> HIDE DEF new, m, signals, answer
  <2>1. ASSUME NEW i \in 1..Len(added)
        PROVE  /\ added[i].kind # "owner" => added[i].version <= world'.version
               /\ added[i].kind = "reply" => added[i].watcher = w
    <3>1. CASE \E j \in 1..Len(signals) : added[i] = signals[j]
      <4>1. added[i].kind \in {"changed", "removed"} /\ added[i].version = new.version
        BY <1>7, <3>1
      <4> QED
        BY <1>10, <1>11, <4>1
    <3>2. CASE \E j \in 1..Len(answer) : added[i] = answer[j]
      <4>1. added[i] = m
        BY <1>6, <3>2
      <4> QED
        BY <1>6, <1>10, <1>11, <4>1
    <3> QED
      BY <1>11, <3>1, <3>2
  <2>2. \A o \in Objects, n \in Nat :
          Managed(o, n) => Managed(o, n)' \/ \E i \in 1..Len(added) : Retires(added[i], o)
    BY <1>9, <1>11
  <2> QED
    BY <1>2, <1>4, <1>5, <1>11, <2>1, <2>2, EnvironmentKeeps
<1>12. CASE world' = new /\ wire' = wire \o signals \o answer /\ UNCHANGED held
  <2> HIDE DEF new, m, signals, answer
  <2>1. signals \in Seq(Messages) /\ answer \in Seq(Messages)
    BY <1>6, <1>7
  <2>2. wire' = wire \o (signals \o answer)
    BY <1>2, <1>12, <2>1, Regrouped
  <2>3. signals \o answer \in Seq(Messages)
    BY <2>1, Joined
  <2>4. \A i \in 1..Len(signals \o answer) :
          \/ \E j \in 1..Len(signals) : (signals \o answer)[i] = signals[j]
          \/ \E j \in 1..Len(answer) : (signals \o answer)[i] = answer[j]
    BY <2>1, JoinedElements
  <2>5. \A j \in 1..Len(signals) : \E i \in 1..Len(signals \o answer) :
          (signals \o answer)[i] = signals[j]
    BY <2>1, JoinedElements
  <2> QED
    BY <1>11, <1>12, <2>2, <2>3, <2>4, <2>5
<1>13. CASE world' = new /\ wire' = wire \o answer \o signals /\ UNCHANGED held
  <2> HIDE DEF new, m, signals, answer
  <2>1. signals \in Seq(Messages) /\ answer \in Seq(Messages)
    BY <1>6, <1>7
  <2>2. wire' = wire \o (answer \o signals)
    BY <1>2, <1>13, <2>1, Regrouped
  <2>3. answer \o signals \in Seq(Messages)
    BY <2>1, Joined
  <2>4. \A i \in 1..Len(answer \o signals) :
          \/ \E j \in 1..Len(signals) : (answer \o signals)[i] = signals[j]
          \/ \E j \in 1..Len(answer) : (answer \o signals)[i] = answer[j]
    BY <2>1, JoinedElements
  <2>5. \A j \in 1..Len(signals) : \E i \in 1..Len(answer \o signals) :
          (answer \o signals)[i] = signals[j]
    BY <2>1, JoinedElements
  <2> QED
    BY <1>11, <1>13, <2>2, <2>3, <2>4, <2>5
<1>14. CASE /\ world' = new /\ new.present = world.present
            /\ wire' = wire \o answer /\ held' = held \cup {signals}
  <2> HIDE DEF new, m, answer
  <2>1. /\ signals \in Seq(Messages) /\ Len(signals) = 1 /\ signals[1].kind = "changed"
        /\ signals[1].version = new.version
    BY <1>7, <1>14
  <2> HIDE DEF signals
  <2>2. \A i \in 1..Len(answer) : answer[i].version = new.version /\ answer[i].watcher = w
    BY <1>6
  <2>3. \A o \in Objects, n \in Nat : Managed(o, n) => Managed(o, n)'
    BY <1>4, <1>5, <1>14 DEF Managed
  <2> QED
    BY <1>2, <1>4, <1>5, <1>6, <1>10, <1>14, <2>1, <2>2, <2>3, EnvironmentKeeps
<1>15. CASE wire' = Append(wire, refusal) /\ UNCHANGED <<held, world>>
  <2> DEFINE added == <<refusal>>
  <2>1. /\ refusal \in Messages /\ added \in Seq(Messages) /\ Len(added) = 1
        /\ added[1] = refusal
        /\ refusal.kind = "reply" /\ refusal.watcher = w /\ refusal.version = world.version
    BY <1>1, <1>2, <1>4, AnswerTyped
  <2> HIDE DEF refusal
  <2>2. wire' = wire \o added
    BY <1>2, <1>15, <2>1, Appended
  <2> HIDE DEF added
  <2>3. \A i \in 1..Len(added) : added[i].version = world.version /\ added[i].watcher = w
    BY <2>1
  <2>4. \A o, n : Managed(o, n) => Managed(o, n)'
    BY <1>4, <1>15 DEF Managed
  <2> QED
    BY <1>2, <1>4, <1>10, <1>15, <2>1, <2>2, <2>3, <2>4, EnvironmentKeeps
<1> QED
  BY <1>8, <1>12, <1>13, <1>14, <1>15

-----------------------------------------------------------------------------
(* The backend.  A step of its own leaves the world and what is held alone,   *)
(* and takes at most the first message of the wire.                           *)

Taking ==
  /\ UNCHANGED <<held, instance, world>> /\ spent' \in Spendings
  /\ wire' = wire \/ (wire # <<>> /\ wire' = Tail(wire))

LEMMA WireTaken ==
  ASSUME TypeOK, Taking
  PROVE  /\ wire' \in Seq(Messages) /\ Len(wire) \in Nat /\ Len(wire') \in Nat
         /\ InFlight' \subseteq InFlight /\ Answers' \subseteq Answers
         /\ \A k \in 1..Len(wire') : wire'[k] \in InFlight
         /\ \A h \in held' : h[1] \in InFlight
<1>1. wire \in Seq(Messages) /\ held' = held
  BY DEF TypeOK, Taking
<1>2. /\ wire' \in Seq(Messages)
      /\ \A k \in 1..Len(wire') : \E j \in 1..Len(wire) : wire'[k] = wire[j]
  <2>1. CASE wire' = wire
    BY <1>1, <2>1
  <2>2. CASE wire # <<>> /\ wire' = Tail(wire)
    <3>1. /\ Tail(wire) \in Seq(Messages) /\ Len(wire) \in Nat
          /\ Len(Tail(wire)) = Len(wire) - 1
          /\ \A k \in 1..Len(Tail(wire)) : Tail(wire)[k] = wire[k + 1]
      BY <1>1, <2>2, Taken
    <3> QED
      BY <2>2, <3>1
  <2> QED
    BY <2>1, <2>2 DEF Taking
<1>3. \A k \in 1..Len(wire') : wire'[k] \in InFlight
  BY <1>2 DEF InFlight
<1>4. \A h \in held' : h[1] \in InFlight
  BY <1>1 DEF InFlight
<1>5. InFlight' \subseteq InFlight
  BY <1>3, <1>4 DEF InFlight
<1> QED
  BY <1>1, <1>2, <1>3, <1>4, <1>5 DEF Answers

LEMMA RetiredTaken ==
  ASSUME TypeOK, wire # <<>>, wire' = Tail(wire), NEW o
  PROVE  /\ \A k \in Nat : Retired(k + 1, o) => Retired(k, o)'
         /\ ~Retires(wire[1], o) /\ Retired(0, o) => Retired(0, o)'
<1>1. /\ Len(wire) \in Nat \ {0} /\ Len(wire') = Len(wire) - 1
      /\ \A i \in 1..Len(wire') : wire'[i] = wire[i + 1]
  BY Taken DEF TypeOK
<1>2. ASSUME NEW k \in Nat, Retired(k + 1, o) PROVE Retired(k, o)'
  <2>1. PICK j \in 1..Len(wire) : k + 1 < j /\ Retires(wire[j], o)
    BY <1>2 DEF Retired
  <2>2. j - 1 \in 1..Len(wire') /\ k < j - 1 /\ (j - 1) + 1 = j
    BY <1>1, <2>1
  <2>3. wire'[j - 1] = wire[j]
    BY <1>1, <2>2
  <2> QED
    BY <2>1, <2>2, <2>3 DEF Retired, Retires
<1>3. ASSUME ~Retires(wire[1], o), Retired(0, o) PROVE Retired(1, o)
  <2>1. PICK j \in 1..Len(wire) : Retires(wire[j], o)
    BY <1>3 DEF Retired
  <2>2. j # 1
    BY <1>3, <2>1
  <2>3. 1 < j
    BY <2>2
  <2> QED
    BY <2>1, <2>3 DEF Retired
<1> QED
  BY <1>2, <1>3

(* Nothing that travels will be published: nothing is asked of it.            *)
LEMMA Vacuous ==
  ASSUME TypeOK, Taking, \A m \in Answers : ~Awaited(m.watcher)'
  PROVE  Fresh' /\ AnswersStand'
<1>1. \A m \in InFlight : ~Publishable(m)'
  BY DEF Answers, Publishable
<1> QED
  BY <1>1, WireTaken DEF Fresh, AnswersStand

LEMMA VersionsTaken ==
  ASSUME IInv, Taking,
         \A i \in 1..Len(completions') : completions'[i].version <= world.version
  PROVE  Versions'
<1>1. TypeOK /\ Versions /\ world' = world
  BY DEF IInv, Taking
<1> QED
  BY <1>1, WireTaken DEF Versions

(* An id that is kept keeps what will retire it. *)
LEMMA IdsTaken ==
  ASSUME IInv, Taking, named \subseteq named', started => started',
         \A o \in Objects : ids'[o] # None =>
           ids'[o] = ids[o] /\ (wire' = wire \/ ~Retires(wire[1], o))
  PROVE  IdsStand'
<1>1. TypeOK /\ IdsStand /\ UNCHANGED <<instance, world>>
  BY DEF IInv, Taking
<1>2. SUFFICES ASSUME NEW o \in Objects, ids'[o] # None
               PROVE  /\ started'
                      /\ \/ Retired(0, o)'
                         \/ \E n \in Nat : /\ Managed(o, n)'
                                           /\ [id |-> ids'[o], incarnation |-> n] \in named'
  BY DEF IdsStand
<1>3. /\ ids'[o] = ids[o] /\ (wire' = wire \/ ~Retires(wire[1], o))
      /\ started
      /\ \/ Retired(0, o)
         \/ \E n \in Nat : Managed(o, n) /\ [id |-> ids[o], incarnation |-> n] \in named
  BY <1>1, <1>2 DEF IdsStand
<1>4. CASE Retired(0, o)
  <2>1. CASE wire' = wire
    BY <1>3, <1>4, <2>1 DEF Retired
  <2>2. CASE wire # <<>> /\ wire' = Tail(wire) /\ ~Retires(wire[1], o)
    BY <1>1, <1>3, <1>4, <2>2, RetiredTaken
  <2> QED
    BY <1>3, <2>1, <2>2 DEF Taking
<1>5. ASSUME NEW n \in Nat, Managed(o, n), [id |-> ids[o], incarnation |-> n] \in named
      PROVE  \E i \in Nat : Managed(o, i)' /\ [id |-> ids'[o], incarnation |-> i] \in named'
  BY <1>1, <1>3, <1>5 DEF Managed
<1> QED
  BY <1>3, <1>4, <1>5

(* A refresh that is asked for, unless one is outstanding or there is nobody  *)
(* to ask: none of this connection is left but the outstanding one.           *)
LEMMA RefreshAsked ==
  ASSUME IInv, Taking, NEW others \in SUBSET watchers, NEW to \in Addresses, NEW busy \in BOOLEAN,
         refresh(generation', revision', to, busy, others),
         generation' \in Nat, revision' \in Nat,
         generation <= generation', revision <= revision',
         to # None => to = owner' /\ started',
         \/ busy /\ refreshing /\ UNCHANGED <<generation, started, owner>>
         \/ ~busy /\ \A w \in others : ~(w.kind = "refresh" /\ w.generation = generation')
  PROVE  /\ Asked' /\ watchers' \subseteq Calls /\ sent' \subseteq Calls /\ refreshing' \in BOOLEAN
<1>1. TypeOK /\ Asked
  BY DEF IInv
<1>2. generation \in Nat /\ revision \in Nat /\ Answers' \subseteq Answers
  BY <1>1, WireTaken DEF TypeOK
<1> DEFINE new == [kind |-> "refresh", generation |-> generation', revision |-> revision',
                   to |-> to]
<1>3. PICK call \in SUBSET {new} :
        /\ call = IF busy \/ to = None THEN {} ELSE {new}
        /\ refreshing' = (busy \/ call # {})
        /\ watchers' = others \cup call /\ sent' = sent \cup call
  BY DEF refresh
<1>4. new \in Calls
  BY DEF Calls, Queries
<1>5. watchers' \subseteq Calls /\ sent' \subseteq Calls /\ refreshing' \in BOOLEAN
  <2>1. watchers' \subseteq Calls /\ sent' \subseteq Calls
    BY <1>1, <1>3, <1>4 DEF TypeOK
  <2>2. refreshing' = (busy \/ call # {})
    BY <1>3
  <2> QED
    BY <2>1, <2>2, Zenon
<1>6. new.generation = generation' /\ new.revision = revision' /\ new.kind = "refresh"
  OBVIOUS
<1>7. \A m \in Answers : m.watcher \in Calls
  BY <1>1, Typed DEF Answers
<1>8. \A w \in watchers \cup sent \cup {m.watcher : m \in Answers} :
        /\ w \in Calls /\ w.generation \in Nat /\ w.revision \in Nat
        /\ w.generation <= generation /\ w.revision <= revision
  BY <1>1, <1>7, CallKinds DEF TypeOK, Asked
<1>9. \A w \in (watchers \cup sent \cup {m.watcher : m \in Answers})' :
        w \in watchers \cup sent \cup {m.watcher : m \in Answers} \/ w = new
  BY <1>2, <1>3
<1> HIDE DEF new
<1>10. \A w \in (watchers \cup sent \cup {m.watcher : m \in Answers})' :
         w.generation <= generation' /\ w.revision <= revision'
  <2> SUFFICES ASSUME NEW w \in (watchers \cup sent \cup {m.watcher : m \in Answers})'
               PROVE  w.generation <= generation' /\ w.revision <= revision'
    OBVIOUS
  <2>1. CASE w = new
    BY <1>6, <2>1
  <2>2. CASE w \in watchers \cup sent \cup {m.watcher : m \in Answers}
    <3>1. /\ w.generation \in Nat /\ w.revision \in Nat
          /\ w.generation <= generation /\ w.revision <= revision
      BY <1>8, <2>2
    <3> QED
      BY <1>2, <3>1
  <2> QED
    BY <1>9, <2>1, <2>2
<1>11. CASE busy
  <2>1. /\ call = {} /\ watchers' = others /\ sent' = sent /\ refreshing' = TRUE /\ refreshing
        /\ UNCHANGED <<generation, started, owner>>
    BY <1>3, <1>11
  <2>2. Refreshes(watchers)' \subseteq Refreshes(watchers)
    BY <2>1 DEF Refreshes
  <2>3. Refreshes(sent \cup {m.watcher : m \in Answers})'
          \subseteq Refreshes(sent \cup {m.watcher : m \in Answers})
    BY <1>2, <2>1 DEF Refreshes
  <2>4. \A w \in Refreshes(watchers)' :
          /\ started' /\ refreshing' /\ owner' # None
          /\ w = [kind |-> "refresh", generation |-> generation', revision |-> w.revision,
                  to |-> owner']
          /\ \A x \in Refreshes(watchers)' : x = w
          /\ \A x \in Refreshes(sent \cup {m.watcher : m \in Answers})' : x.revision <= w.revision
    BY <1>1, <2>1, <2>2, <2>3 DEF Asked
  <2> QED
    BY <1>5, <1>10, <2>4 DEF Asked
<1>12. CASE ~busy
  <2>1. Refreshes(watchers)' \subseteq call
    BY <1>3, <1>12 DEF Refreshes
  <2>2. ASSUME NEW w \in Refreshes(watchers)'
        PROVE  /\ started' /\ refreshing' /\ owner' # None
               /\ w = [kind |-> "refresh", generation |-> generation', revision |-> w.revision,
                       to |-> owner']
               /\ \A x \in Refreshes(watchers)' : x = w
               /\ \A x \in Refreshes(sent \cup {m.watcher : m \in Answers})' :
                    x.revision <= w.revision
    <3>1. w = new /\ call = {new} /\ to # None
      BY <1>3, <2>1, <2>2
    <3>2. started' /\ owner' # None /\ to = owner'
      BY <3>1
    <3>3. refreshing'
      BY <1>3, <3>1, Zenon
    <3>4. w = [kind |-> "refresh", generation |-> generation', revision |-> w.revision,
               to |-> owner']
      BY <1>6, <3>1, <3>2 DEF new
    <3>5. \A x \in Refreshes(watchers)' : x = w
      BY <2>1, <3>1
    <3>6. \A x \in Refreshes(sent \cup {m.watcher : m \in Answers})' : x.revision <= w.revision
      BY <1>6, <1>10, <3>1 DEF Refreshes
    <3> QED
      BY <3>2, <3>3, <3>4, <3>5, <3>6
  <2> QED
    BY <1>5, <1>10, <2>2 DEF Asked
<1> QED
  BY <1>11, <1>12

LEMMA NamesKept ==
  ASSUME IInv, UNCHANGED <<minted, named>>
  PROVE  Minted' /\ OneDevicePerId'
BY DEF IInv, Minted, OneDevicePerId

(* Every answer on its way was asked for before a newer revision.             *)
LEMMA Outdated ==
  ASSUME IInv, Taking, revision' = revision + 1
  PROVE  Fresh' /\ AnswersStand'
<1>1. TypeOK /\ Asked /\ revision \in Nat
  BY DEF IInv, TypeOK
<1>2. ASSUME NEW m \in Answers PROVE ~Awaited(m.watcher)'
  <2>1. m.watcher.revision <= revision
    BY <1>1 DEF Asked
  <2>2. m.watcher \in Calls /\ m.watcher.revision \in Nat
    <3>1. m.watcher \in Calls
      BY <1>1, Typed DEF Answers
    <3> QED
      BY <3>1, CallKinds
  <2>3. m.watcher.revision # revision + 1
    BY <1>1, <2>1, <2>2
  <2> QED
    BY <2>3 DEF Awaited
<1> QED
  BY <1>1, <1>2, Vacuous

LEMMA SetOwnerKeeps ==
  ASSUME IInv, Taking, NEW new \in Addresses, NEW others \in SUBSET watchers,
         setOwner(new, others), started' \in BOOLEAN, new # None => started', started => started' \/ new = None
  PROVE  IInv'
<1>1. TypeOK
  BY DEF IInv
<1>2. /\ generation' = generation + 1 /\ revision' = revision + 1 /\ owner' = new
      /\ ids' = NoIds /\ completions' = <<>> /\ UNCHANGED <<minted, named, deferred>>
      /\ refresh(generation', revision', new, FALSE, others)
  BY DEF setOwner
<1>3. generation \in Nat /\ revision \in Nat /\ generation' \in Nat /\ revision' \in Nat
      /\ generation <= generation' /\ revision <= revision'
  BY <1>1, <1>2 DEF TypeOK
<1>4. \A w \in others : w.generation # generation'
  <2> SUFFICES ASSUME NEW w \in others PROVE w.generation # generation'
    OBVIOUS
  <2>1. w.generation <= generation
    BY DEF IInv, Asked
  <2>2. w \in Calls
    BY <1>1 DEF TypeOK
  <2>3. w.generation \in Nat
    BY <2>2, CallKinds
  <2> QED
    BY <1>2, <1>3, <2>1, <2>3
<1>5. Asked' /\ watchers' \subseteq Calls /\ sent' \subseteq Calls /\ refreshing' \in BOOLEAN
  BY <1>2, <1>3, <1>4, RefreshAsked
<1>6. DOMAIN ids' = Objects /\ completions' \in Seq(Completed)
  BY <1>2 DEF NoIds
<1>7. TypeOK'
  BY <1>1, <1>2, <1>3, <1>5, <1>6, WireTaken DEF TypeOK, Taking
<1>8. \A i \in 1..Len(completions') : FALSE
  BY <1>2
<1>9. Versions'
  BY <1>8, VersionsTaken
<1>10. \A o \in Objects : ids'[o] = None
  BY <1>2 DEF NoIds
<1>11. IdsStand'
  BY <1>10 DEF IdsStand
<1> QED
  BY <1>2, <1>5, <1>7, <1>9, <1>11, NamesKept, Outdated DEF IInv

LEMMA ChangedKeeps ==
  ASSUME IInv, Taking, NEW others \in SUBSET watchers, changed(others),
         UNCHANGED <<minted, named, deferred>>,
         completions' \in Seq(Completed),
         \A i \in 1..Len(completions') : completions'[i].version <= world.version,
         DOMAIN ids' = Objects,
         \A o \in Objects : ids'[o] # None =>
           ids'[o] = ids[o] /\ (wire' = wire \/ ~Retires(wire[1], o))
  PROVE  IInv'
<1>1. TypeOK /\ Asked
  BY DEF IInv
<1>2. /\ revision' = revision + 1 /\ UNCHANGED <<started, owner, generation>>
      /\ refresh(generation', revision', IF started THEN owner ELSE None, refreshing, others)
  BY DEF changed
<1>3. /\ generation \in Nat /\ revision \in Nat /\ generation' \in Nat /\ revision' \in Nat
      /\ generation <= generation' /\ revision <= revision'
  BY <1>1, <1>2 DEF TypeOK
<1> DEFINE to == IF started THEN owner ELSE None
<1>4. /\ refreshing \in BOOLEAN /\ to \in Addresses
      /\ to # None => to = owner' /\ started'
      /\ refresh(generation', revision', to, refreshing, others)
  <2>1. owner \in Addresses /\ None \in Addresses /\ refreshing \in BOOLEAN
    BY <1>1 DEF TypeOK, Addresses, Instances
  <2> QED
    BY <1>2, <2>1, Zenon
<1> HIDE DEF to
<1>5. ~refreshing => \A w \in others : ~(w.kind = "refresh" /\ w.generation = generation')
  BY <1>1, <1>2 DEF Asked, Refreshes
<1>6. Asked' /\ watchers' \subseteq Calls /\ sent' \subseteq Calls /\ refreshing' \in BOOLEAN
  BY <1>2, <1>3, <1>4, <1>5, RefreshAsked
<1>7. TypeOK'
  BY <1>1, <1>2, <1>3, <1>6, WireTaken DEF TypeOK, Taking
<1>8. Versions'
  BY VersionsTaken
<1>9. IdsStand'
  BY <1>2, IdsTaken
<1> QED
  BY <1>2, <1>6, <1>7, <1>8, <1>9, NamesKept, Outdated DEF IInv

(* The one refresh of this connection is over: none is waited for.            *)
LEMMA Over ==
  ASSUME IInv, Taking, NEW w \in Refreshes(watchers), watchers' = watchers \ {w},
         UNCHANGED <<started, owner, generation, revision, sent>>, refreshing' = FALSE
  PROVE  Asked' /\ Fresh' /\ AnswersStand'
<1>1. TypeOK /\ Asked
  BY DEF IInv
<1>2. Refreshes(watchers)' = {}
  BY <1>1 DEF Asked, Refreshes
<1>3. Answers' \subseteq Answers
  BY <1>1, WireTaken
<1>4. Asked'
  BY <1>1, <1>2, <1>3 DEF Asked
<1>5. \A x : ~Awaited(x)'
  BY <1>2 DEF Awaited
<1> QED
  BY <1>1, <1>4, <1>5, Vacuous

LEMMA FailedKeeps ==
  ASSUME IInv, Taking, NEW w \in Refreshes(watchers), watchers' = watchers \ {w},
         UNCHANGED <<started, owner, generation, revision, sent, deferred>>, refreshing' = FALSE,
         refreshFailed
  PROVE  IInv'
<1>1. TypeOK
  BY DEF IInv
<1>2. Asked' /\ Fresh' /\ AnswersStand'
  BY Over
<1>3. ids' = NoIds /\ completions' = <<>> /\ UNCHANGED <<minted, named>>
  BY DEF refreshFailed
<1>4. DOMAIN ids' = Objects /\ completions' \in Seq(Completed)
  BY <1>3 DEF NoIds
<1>5. refreshing' \in BOOLEAN
  OBVIOUS
<1>6. TypeOK'
  BY <1>1, <1>3, <1>4, <1>5, WireTaken DEF TypeOK, Taking
<1>7. \A i \in 1..Len(completions') : FALSE
  BY <1>3
<1>8. Versions'
  BY <1>7, VersionsTaken
<1>9. \A o \in Objects : ids'[o] = None
  BY <1>3 DEF NoIds
<1>10. IdsStand'
  BY <1>9 DEF IdsStand
<1> QED
  BY <1>2, <1>3, <1>6, <1>8, <1>10, NamesKept DEF IInv

(* An answer to an older revision: another refresh is asked for.              *)
LEMMA StaleKeeps ==
  ASSUME IInv, Taking, NEW w \in Refreshes(watchers), w.revision # revision,
         refresh(generation, revision, owner, FALSE, watchers \ {w}),
         wire' = wire \/ \A o : ~Retires(wire[1], o),
         UNCHANGED <<started, owner, generation, revision, completions, ids, minted, deferred,
                     named>>
  PROVE  IInv'
<1>1. TypeOK /\ Asked /\ Versions
  BY DEF IInv
<1>2. /\ generation \in Nat /\ revision \in Nat /\ owner \in Addresses
      /\ generation <= generation' /\ revision <= revision'
      /\ generation' \in Nat /\ revision' \in Nat
  BY <1>1 DEF TypeOK
<1>3. started /\ owner # None /\ \A x \in watchers \ {w} : x \notin Refreshes(watchers)
  BY <1>1 DEF Asked
<1>4. \A x \in watchers \ {w} : ~(x.kind = "refresh" /\ x.generation = generation')
  BY <1>3 DEF Refreshes
<1>5. refresh(generation', revision', owner, FALSE, watchers \ {w}) /\ watchers \ {w} \subseteq watchers
  OBVIOUS
<1>6. Asked' /\ watchers' \subseteq Calls /\ sent' \subseteq Calls /\ refreshing' \in BOOLEAN
  BY <1>2, <1>3, <1>4, <1>5, RefreshAsked
<1>7. TypeOK'
  BY <1>1, <1>6, WireTaken DEF TypeOK, Taking
<1>8. Versions'
  BY <1>1, VersionsTaken DEF Versions
<1>9. IdsStand'
  BY IdsTaken
<1>10. ASSUME NEW m \in Answers PROVE ~Awaited(m.watcher)'
  <2> SUFFICES ASSUME Awaited(m.watcher)' PROVE FALSE
    OBVIOUS
  <2>1. m.watcher.kind = "refresh" /\ m.watcher.generation = generation
        /\ m.watcher.revision = revision
    BY DEF Awaited, Refreshes
  <2>2. m.watcher \in Refreshes(sent \cup {n.watcher : n \in Answers})
    BY <2>1 DEF Refreshes
  <2>3. revision <= w.revision
    BY <1>1, <2>1, <2>2 DEF Asked
  <2>4. w.revision <= revision /\ w \in Calls
    BY <1>1 DEF Asked, Refreshes, TypeOK
  <2>5. w.revision \in Nat
    BY <2>4, CallKinds
  <2> QED
    BY <1>2, <2>3, <2>4, <2>5
<1> QED
  BY <1>1, <1>6, <1>7, <1>8, <1>9, <1>10, NamesKept, Vacuous DEF IInv

(* A snapshot is published: every id stands for the device it was computed    *)
(* from, and that is the device the id has always stood for.                  *)
LEMMA PublishKeeps ==
  ASSUME IInv, Taking, wire # <<>>, wire' = Tail(wire),
         wire[1].kind = "reply", NEW w \in Refreshes(watchers), w = wire[1].watcher,
         w.revision = revision, publish(wire[1].world), watchers' = watchers \ {w},
         UNCHANGED <<started, owner, generation, revision, sent, deferred>>, refreshing' = FALSE
  PROVE  IInv'
<1> DEFINE shot == wire[1].world
<1>1. TypeOK /\ Asked /\ AnswersStand /\ Minted /\ OneDevicePerId
  BY DEF IInv
<1>2. wire \in Seq(Messages) /\ Len(wire) \in Nat \ {0} /\ 1 \in 1..Len(wire)
  BY <1>1, Taken DEF TypeOK
<1>3. Agrees(shot, 1)
  <2>1. Publishable(wire[1])
    BY DEF Publishable, Awaited
  <2>2. Calm(1)
    BY DEF Calm
  <2> QED
    BY <1>1, <1>2, <2>1, <2>2 DEF AnswersStand
<1>4. shot \in Worlds \cup {Nothing}
  BY <1>1, <1>2, Typed
<1>5. shot.present \subseteq Objects /\ \A o \in shot.present : shot.incarnation[o] \in Nat
  BY <1>4 DEF Worlds, Nothing
<1>6. minted \in [Objects -> Nat]
  BY <1>1 DEF TypeOK
<1> HIDE DEF shot
<1>7. /\ ids' = idsFor(shot) /\ completions' = <<>>
      /\ minted' = [o \in Objects |->
           IF o \in shot.present /\ ids[o] = None THEN minted[o] + 1 ELSE minted[o]]
      /\ named' = named \cup {[id |-> ids'[o], incarnation |-> shot.incarnation[o]] :
                                o \in shot.present}
  BY DEF publish, shot
<1>8. /\ DOMAIN ids' = Objects
      /\ \A o \in Objects : o \notin shot.present => ids'[o] = None
      /\ \A o \in shot.present :
           /\ ids[o] # None => ids'[o] = ids[o]
           /\ ids[o] = None => ids'[o] = <<o, minted[o] + 1>> /\ minted'[o] = minted[o] + 1
  BY <1>5, <1>7 DEF idsFor
<1>9. minted' \in [Objects -> Nat] /\ \A o \in Objects : minted[o] <= minted'[o]
  BY <1>6, <1>7
<1>10. Asked' /\ Fresh' /\ AnswersStand'
  BY Over
<1>11. TypeOK'
  <2>1. refreshing' \in BOOLEAN
    OBVIOUS
  <2>2. completions' \in Seq(Completed)
    BY <1>7
  <2> QED
    BY <1>1, <1>8, <1>9, <2>1, <2>2, WireTaken DEF TypeOK, Taking
<1>12. Versions'
  <2>1. \A i \in 1..Len(completions') : FALSE
    BY <1>7
  <2> QED
    BY <2>1, VersionsTaken
<1>13. IdsStand'
  <2> SUFFICES ASSUME NEW o \in Objects, ids'[o] # None
               PROVE  /\ started'
                      /\ \/ Retired(0, o)'
                         \/ \E n \in Nat : /\ Managed(o, n)'
                                           /\ [id |-> ids'[o], incarnation |-> n] \in named'
    BY DEF IdsStand
  <2>1. started' /\ o \in shot.present
    BY <1>1, <1>8 DEF Asked
  <2>2. [id |-> ids'[o], incarnation |-> shot.incarnation[o]] \in named'
    BY <1>7, <2>1
  <2>3. CASE Retired(1, o)
    <3>1. Retired(0 + 1, o)
      BY <2>3
    <3> QED
      BY <1>1, <2>1, <3>1, RetiredTaken
  <2>4. CASE Managed(o, shot.incarnation[o])
    <3>1. PICK n : n = shot.incarnation[o]
      OBVIOUS
    <3>2. Managed(o, n)' /\ n \in Nat
      BY <1>5, <2>1, <2>4, <3>1 DEF Managed, Taking
    <3> QED
      BY <2>1, <2>2, <3>1, <3>2
  <2> QED
    BY <1>3, <2>1, <2>3, <2>4 DEF Agrees
<1>14. ASSUME NEW p \in named'
       PROVE  \/ p \in named
              \/ \E o \in shot.present : /\ p.id = <<o, minted[o] + 1>>
                                         /\ p.incarnation = shot.incarnation[o]
                                         /\ minted'[o] = minted[o] + 1
  <2> SUFFICES ASSUME NEW o \in shot.present,
                      p = [id |-> ids'[o], incarnation |-> shot.incarnation[o]], p \notin named
               PROVE  /\ p.id = <<o, minted[o] + 1>> /\ p.incarnation = shot.incarnation[o]
                      /\ minted'[o] = minted[o] + 1
    BY <1>7
  <2>1. ids[o] = None
    BY <1>3, <1>8 DEF Agrees
  <2> QED
    BY <1>8, <2>1
<1>15. \A p \in named, o \in shot.present : p.id # <<o, minted[o] + 1>>
  <2> SUFFICES ASSUME NEW p \in named, NEW o \in shot.present, p.id = <<o, minted[o] + 1>>
               PROVE  FALSE
    OBVIOUS
  <2>1. PICK q \in Objects : \E n \in 1..minted[q] : p.id = <<q, n>>
    BY <1>1 DEF Minted
  <2>2. q = o /\ minted[o] \in Nat /\ minted[o] + 1 \in 1..minted[o]
    BY <1>5, <1>6, <2>1
  <2> QED
    BY <2>2
<1>16. Minted'
  <2> SUFFICES ASSUME NEW p \in named'
               PROVE  \E o \in Objects : \E n \in 1..minted'[o] : p.id = <<o, n>>
    BY DEF Minted
  <2>1. CASE p \in named
    <3>1. PICK o \in Objects : \E n \in 1..minted[o] : p.id = <<o, n>>
      BY <1>1, <2>1 DEF Minted
    <3>2. PICK n \in 1..minted[o] : p.id = <<o, n>>
      BY <3>1
    <3>3. n \in 1..minted'[o]
      BY <1>6, <1>9
    <3> QED
      BY <3>2, <3>3
  <2>2. ASSUME NEW o \in shot.present, p.id = <<o, minted[o] + 1>>, minted'[o] = minted[o] + 1
        PROVE  \E n \in 1..minted'[o] : p.id = <<o, n>>
    <3>1. minted[o] \in Nat
      BY <1>5, <1>6
    <3>2. minted[o] + 1 \in 1..minted'[o]
      BY <2>2, <3>1
    <3> QED
      BY <2>2, <3>2
  <2> QED
    BY <1>5, <1>14, <2>1, <2>2
<1>17. OneDevicePerId'
  <2> SUFFICES ASSUME NEW p \in named', NEW q \in named', p.id = q.id
               PROVE  p.incarnation = q.incarnation
    BY DEF OneDevicePerId
  <2>1. CASE p \in named /\ q \in named
    BY <1>1, <2>1 DEF OneDevicePerId
  <2>2. CASE p \in named /\ q \notin named
    BY <1>14, <1>15, <2>2
  <2>3. CASE p \notin named /\ q \in named
    BY <1>14, <1>15, <2>3
  <2>4. CASE p \notin named /\ q \notin named
    <3>1. PICK o \in shot.present :
            p.id = <<o, minted[o] + 1>> /\ p.incarnation = shot.incarnation[o]
      BY <1>14, <2>4
    <3>2. PICK r \in shot.present :
            q.id = <<r, minted[r] + 1>> /\ q.incarnation = shot.incarnation[r]
      BY <1>14, <2>4
    <3>3. <<o, minted[o] + 1>> = <<r, minted[r] + 1>>
      BY <3>1, <3>2
    <3>4. o = r
      BY <3>3
    <3> QED
      BY <3>1, <3>2, <3>4
  <2> QED
    BY <2>1, <2>2, <2>3, <2>4
<1> QED
  BY <1>10, <1>11, <1>12, <1>13, <1>16, <1>17 DEF IInv

(* The steps that touch neither the connection nor the snapshot.              *)
LEMMA PassedKeeps ==
  ASSUME IInv, Taking,
         UNCHANGED <<owner, generation, revision, refreshing, completions, ids, minted, named>>,
         started' \in BOOLEAN, started => started', deferred' \in Seq(Requests),
         wire' = wire \/ ~Disturbs(wire[1]) \/ ~started,
         watchers' \subseteq Calls, sent' \subseteq Calls,
         \A w \in (watchers' \ watchers) \cup (sent' \ sent) :
           w.kind # "refresh" /\ w.generation <= generation /\ w.revision <= revision
  PROVE  IInv'
<1>1. TypeOK /\ Asked /\ Versions /\ Fresh /\ IdsStand /\ AnswersStand
  BY DEF IInv
<1>2. Answers' \subseteq Answers /\ InFlight' \subseteq InFlight
  BY <1>1, WireTaken
<1>3. UNCHANGED <<held, instance, world>>
  BY DEF Taking
<1>4. TypeOK'
  BY <1>1, WireTaken DEF TypeOK, Taking
<1>5. Refreshes(watchers)' \subseteq Refreshes(watchers)
  BY DEF Refreshes
<1>6. Asked'
  <2>1. Refreshes(sent \cup {m.watcher : m \in Answers})'
          \subseteq Refreshes(sent \cup {m.watcher : m \in Answers})
    BY <1>2 DEF Refreshes
  <2>2. \A w \in (watchers \cup sent \cup {m.watcher : m \in Answers})' :
          w.generation <= generation /\ w.revision <= revision
    BY <1>1, <1>2 DEF Asked
  <2>3. \A w \in Refreshes(watchers)' :
          /\ started' /\ refreshing' /\ owner' # None
          /\ w = [kind |-> "refresh", generation |-> generation', revision |-> w.revision,
                  to |-> owner']
          /\ \A x \in Refreshes(watchers)' : x = w
          /\ \A x \in Refreshes(sent \cup {m.watcher : m \in Answers})' : x.revision <= w.revision
    BY <1>1, <1>5, <2>1 DEF Asked
  <2> QED
    BY <2>2, <2>3 DEF Asked
<1>7. Versions'
  BY <1>1, VersionsTaken DEF Versions
<1>8. IdsStand'
  <2>1. ASSUME NEW o \in Objects, ids'[o] # None
        PROVE  wire' = wire \/ ~Retires(wire[1], o)
    BY <1>1, <2>1 DEF IdsStand, Disturbs, Retires
  <2> QED
    BY <2>1, IdsTaken
<1>9. \A m : Publishable(m)' => Publishable(m)
  BY <1>5 DEF Publishable, Awaited
<1>10. Fresh'
  BY <1>1, <1>2, <1>9 DEF Fresh
<1>11. CASE ~started
  <2>1. \A x : ~Awaited(x)'
    BY <1>1, <1>5, <1>11 DEF Awaited, Asked
  <2> QED
    BY <1>1, <1>4, <1>6, <1>7, <1>8, <1>10, <2>1, NamesKept, Vacuous DEF IInv
<1>12. CASE wire' = wire
  <2>1. \A shot, k : Agrees(shot, k) => Agrees(shot, k)'
    BY <1>3, <1>12 DEF Agrees, Managed, Retired
  <2>2. (Silent' => Silent) /\ \A k : Calm(k)' => Calm(k)
    BY <1>12 DEF Silent, Calm
  <2>3. ASSUME NEW k \in 1..Len(wire'), Publishable(wire[k])', Calm(k)'
        PROVE  Agrees(wire[k].world, k)'
    <3>1. Agrees(wire[k].world, k)
      BY <1>1, <1>9, <1>12, <2>2, <2>3 DEF AnswersStand
    <3> QED
      BY <1>12, <2>1, <3>1 DEF Agrees
  <2>4. ASSUME NEW h \in held', Publishable(h[1])', Silent'
        PROVE  Agrees(h[1].world, Len(wire))'
    <3>1. Agrees(h[1].world, Len(wire))
      BY <1>1, <1>3, <1>9, <2>2, <2>4 DEF AnswersStand
    <3> QED
      BY <1>12, <2>1, <3>1 DEF Agrees
  <2>5. AnswersStand'
    BY <2>3, <2>4 DEF AnswersStand
  <2> QED
    BY <1>4, <1>6, <1>7, <1>8, <1>10, <2>5, NamesKept DEF IInv
<1>13. CASE wire # <<>> /\ wire' = Tail(wire) /\ ~Disturbs(wire[1])
  <2>1. /\ Len(wire) \in Nat \ {0} /\ Len(wire') = Len(wire) - 1
        /\ \A i \in 1..Len(wire') : wire'[i] = wire[i + 1]
    BY <1>1, <1>13, Taken DEF TypeOK
  <2>2. \A o : \A k \in Nat : Retired(k + 1, o) => Retired(k, o)'
    BY <1>1, <1>13, RetiredTaken
  <2>3. ASSUME NEW k \in Nat, NEW j \in 1..Len(wire), j < k + 1,
               \A i \in 1..Len(wire') : i < k => ~Disturbs(wire'[i])
        PROVE  ~Disturbs(wire[j])
    <3>1. CASE j = 1
      BY <1>13, <3>1
    <3>2. CASE j # 1
      <4>1. j - 1 \in 1..Len(wire') /\ j - 1 < k /\ (j - 1) + 1 = j
        BY <2>1, <2>3, <3>2
      <4> QED
        BY <2>1, <2>3, <4>1
    <3> QED
      BY <3>1, <3>2
  <2>4. ASSUME NEW k \in 1..Len(wire'), Publishable(wire[k])', Calm(k)'
        PROVE  Agrees(wire[k].world, k)'
    <3>1. k + 1 \in 1..Len(wire) /\ wire'[k] = wire[k + 1] /\ k \in Nat
      BY <2>1
    <3>2. Calm(k + 1)
      BY <2>3, <2>4, <3>1 DEF Calm, Disturbs
    <3>3. Agrees(wire[k + 1].world, k + 1)
      BY <1>1, <1>9, <2>4, <3>1, <3>2 DEF AnswersStand
    <3> QED
      BY <1>3, <2>2, <3>1, <3>3 DEF Agrees, Managed
  <2>5. ASSUME NEW h \in held', Publishable(h[1])', Silent'
        PROVE  Agrees(h[1].world, Len(wire))'
    <3>1. Silent
      <4>1. \A i \in 1..Len(wire') : ~Disturbs(wire'[i])
        BY <2>5 DEF Silent, Disturbs
      <4>2. \A j \in 1..Len(wire) : j < Len(wire) + 1
        BY <2>1
      <4> QED
        BY <2>1, <2>3, <4>1, <4>2 DEF Silent
    <3>2. Agrees(h[1].world, Len(wire))
      BY <1>1, <1>3, <1>9, <2>5, <3>1 DEF AnswersStand
    <3>3. \A o : ~Retired(Len(wire), o)
      BY <2>1 DEF Retired
    <3> QED
      BY <1>3, <3>2, <3>3 DEF Agrees, Managed
  <2>6. AnswersStand'
    BY <2>4, <2>5 DEF AnswersStand
  <2> QED
    BY <1>4, <1>6, <1>7, <1>8, <1>10, <2>6, NamesKept DEF IInv
<1> QED
  BY <1>11, <1>12, <1>13 DEF Taking

-----------------------------------------------------------------------------
(* The slots, the completion lambdas and the calls.                           *)

LEMMA VerdictTyped ==
  ASSUME NEW c \in Completed, NEW identifiers
  PROVE  /\ Verdict(c, identifiers) \in Completed
         /\ Verdict(c, identifiers).version = c.version
         /\ Verdict(c, identifiers).error = "none" => Verdict(c, identifiers) = c
         /\ /\ Verdict(c, identifiers).error = "none" /\ c.call.operation = "Mount"
            => c.call.target \in Live(identifiers)
<1>1. CASE c.call.operation = "Mount" /\ c.call.target \notin Live(identifiers)
  <2>1. Verdict(c, identifiers) = Finished(c.call, "Disappeared", c.version)
    BY <1>1 DEF Verdict
  <2>2. c.call \in Requests /\ c.version \in Nat
    BY DEF Completed
  <2> QED
    BY <2>1, <2>2 DEF Finished, Completed
<1>2. CASE ~(c.call.operation = "Mount" /\ c.call.target \notin Live(identifiers))
  <2>1. Verdict(c, identifiers) = c
    BY <1>2 DEF Verdict
  <2> QED
    BY <1>2, <2>1
<1> QED
  BY <1>1, <1>2

LEMMA DroppedKeeps ==
  ASSUME IInv, Taking, wire' = wire \/ wire[1].kind = "reply", NEW w, Dropped(w)
  PROVE  IInv'
<1>1. TypeOK
  BY DEF IInv
<1>2. /\ UNCHANGED <<started, owner, generation, revision, refreshing, completions, ids, minted,
                     deferred, sent, named>>
      /\ watchers' = watchers \ {w}
  BY DEF Dropped, historyVars
<1>3. wire' = wire \/ ~Disturbs(wire[1])
  BY DEF Disturbs
<1>4. /\ started' \in BOOLEAN /\ deferred' \in Seq(Requests)
      /\ watchers' \subseteq Calls /\ sent' \subseteq Calls
  BY <1>1, <1>2 DEF TypeOK
<1> QED
  BY <1>2, <1>3, <1>4, PassedKeeps

LEMMA OwnerReplyKeeps ==
  ASSUME IInv, Taking, wire' = wire \/ wire[1].kind = "reply",
         NEW w \in watchers, NEW error \in BOOLEAN, NEW new \in Instances,
         ownerReply(w, error, new)
  PROVE  IInv'
<1>1. TypeOK
  BY DEF IInv
<1>2. CASE Dropped(w)
  BY <1>2, DroppedKeeps
<1>3. CASE /\ started' = started /\ watchers' = watchers \ {w}
           /\ UNCHANGED <<owner, generation, revision, refreshing, completions, ids, minted,
                          deferred, sent, named>>
  <2>1. wire' = wire \/ ~Disturbs(wire[1])
    BY DEF Disturbs
  <2>2. /\ started' \in BOOLEAN /\ deferred' \in Seq(Requests)
        /\ watchers' \subseteq Calls /\ sent' \subseteq Calls
    BY <1>1, <1>3 DEF TypeOK
  <2> QED
    BY <1>3, <2>1, <2>2, PassedKeeps
<1>4. CASE /\ started /\ started' = started
           /\ setOwner(IF new = None THEN ServiceName ELSE new, watchers \ {w})
  <2> DEFINE to == IF new = None THEN ServiceName ELSE new
  <2>1. to \in Addresses
    BY DEF Addresses
  <2>2. started' \in BOOLEAN /\ watchers \ {w} \in SUBSET watchers
    BY <1>1, <1>4 DEF TypeOK
  <2> HIDE DEF to
  <2>3. setOwner(to, watchers \ {w})
    BY <1>4 DEF to
  <2> QED
    BY <1>4, <2>1, <2>2, <2>3, SetOwnerKeeps
<1> QED
  BY <1>2, <1>3, <1>4 DEF ownerReply

LEMMA RefreshReplyKeeps ==
  ASSUME IInv, Taking, wire' = wire \/ wire[1].kind = "reply",
         NEW w \in watchers, w.kind = "refresh", NEW error \in BOOLEAN, NEW shot,
         ~error => /\ wire # <<>> /\ wire' = Tail(wire) /\ wire[1].kind = "reply"
                   /\ w = wire[1].watcher /\ shot = wire[1].world,
         refreshReply(w, error, shot)
  PROVE  IInv'
<1>1. CASE Dropped(w)
  BY <1>1, DroppedKeeps
<1>2. ASSUME w.generation = generation PROVE w \in Refreshes(watchers)
  BY <1>2 DEF Refreshes
<1>3. CASE /\ w.generation = generation /\ w.revision # revision
           /\ refresh(generation, revision, owner, FALSE, watchers \ {w})
           /\ UNCHANGED <<started, owner, generation, revision, completions, ids, minted,
                          deferred, named>>
  <2>1. wire' = wire \/ \A o : ~Retires(wire[1], o)
    BY DEF Retires
  <2> QED
    BY <1>2, <1>3, <2>1, StaleKeeps
<1>4. CASE /\ w.generation = generation /\ w.revision = revision
           /\ (IF error THEN refreshFailed ELSE publish(shot))
           /\ refreshing' = FALSE /\ watchers' = watchers \ {w}
           /\ UNCHANGED <<started, owner, generation, revision, deferred, sent>>
  <2>1. CASE error
    BY <1>2, <1>4, <2>1, FailedKeeps
  <2>2. CASE ~error
    BY <1>2, <1>4, <2>2, PublishKeeps
  <2> QED
    BY <2>1, <2>2
<1> QED
  BY <1>1, <1>3, <1>4 DEF refreshReply, historyVars

LEMMA OperationReplyKeeps ==
  ASSUME IInv, Taking, wire' = wire \/ wire[1].kind = "reply",
         NEW w \in watchers, w.kind = "operation",
         NEW error \in {"none", "Upstream"}, NEW version \in Nat, version <= world.version,
         operationReply(w, error, version)
  PROVE  IInv'
<1>1. TypeOK /\ Versions
  BY DEF IInv
<1>2. CASE Dropped(w)
  BY <1>2, DroppedKeeps
<1>3. CASE /\ completions' = Append(completions, Verdict(Finished(w.call, error, version), ids))
           /\ changed(watchers \ {w}) /\ Told(version)
           /\ UNCHANGED <<ids, minted, deferred>>
  <2> DEFINE c == Finished(w.call, error, version)
  <2>1. w.call \in Requests
    <3>1. w \in Calls
      BY <1>1 DEF TypeOK
    <3>2. w \in Orders
      BY <3>1, CallKinds
    <3> QED
      BY <3>2 DEF Orders
  <2>2. c \in Completed /\ c.version = version
    BY <2>1 DEF Finished, Completed
  <2> HIDE DEF c
  <2> DEFINE result == Verdict(c, ids)
  <2>3. result \in Completed /\ result.version = version
    BY <2>2, VerdictTyped
  <2>4. completions' = Append(completions, result) /\ completions \in Seq(Completed)
    BY <1>1, <1>3 DEF c, TypeOK
  <2> HIDE DEF result
  <2>5. completions' \in Seq(Completed)
    BY <2>3, <2>4
  <2>6. ASSUME NEW i \in 1..Len(completions') PROVE completions'[i].version <= world.version
    <3>1. CASE i \in 1..Len(completions)
      <4>1. completions'[i] = completions[i]
        BY <2>3, <2>4, <3>1
      <4> QED
        BY <1>1, <3>1, <4>1 DEF Versions
    <3>2. CASE i \notin 1..Len(completions)
      <4>1. completions'[i] = result
        BY <2>3, <2>4, <3>2
      <4> QED
        BY <2>3, <4>1
    <3> QED
      BY <3>1, <3>2
  <2>7. DOMAIN ids' = Objects /\ ids' = ids /\ UNCHANGED <<minted, named, deferred>>
        /\ watchers \ {w} \in SUBSET watchers
    BY <1>1, <1>3 DEF TypeOK, Told
  <2>8. \A o : wire' = wire \/ ~Retires(wire[1], o)
    BY DEF Retires
  <2> QED
    BY <1>3, <2>5, <2>6, <2>7, <2>8, ChangedKeeps
<1> QED
  BY <1>2, <1>3 DEF operationReply

LEMMA FiredKeeps ==
  ASSUME IInv, Taking, wire' = wire \/ wire[1].kind = "reply",
         NEW w \in watchers, NEW m, Fired(w, m),
         m.error \in {"none", "Upstream"}, m.owner \in Instances,
         m.version \in Nat, m.version <= world.version,
         m.error = "none" => /\ wire # <<>> /\ wire' = Tail(wire) /\ wire[1].kind = "reply"
                             /\ m = wire[1] /\ m.watcher = w
  PROVE  IInv'
<1>1. CASE w.kind = "owner" /\ ownerReply(w, m.error # "none", m.owner)
  <2>1. (m.error # "none") \in BOOLEAN
    OBVIOUS
  <2> QED
    BY <1>1, <2>1, OwnerReplyKeeps
<1>2. CASE w.kind = "refresh" /\ refreshReply(w, m.error # "none", m.world)
  <2>1. (m.error # "none") \in BOOLEAN
    OBVIOUS
  <2> QED
    BY <1>2, <2>1, RefreshReplyKeeps
<1>3. CASE w.kind = "operation" /\ operationReply(w, m.error, m.version)
  BY <1>3, OperationReplyKeeps
<1> QED
  BY <1>1, <1>2, <1>3 DEF Fired

(* A signal: a newer revision, and the end of one id if it tells of one.      *)
LEMMA SignalKeeps ==
  ASSUME IInv, Taking, wire # <<>>, wire' = Tail(wire), NEW version \in Nat,
         \/ wire[1].kind = "changed" /\ propertiesChanged(version)
         \/ wire[1].kind = "removed" /\ interfacesRemoved(wire[1].object, version)
  PROVE  IInv'
<1>1. TypeOK /\ Versions /\ IdsStand /\ Asked
  BY DEF IInv
<1>2. CASE Unsubscribed
  <2>1. /\ ~started
        /\ UNCHANGED <<started, owner, generation, revision, refreshing, completions, ids, minted,
                       watchers, deferred, sent, named>>
    BY <1>2 DEF Unsubscribed, backendVars, historyVars
  <2>2. /\ started' \in BOOLEAN /\ deferred' \in Seq(Requests)
        /\ watchers' \subseteq Calls /\ sent' \subseteq Calls
    BY <1>1, <2>1 DEF TypeOK
  <2> QED
    BY <2>1, <2>2, PassedKeeps
<1>3. CASE /\ changed(watchers) /\ Told(version) /\ UNCHANGED <<completions, minted, deferred>>
           /\ \/ wire[1].kind = "changed" /\ ids' = ids
              \/ wire[1].kind = "removed" /\ ids' = [ids EXCEPT ![wire[1].object] = None]
  <2>1. watchers \in SUBSET watchers /\ UNCHANGED named
    BY <1>3 DEF Told
  <2>2. DOMAIN ids' = Objects /\ completions' \in Seq(Completed)
    BY <1>1, <1>3 DEF TypeOK
  <2>3. \A i \in 1..Len(completions') : completions'[i].version <= world.version
    BY <1>1, <1>3 DEF Versions
  <2>4. ASSUME NEW o \in Objects, ids'[o] # None
        PROVE  ids'[o] = ids[o] /\ ~Retires(wire[1], o)
    <3>1. CASE wire[1].kind = "changed" /\ ids' = ids
      BY <3>1 DEF Retires
    <3>2. CASE wire[1].kind = "removed" /\ ids' = [ids EXCEPT ![wire[1].object] = None]
      <4>1. DOMAIN ids = Objects
        BY <1>1 DEF TypeOK
      <4>2. o # wire[1].object
        BY <2>4, <3>2, <4>1
      <4> QED
        BY <3>2, <4>1, <4>2 DEF Retires
    <3> QED
      BY <1>3, <3>1, <3>2
  <2> QED
    BY <1>3, <2>1, <2>2, <2>3, <2>4, ChangedKeeps
<1> QED
  BY <1>2, <1>3 DEF propertiesChanged, interfacesRemoved

LEMMA DeliverKeeps ==
  ASSUME IInv, Deliver
  PROVE  IInv'
<1> DEFINE m == wire[1]
<1>1. TypeOK /\ Versions
  BY DEF IInv
<1>2. wire \in Seq(Messages) /\ wire # <<>>
  BY <1>1 DEF TypeOK, Deliver
<1>3. m = Head(wire) /\ m \in Messages /\ 1 \in 1..Len(wire)
  BY <1>2, Taken
<1>4. wire' = Tail(wire) /\ Taking
  BY <1>1, <1>2 DEF Deliver, Taking, TypeOK
<1>5. m \in InFlight /\ (m.kind # "owner" => m.version \in Nat /\ m.version <= world.version)
  <2>1. m \in InFlight
    BY <1>3 DEF InFlight
  <2> QED
    BY <1>1, <2>1, Typed DEF Versions
<1>6. CASE m.kind = "owner" /\ ownerChanged(m.owner)
  <2>1. m.owner \in Instances
    BY <1>3, <1>6, MessageKinds DEF OwnerSignals
  <2>2. m.owner \in Addresses /\ started \in BOOLEAN
    BY <1>1, <2>1 DEF Addresses, TypeOK
  <2>3. CASE started
    <3>1. setOwner(m.owner, watchers) /\ started' = started /\ watchers \in SUBSET watchers
      BY <1>6, <2>3 DEF ownerChanged
    <3> QED
      BY <1>4, <2>2, <2>3, <3>1, SetOwnerKeeps
  <2>4. CASE ~started
    <3>1. UNCHANGED <<started, owner, generation, revision, refreshing, completions, ids, minted,
                      watchers, deferred, sent, named>>
      BY <1>6, <2>4 DEF ownerChanged, backendVars, historyVars
    <3>2. /\ started' \in BOOLEAN /\ deferred' \in Seq(Requests)
          /\ watchers' \subseteq Calls /\ sent' \subseteq Calls
      BY <1>1, <3>1 DEF TypeOK
    <3> QED
      BY <1>4, <2>4, <3>1, <3>2, PassedKeeps
  <2> QED
    BY <2>3, <2>4
<1>7. CASE m.kind = "changed" /\ propertiesChanged(m.version)
  BY <1>2, <1>4, <1>5, <1>7, SignalKeeps
<1>8. CASE m.kind = "removed" /\ interfacesRemoved(m.object, m.version)
  BY <1>2, <1>4, <1>5, <1>8, SignalKeeps
<1>9. CASE m.kind = "reply" /\ m.watcher \in watchers /\ Fired(m.watcher, m)
  <2>1. m \in Replies
    BY <1>3, <1>9, MessageKinds
  <2>2. m.error \in {"none", "Upstream"} /\ m.owner \in Instances
    BY <2>1 DEF Replies
  <2> QED
    BY <1>2, <1>4, <1>5, <1>9, <2>2, FiredKeeps
<1>10. CASE m.kind = "reply" /\ UNCHANGED <<backendVars, sent, historyVars>>
  <2>1. UNCHANGED <<started, owner, generation, revision, refreshing, completions, ids, minted,
                    watchers, deferred, sent, named>>
    BY <1>10 DEF backendVars, historyVars
  <2>2. /\ started' \in BOOLEAN /\ deferred' \in Seq(Requests)
        /\ watchers' \subseteq Calls /\ sent' \subseteq Calls
    BY <1>1, <2>1 DEF TypeOK
  <2>3. ~Disturbs(m)
    BY <1>10 DEF Disturbs
  <2> QED
    BY <1>4, <2>1, <2>2, <2>3, PassedKeeps
<1> QED
  BY <1>3, <1>6, <1>7, <1>8, <1>9, <1>10 DEF Deliver

LEMMA LocalErrorKeeps ==
  ASSUME IInv, NEW w \in watchers, LocalError(w)
  PROVE  IInv'
<1> DEFINE m == [error |-> "Upstream", owner |-> None, world |-> Nothing, version |-> 0]
<1>1. TypeOK
  BY DEF IInv
<1>2. /\ Fired(w, m) /\ wire' = wire /\ UNCHANGED <<held, instance, world>>
      /\ spent' = [spent EXCEPT !.errors = @ + 1] /\ spent \in Spendings
  BY <1>1 DEF LocalError, TypeOK
<1>3. Taking
  BY <1>2, SpentMore DEF Taking
<1>4. m.error = "Upstream" /\ m.owner \in Instances /\ m.version = 0
  BY DEF Instances
<1>5. 0 <= world.version
  BY <1>1, Typed
<1> HIDE DEF m
<1> QED
  BY <1>2, <1>3, <1>4, <1>5, FiredKeeps

(* What the controller calls, and the singleShot(0) emissions.                *)
LEMMA CalledKeeps ==
  ASSUME IInv, start \/ stop \/ reportDisappeared
  PROVE  IInv'
<1>1. TypeOK
  BY DEF IInv
<1>2. /\ generation \in Nat /\ revision \in Nat /\ watchers \subseteq Calls /\ sent \subseteq Calls
      /\ deferred \in Seq(Requests) /\ started \in BOOLEAN /\ spent \in Spendings
  BY <1>1 DEF TypeOK
<1>3. CASE start
  <2> DEFINE call == [kind |-> "owner", generation |-> generation, revision |-> 0,
                      to |-> ServiceName]
  <2>1. /\ ~started /\ started' = TRUE
        /\ watchers' = watchers \cup {call} /\ sent' = sent \cup {call}
        /\ spent' = [spent EXCEPT !.starts = @ + 1]
        /\ UNCHANGED <<owner, generation, revision, refreshing, completions, ids, minted,
                       deferred, wire, held, instance, world, named>>
    BY <1>3 DEF start, historyVars
  <2>2. call \in Calls /\ call.kind = "owner" /\ call.generation = generation /\ call.revision = 0
    BY <1>2 DEF Calls, Queries, Addresses
  <2> HIDE DEF call
  <2>3. Taking
    BY <1>2, <2>1, SpentMore DEF Taking
  <2>4. watchers' \subseteq Calls /\ sent' \subseteq Calls /\ started' \in BOOLEAN
    BY <1>2, <2>1, <2>2
  <2>5. generation <= generation /\ 0 <= revision
    BY <1>2
  <2> QED
    BY <1>2, <2>1, <2>2, <2>3, <2>4, <2>5, PassedKeeps
<1>4. CASE stop
  <2>1. /\ started' = FALSE /\ setOwner(None, watchers)
        /\ UNCHANGED <<wire, held, instance, world, spent>>
    BY <1>4 DEF stop
  <2>2. Taking /\ None \in Addresses /\ watchers \in SUBSET watchers
    BY <1>2, <2>1 DEF Taking, Addresses, Instances
  <2>3. started' \in BOOLEAN
    BY <2>1
  <2> QED
    BY <2>1, <2>2, <2>3, SetOwnerKeeps
<1>5. CASE reportDisappeared
  <2>1. /\ deferred # <<>> /\ deferred' = Tail(deferred)
        /\ UNCHANGED <<started, owner, generation, revision, refreshing, completions, ids, minted,
                       watchers, sent, wire, held, instance, world, spent, named>>
    BY <1>5 DEF reportDisappeared, busVars, historyVars
  <2>2. Taking /\ deferred' \in Seq(Requests)
    BY <1>2, <2>1, Taken DEF Taking
  <2> QED
    BY <1>2, <2>1, <2>2, PassedKeeps
<1> QED
  BY <1>3, <1>4, <1>5

LEMMA CallKeeps ==
  ASSUME IInv, NEW operation \in Operations, NEW o \in Objects, Call(operation, <<o, minted[o]>>)
  PROVE  IInv'
<1> DEFINE c == [operation |-> operation, target |-> <<o, minted[o]>>, tag |-> spent.calls + 1]
<1>1. TypeOK /\ Asked
  BY DEF IInv
<1>2. /\ generation \in Nat /\ revision \in Nat /\ watchers \subseteq Calls /\ sent \subseteq Calls
      /\ deferred \in Seq(Requests) /\ started \in BOOLEAN /\ spent \in Spendings
      /\ owner \in Addresses /\ minted \in [Objects -> Nat]
  BY <1>1 DEF TypeOK
<1>3. c \in Requests
  BY <1>2 DEF Requests, Spendings
<1>4. execute(c) /\ spent' = [spent EXCEPT !.calls = @ + 1]
  BY DEF Call
<1> HIDE DEF c
<1> DEFINE call(p) == [kind |-> "operation", generation |-> generation, revision |-> 0,
                       to |-> owner, object |-> p, call |-> c]
<1>5. /\ UNCHANGED <<started, owner, generation, revision, refreshing, completions, ids, minted,
                     wire, held, instance, world, named>>
      /\ \/ deferred' = Append(deferred, c) /\ UNCHANGED <<watchers, sent>>
         \/ \E p \in Objects : /\ watchers' = watchers \cup {call(p)} /\ sent' = sent \cup {call(p)}
                               /\ UNCHANGED deferred
  BY <1>4 DEF execute, historyVars, Objects
<1>6. Taking
  BY <1>2, <1>4, <1>5, SpentMore DEF Taking
<1>7. ASSUME NEW p \in Objects
      PROVE  /\ call(p) \in Calls /\ call(p).kind = "operation"
             /\ call(p).generation = generation /\ call(p).revision = 0
  BY <1>2, <1>3 DEF Calls, Orders
<1>8. generation <= generation /\ 0 <= revision
  BY <1>2
<1> HIDE DEF call
<1>9. CASE deferred' = Append(deferred, c) /\ UNCHANGED <<watchers, sent>>
  <2>1. deferred' \in Seq(Requests)
    BY <1>2, <1>3, <1>9
  <2> QED
    BY <1>2, <1>5, <1>6, <1>9, <2>1, PassedKeeps
<1>10. ASSUME NEW p \in Objects, watchers' = watchers \cup {call(p)}, sent' = sent \cup {call(p)},
              UNCHANGED deferred
       PROVE  IInv'
  <2>1. watchers' \subseteq Calls /\ sent' \subseteq Calls
    BY <1>2, <1>7, <1>10
  <2>2. \A w \in (watchers' \ watchers) \cup (sent' \ sent) :
          w.kind # "refresh" /\ w.generation <= generation /\ w.revision <= revision
    BY <1>7, <1>8, <1>10
  <2> QED
    BY <1>2, <1>5, <1>6, <1>10, <2>1, <2>2, PassedKeeps
<1> QED
  BY <1>5, <1>9, <1>10

-----------------------------------------------------------------------------
LEMMA InitInv == Init => IInv
<1> SUFFICES ASSUME Init PROVE IInv
  OBVIOUS
<1>1. /\ started = FALSE /\ owner = None /\ generation = 0 /\ revision = 0
      /\ refreshing = FALSE /\ completions = <<>>
      /\ ids = NoIds /\ minted = [o \in Objects |-> 0]
      /\ watchers = {} /\ deferred = <<>>
      /\ wire = <<>> /\ sent = {} /\ held = {} /\ instance = None /\ named = {}
      /\ spent = [starts |-> 0, calls |-> 0, launches |-> 0, changes |-> 0, errors |-> 0]
  BY DEF Init
<1>2. world \in Worlds
  <2>1. PICK P \in {{}, Objects} : world =
          [present |-> P, mounted |-> {}, version |-> 0,
           incarnation |-> [o \in Objects |-> IF o \in P THEN 1 ELSE 0]]
    BY DEF Init
  <2>2. [o \in Objects |-> IF o \in P THEN 1 ELSE 0] \in [Objects -> Nat]
    OBVIOUS
  <2> QED
    BY <2>1, <2>2 DEF Worlds
<1>3. InFlight = {}
  BY <1>1 DEF InFlight
<1>4. TypeOK
  <2>1. started \in BOOLEAN /\ refreshing \in BOOLEAN
    BY <1>1
  <2>2. DOMAIN ids = Objects /\ spent \in Spendings /\ instance \in Instances /\ owner \in Addresses
    BY <1>1 DEF NoIds, Spendings, Instances, Addresses
  <2> QED
    BY <1>1, <1>2, <2>1, <2>2 DEF TypeOK
<1>5. Asked
  BY <1>1, <1>3 DEF Asked, Answers, Refreshes
<1>6. Versions /\ Fresh
  BY <1>1, <1>3 DEF Versions, Fresh
<1>7. IdsStand
  BY <1>1 DEF IdsStand, NoIds
<1>8. AnswersStand
  BY <1>1 DEF AnswersStand
<1>9. Minted /\ OneDevicePerId
  BY <1>1 DEF Minted, OneDevicePerId
<1> QED
  BY <1>4, <1>5, <1>6, <1>7, <1>8, <1>9 DEF IInv

LEMMA NextInv == IInv /\ [Next]_vars => IInv'
<1> SUFFICES ASSUME IInv, [Next]_vars PROVE IInv'
  OBVIOUS
<1>1. CASE start \/ stop \/ reportDisappeared
  BY <1>1, CalledKeeps
<1>2. CASE Deliver
  BY <1>2, DeliverKeeps
<1>3. ASSUME NEW o \in Objects, NEW operation \in Operations, Call(operation, <<o, minted[o]>>)
      PROVE  IInv'
  BY <1>3, CallKeeps
<1>4. ASSUME NEW w \in watchers, LocalError(w) PROVE IInv'
  BY <1>4, LocalErrorKeeps
<1>5. ASSUME NEW o \in Objects, Plug(o) \/ Unplug(o) \/ (o \in Volumes /\ ToggleMount(o))
      PROVE  IInv'
  BY <1>5, WorldKeeps
<1>6. ASSUME NEW w \in sent, HandleOwner(w) \/ HandleRefresh(w) \/ HandleOperation(w) PROVE IInv'
  BY <1>6, HandleOwnerKeeps, HandleRefreshKeeps, HandleOperationKeeps
<1>7. ASSUME NEW h \in held, Send(h) PROVE IInv'
  BY <1>7, SendKeeps
<1>8. CASE Launch \/ Crash
  BY <1>8, LifeKeeps
<1>9. CASE UNCHANGED vars
  <2>1. UNCHANGED <<started, owner, generation, revision, refreshing, completions, ids, minted,
                    watchers, deferred, wire, sent, held, instance, world, spent, named>>
    BY <1>9 DEF vars, backendVars, busVars, historyVars
  <2>2. TypeOK
    BY DEF IInv
  <2>3. /\ started' \in BOOLEAN /\ deferred' \in Seq(Requests) /\ spent' \in Spendings
        /\ watchers' \subseteq Calls /\ sent' \subseteq Calls
    BY <2>1, <2>2 DEF TypeOK
  <2>4. Taking
    BY <2>1, <2>3 DEF Taking
  <2> QED
    BY <2>1, <2>3, <2>4, PassedKeeps
<1>10. CASE Backend
  <2>1. Volumes \subseteq Objects /\ Drives \subseteq Objects
    BY DEF Objects
  <2> QED
    BY <1>1, <1>2, <1>3, <1>4, <1>10, <2>1 DEF Backend, Operations
<1>11. CASE Daemon
  <2>1. Volumes \subseteq Objects
    BY DEF Objects
  <2> QED
    BY <1>5, <1>6, <1>7, <1>8, <1>11, <2>1 DEF Daemon
<1> QED
  BY <1>9, <1>10, <1>11 DEF Next

-----------------------------------------------------------------------------
(* What is emitted.                                                           *)

Successless(signals) ==
  \A i \in DOMAIN signals : signals[i].signal = "operationFinished" => signals[i].error # "none"

LEMMA Silence ==
  /\ Successless(<<>>) /\ Successless(<<Unavailable>>)
  /\ \A c, version : Successless(<<Finished(c, "Disappeared", version)>>)
BY DEF Successless, Unavailable, Finished

(* Only a snapshot that is published brings results that may be successful.   *)
LEMMA Emits ==
  ASSUME Next
  PROVE  \/ Successless(emitted')
         \/ wire # <<>> /\ Publishable(Head(wire)) /\ publish(Head(wire).world)
<1>1. ASSUME NEW new, NEW others, setOwner(new, others) PROVE Successless(emitted')
  BY <1>1, Silence DEF setOwner
<1>2. ASSUME NEW w, Dropped(w) PROVE Successless(emitted')
  BY <1>2, Silence DEF Dropped
<1>3. ASSUME emitted' = <<>> PROVE Successless(emitted')
  BY <1>3, Silence
<1>4. ASSUME refreshFailed PROVE Successless(emitted')
  BY <1>4, Silence DEF refreshFailed
<1>5. ASSUME NEW w \in watchers, NEW m, Fired(w, m)
      PROVE  \/ Successless(emitted')
             \/ /\ m.error = "none" /\ w.kind = "refresh" /\ Awaited(w) /\ publish(m.world)
  <2>1. CASE w.kind = "owner" /\ ownerReply(w, m.error # "none", m.owner)
    BY <1>1, <1>2, <2>1, Silence DEF ownerReply
  <2>2. CASE w.kind = "refresh" /\ refreshReply(w, m.error # "none", m.world)
    BY <1>2, <1>3, <1>4, <2>2 DEF refreshReply, Awaited, Refreshes
  <2>3. CASE w.kind = "operation" /\ operationReply(w, m.error, m.version)
    BY <1>2, <1>3, <2>3 DEF operationReply
  <2> QED
    BY <1>5, <2>1, <2>2, <2>3 DEF Fired
<1>6. CASE Deliver
  <2> DEFINE m == Head(wire)
  <2>1. CASE m.kind = "owner" /\ ownerChanged(m.owner)
    BY <1>1, <1>3, <2>1 DEF ownerChanged
  <2>2. CASE m.kind = "changed" /\ propertiesChanged(m.version)
    BY <1>3, <2>2 DEF propertiesChanged, Unsubscribed
  <2>3. CASE m.kind = "removed" /\ interfacesRemoved(m.object, m.version)
    BY <1>3, <2>3 DEF interfacesRemoved, Unsubscribed
  <2>4. CASE m.kind = "reply" /\ m.watcher \in watchers /\ Fired(m.watcher, m)
    BY <1>5, <1>6, <2>4 DEF Publishable, Deliver
  <2> QED
    BY <1>3, <1>6, <2>1, <2>2, <2>3, <2>4 DEF Deliver
<1>7. ASSUME NEW w \in watchers, LocalError(w) PROVE Successless(emitted')
  BY <1>5, <1>7 DEF LocalError
<1>8. CASE start \/ stop \/ reportDisappeared
  BY <1>1, <1>3, <1>8, Silence DEF start, stop, reportDisappeared
<1>9. ASSUME NEW operation, NEW target, Call(operation, target) PROVE Successless(emitted')
  BY <1>3, <1>9 DEF Call
<1>10. CASE Daemon
  <2>1. Environment
    BY <1>10 DEF Daemon, Plug, Unplug, ToggleMount, HandleOwner, HandleRefresh, HandleOperation,
                 Send, Launch, Crash
  <2> QED
    BY <1>3, <2>1 DEF Environment
<1> QED
  BY <1>6, <1>7, <1>8, <1>9, <1>10 DEF Next, Backend

(* The results that waited are no newer than the snapshot they come with, and *)
(* a mount among them is of a volume it lists.                                *)
LEMMA Published ==
  ASSUME IInv, wire # <<>>, Publishable(Head(wire)), publish(Head(wire).world)
  PROVE  CompletionsFresh' /\ MountedVolumeListed'
<1> DEFINE shot == Head(wire).world
           snap == [signal |-> "snapshotChanged", available |-> TRUE, ids |-> ids', world |-> shot]
           results == [i \in DOMAIN completions |-> Verdict(completions[i], ids')]
<1>1. TypeOK /\ Fresh
  BY DEF IInv
<1>2. /\ completions \in Seq(Completed) /\ Len(completions) \in Nat
      /\ DOMAIN completions = 1..Len(completions)
      /\ \A i \in 1..Len(completions) : completions[i] \in Completed
  BY <1>1 DEF TypeOK
<1>3. Head(wire) \in InFlight
  <2>1. wire \in Seq(Messages)
    BY <1>1 DEF TypeOK
  <2>2. Head(wire) = wire[1] /\ 1 \in 1..Len(wire)
    BY <2>1, Taken
  <2> QED
    BY <2>2 DEF InFlight
<1>4. \A i \in 1..Len(completions) :
        completions[i].error = "none" => completions[i].version <= shot.version
  BY <1>1, <1>3 DEF Fresh
<1>5. emitted' = <<snap>> \o results
  BY DEF publish
<1>6. snap.signal = "snapshotChanged" /\ snap.available /\ snap.world = shot /\ snap.ids = ids'
  OBVIOUS
<1>7. results \in Seq(Completed) /\ Len(results) = Len(completions)
      /\ \A i \in 1..Len(completions) : results[i] = Verdict(completions[i], ids')
  BY <1>2, VerdictTyped
<1> HIDE DEF snap, results, shot
<1>8. /\ DOMAIN emitted' = 1..(Len(completions) + 1) /\ emitted'[1] = snap
      /\ \A i \in 1..Len(completions) : emitted'[i + 1] = results[i]
  BY <1>2, <1>5, <1>7
<1>9. ASSUME NEW i \in Results', emitted'[i].error = "none"
      PROVE  /\ emitted'[i].version <= shot.version
             /\ emitted'[i].call.operation = "Mount" => emitted'[i].call.target \in Live(ids')
  <2>1. i \in 1..(Len(completions) + 1) /\ i # 1
    BY <1>6, <1>8 DEF Results
  <2>2. i - 1 \in 1..Len(completions) /\ (i - 1) + 1 = i
    BY <1>2, <2>1
  <2> DEFINE c == completions[i - 1]
  <2>3. emitted'[i] = Verdict(c, ids') /\ c \in Completed
    BY <1>2, <1>7, <1>8, <2>2
  <2>4. /\ emitted'[i] = c
        /\ c.call.operation = "Mount" => c.call.target \in Live(ids')
    BY <1>9, <2>3, VerdictTyped
  <2> QED
    BY <1>4, <1>9, <2>2, <2>4
<1>10. CompletionsFresh'
  <2>1. ASSUME NEW i \in Results', emitted'[i].error = "none"
        PROVE  emitted'[i].version <= shot.version
    BY <1>9, <2>1
  <2> QED
    BY <1>6, <1>8, <2>1 DEF CompletionsFresh
<1>11. MountedVolumeListed'
  BY <1>6, <1>8, <1>9 DEF MountedVolumeListed
<1> QED
  BY <1>10, <1>11

LEMMA InitResults == Init => CompletionsFresh /\ MountedVolumeListed
BY DEF Init, CompletionsFresh, MountedVolumeListed, Results

LEMMA ResultsKeep ==
  IInv /\ CompletionsFresh /\ MountedVolumeListed /\ [Next]_vars
    => CompletionsFresh' /\ MountedVolumeListed'
<1> SUFFICES ASSUME IInv, CompletionsFresh, MountedVolumeListed, [Next]_vars
             PROVE  CompletionsFresh' /\ MountedVolumeListed'
  OBVIOUS
<1>1. CASE Successless(emitted')
  BY <1>1 DEF Successless, CompletionsFresh, MountedVolumeListed, Results
<1>2. CASE wire # <<>> /\ Publishable(Head(wire)) /\ publish(Head(wire).world)
  BY <1>2, Published
<1>3. CASE UNCHANGED vars
  BY <1>3 DEF vars, CompletionsFresh, MountedVolumeListed, Results
<1> QED
  BY <1>1, <1>2, <1>3, Emits

-----------------------------------------------------------------------------
(* What is shown once nothing travels: QuietShowsWorld.                       *)

News == \E m \in InFlight : Disturbs(m)
OwnerNews == \E m \in InFlight : m.kind = "owner"
TellsOwner(m) == m.kind = "owner" \/ (m.kind = "reply" /\ m.watcher.kind = "owner")
Replied(w) == \E m \in InFlight : m.kind = "reply" /\ m.watcher = w
Underway(w) == w \in sent \/ Replied(w)

(* What the daemon holds back tells of no owner, and it refuses operations    *)
(* only.                                                                      *)
Bus ==
  /\ \A h \in held : h[1].kind \in {"changed", "reply"}
                     /\ (h[1].kind = "reply" => h[1].watcher.kind = "refresh")
  /\ \A m \in InFlight :
       (m.kind = "reply" /\ m.watcher.kind \in {"owner", "refresh"}) => m.error = "none"

(* After the last change of owner every answer names the daemon there is.     *)
LastWord ==
  \A k \in 1..Len(wire) :
    (TellsOwner(wire[k]) /\ \A j \in 1..Len(wire) : k < j => wire[j].kind # "owner")
      => wire[k].owner = instance

(* An answer to the refresh that is waited for comes from a living daemon,    *)
(* and if nothing is told of a later change, it is the world as it is.        *)
Current ==
  /\ ~OwnerNews => \A m \in InFlight :
       (m.kind = "reply" /\ m.watcher \in Refreshes(watchers)) => instance # None
  /\ ~News => \A m \in InFlight : Publishable(m) => m.world = world

Stopped == ~started => owner = None /\ ~refreshing

(* The backend knows the daemon, or is about to be told of it.                *)
OwnerKnown ==
  (started /\ spent.errors = 0) =>
    \/ OwnerNews
    \/ \E w \in watchers : w.kind = "owner" /\ w.generation = generation /\ Underway(w)
    \/ owner = instance \/ (owner = ServiceName /\ instance = None)

(* A refresh that is waited for is on its way.                                *)
RefreshRuns ==
  (started /\ spent.errors = 0 /\ refreshing /\ ~OwnerNews) =>
    \E w \in Refreshes(watchers) : Underway(w)

(* With no refresh to come and nothing told, the world is shown.              *)
ShownCurrent ==
  (started /\ spent.errors = 0 /\ owner # None /\ instance # None /\ ~refreshing /\ ~News)
    => shown = world

View == Current /\ Stopped /\ OwnerKnown /\ RefreshRuns /\ ShownCurrent
QuietInv == Bus /\ LastWord /\ View

LEMMA FlightGrows ==
  ASSUME TypeOK, NEW added \in Seq(Messages), wire' = wire \o added
  PROVE  /\ \A m \in InFlight' : \/ m \in InFlight
                                 \/ \E i \in 1..Len(added) : m = added[i]
                                 \/ \E h \in held' \ held : m = h[1]
         /\ \A k \in 1..Len(wire) : wire[k] \in InFlight'
         /\ held \subseteq held' => InFlight \subseteq InFlight'
         /\ \A i \in 1..Len(added) : added[i] \in InFlight'
         /\ \A h \in held' : h[1] \in InFlight'
<1>1. wire \in Seq(Messages)
  BY DEF TypeOK
<1>2. /\ \A i \in 1..Len(wire') : \/ \E j \in 1..Len(wire) : wire'[i] = wire[j]
                                  \/ \E j \in 1..Len(added) : wire'[i] = added[j]
      /\ \A j \in 1..Len(wire) : \E i \in 1..Len(wire') : wire'[i] = wire[j]
      /\ \A j \in 1..Len(added) : \E i \in 1..Len(wire') : wire'[i] = added[j]
  BY <1>1, JoinedElements
<1>3. \A k \in 1..Len(wire) : wire[k] \in InFlight'
  BY <1>2 DEF InFlight
<1>4. \A i \in 1..Len(added) : added[i] \in InFlight'
  BY <1>2 DEF InFlight
<1>5. \A h \in held' : h[1] \in InFlight'
  BY DEF InFlight
<1>6. ASSUME held \subseteq held' PROVE InFlight \subseteq InFlight'
  BY <1>3, <1>5, <1>6 DEF InFlight
<1>7. ASSUME NEW m \in InFlight'
      PROVE  m \in InFlight \/ (\E i \in 1..Len(added) : m = added[i])
               \/ \E h \in held' \ held : m = h[1]
  <2>1. CASE \E k \in 1..Len(wire') : m = wire'[k]
    BY <1>2, <2>1 DEF InFlight
  <2>2. CASE \E h \in held' : m = h[1]
    BY <2>2 DEF InFlight
  <2> QED
    BY <2>1, <2>2 DEF InFlight
<1> QED
  BY <1>3, <1>4, <1>5, <1>6, <1>7

LEMMA LastWordGrows ==
  ASSUME TypeOK, LastWord, NEW added \in Seq(Messages), wire' = wire \o added,
         \A i \in 1..Len(added) : TellsOwner(added[i]) => added[i].owner = instance',
         instance' = instance \/ \E i \in 1..Len(added) : added[i].kind = "owner"
  PROVE  LastWord'
<1>1. /\ Len(wire') = Len(wire) + Len(added) /\ Len(wire) \in Nat /\ Len(added) \in Nat
      /\ \A k \in 1..Len(wire) : wire'[k] = wire[k]
      /\ \A i \in 1..Len(added) : wire'[Len(wire) + i] = added[i]
  BY WireGrows
<1> SUFFICES ASSUME NEW k \in 1..Len(wire'), TellsOwner(wire'[k]),
                    \A j \in 1..Len(wire') : k < j => wire'[j].kind # "owner"
             PROVE  wire'[k].owner = instance'
  BY DEF LastWord, TellsOwner
<1>2. CASE k \in 1..Len(wire)
  <2>1. ASSUME NEW i \in 1..Len(added) PROVE added[i].kind # "owner"
    <3>1. Len(wire) + i \in 1..Len(wire') /\ k < Len(wire) + i /\ wire'[Len(wire) + i] = added[i]
      BY <1>1, <1>2
    <3> QED
      BY <3>1
  <2>2. \A j \in 1..Len(wire) : k < j => wire[j].kind # "owner"
    BY <1>1
  <2>3. wire'[k] = wire[k]
    BY <1>1, <1>2
  <2> QED
    BY <1>2, <2>1, <2>2, <2>3 DEF LastWord
<1>3. CASE k \notin 1..Len(wire)
  <2>1. k - Len(wire) \in 1..Len(added) /\ Len(wire) + (k - Len(wire)) = k
    BY <1>1, <1>3
  <2>2. wire'[k] = added[k - Len(wire)]
    BY <1>1, <2>1
  <2> QED
    BY <2>1, <2>2
<1> QED
  BY <1>2, <1>3

(* A message the bus or the daemon may add.                                   *)
Speaks(m) ==
  \/ Disturbs(m)
  \/ /\ m.kind = "reply"
     /\ \/ m.watcher.kind = "operation"
        \/ m.watcher.kind = "owner" /\ m.error = "none"
        \/ m.watcher.kind = "refresh" /\ m.error = "none" /\ m.world = world' /\ instance' # None

(* A step of bus or daemon: what it does it tells, and what it takes it       *)
(* answers, unless the daemon dies.                                           *)
LEMMA ViewEnvironment ==
  ASSUME QuietInv, Environment,
         \A m \in InFlight' : m \in InFlight \/ Speaks(m),
         OwnerNews' \/ InFlight \subseteq InFlight',
         \A w \in sent : w \in sent' \/ w.kind = "operation" \/ Replied(w)' \/ OwnerNews',
         spent'.errors = spent.errors,
         instance' = instance \/ OwnerNews',
         world' = world \/ News' \/ instance' = None
  PROVE  View' /\ \A m \in InFlight' :
           (m.kind = "reply" /\ m.watcher.kind \in {"owner", "refresh"}) => m.error = "none"
<1>1. /\ UNCHANGED <<started, owner, generation, revision, refreshing, watchers, shown>>
      /\ \A m : Publishable(m)' <=> Publishable(m)
      /\ Refreshes(watchers)' = Refreshes(watchers)
  BY DEF Environment, backendVars, historyVars, Publishable, Awaited, Refreshes
<1>2. Bus /\ Current /\ Stopped /\ OwnerKnown /\ RefreshRuns /\ ShownCurrent
  BY DEF QuietInv, View
<1>3. OwnerNews' => News'
  BY DEF OwnerNews, News, Disturbs
<1>4. ~OwnerNews' => InFlight \subseteq InFlight' /\ instance' = instance
  OBVIOUS
<1>5. ~OwnerNews' => ~OwnerNews
  BY <1>4 DEF OwnerNews
<1>6. ~News' => ~News /\ ~OwnerNews
  BY <1>3, <1>4, <1>5 DEF News, Disturbs
<1>7. ASSUME NEW m \in InFlight', m.kind = "reply", m.watcher.kind \in {"owner", "refresh"}
      PROVE  m.error = "none"
  BY <1>2, <1>7 DEF Bus, Speaks, Disturbs
<1>8. ASSUME ~OwnerNews', NEW m \in InFlight', m.kind = "reply",
             m.watcher \in Refreshes(watchers)'
      PROVE  instance' # None
  <2>1. m.watcher.kind = "refresh"
    BY <1>8 DEF Refreshes
  <2>2. CASE m \in InFlight
    BY <1>1, <1>2, <1>4, <1>5, <1>8, <2>2 DEF Current
  <2>3. CASE Speaks(m)
    BY <1>8, <2>1, <2>3 DEF Speaks, Disturbs
  <2> QED
    BY <2>2, <2>3
<1>9. ASSUME ~News', NEW m \in InFlight', Publishable(m)'
      PROVE  m.world = world'
  <2>1. m.kind = "reply" /\ m.watcher.kind = "refresh" /\ m.watcher \in Refreshes(watchers)'
    BY <1>9 DEF Publishable, Awaited, Refreshes
  <2>2. instance' # None
    BY <1>3, <1>8, <1>9, <2>1
  <2>3. CASE m \in InFlight
    BY <1>1, <1>2, <1>6, <1>9, <2>2, <2>3 DEF Current
  <2>4. CASE Speaks(m)
    BY <2>1, <2>4 DEF Speaks, Disturbs
  <2> QED
    BY <2>3, <2>4
<1>10. Current'
  BY <1>8, <1>9 DEF Current
<1>11. ASSUME NEW w, w.kind # "operation", Underway(w), ~OwnerNews' PROVE Underway(w)'
  BY <1>4, <1>11 DEF Underway, Replied
<1>12. OwnerKnown'
  BY <1>1, <1>2, <1>4, <1>5, <1>11 DEF OwnerKnown
<1>13. RefreshRuns'
  BY <1>1, <1>2, <1>5, <1>11 DEF RefreshRuns, Refreshes
<1>14. ShownCurrent'
  BY <1>1, <1>2, <1>3, <1>4, <1>6 DEF ShownCurrent
<1>15. Stopped'
  BY <1>1, <1>2 DEF Stopped
<1> QED
  BY <1>7, <1>10, <1>12, <1>13, <1>14, <1>15 DEF View

LEMMA EnvironmentQuiet ==
  ASSUME TypeOK, QuietInv, Environment, NEW added \in Seq(Messages), wire' = wire \o added,
         \A i \in 1..Len(added) :
           Speaks(added[i]) /\ (TellsOwner(added[i]) => added[i].owner = instance'),
         \A h \in held' \ held :
           /\ Speaks(h[1]) /\ h[1].kind \in {"changed", "reply"}
           /\ h[1].kind = "reply" => h[1].watcher.kind = "refresh",
         held \subseteq held' \/ \E i \in 1..Len(added) : added[i].kind = "owner",
         \A w \in sent : \/ w \in sent' \/ w.kind = "operation"
                         \/ \E i \in 1..Len(added) : added[i].kind \in {"reply", "owner"} /\
                              (added[i].kind = "reply" => added[i].watcher = w)
                         \/ \E h \in held' : h[1].kind = "reply" /\ h[1].watcher = w,
         spent'.errors = spent.errors,
         instance' = instance \/ \E i \in 1..Len(added) : added[i].kind = "owner",
         \/ world' = world \/ instance' = None
         \/ \E i \in 1..Len(added) : Disturbs(added[i])
         \/ \E h \in held' : Disturbs(h[1])
  PROVE  QuietInv'
<1>1. /\ \A m \in InFlight' : \/ m \in InFlight
                              \/ \E i \in 1..Len(added) : m = added[i]
                              \/ \E h \in held' \ held : m = h[1]
      /\ held \subseteq held' => InFlight \subseteq InFlight'
      /\ \A i \in 1..Len(added) : added[i] \in InFlight'
      /\ \A h \in held' : h[1] \in InFlight'
  BY FlightGrows
<1>2. LastWord'
  BY LastWordGrows DEF QuietInv
<1>3. \A m \in InFlight' : m \in InFlight \/ Speaks(m)
  BY <1>1
<1>4. (\E i \in 1..Len(added) : added[i].kind = "owner") => OwnerNews'
  BY <1>1 DEF OwnerNews
<1>5. OwnerNews' \/ InFlight \subseteq InFlight'
  BY <1>1, <1>4
<1>6. \A w \in sent : w \in sent' \/ w.kind = "operation" \/ Replied(w)' \/ OwnerNews'
  BY <1>1, <1>4 DEF Replied
<1>7. world' = world \/ News' \/ instance' = None
  BY <1>1 DEF News, Disturbs
<1>8. View' /\ \A m \in InFlight' :
        (m.kind = "reply" /\ m.watcher.kind \in {"owner", "refresh"}) => m.error = "none"
  BY <1>3, <1>4, <1>5, <1>6, <1>7, ViewEnvironment
<1>9. Bus'
  BY <1>8 DEF QuietInv, Bus
<1> QED
  BY <1>2, <1>8, <1>9 DEF QuietInv

LEMMA SignalsNews ==
  ASSUME NEW removed \in SUBSET Objects, NEW version \in Nat
  PROVE  /\ Signals(removed, version) \in Seq(Messages)
         /\ \A i \in 1..Len(Signals(removed, version)) :
              Disturbs(Signals(removed, version)[i]) /\ ~TellsOwner(Signals(removed, version)[i])
         /\ \E i \in 1..Len(Signals(removed, version)) : Disturbs(Signals(removed, version)[i])
<1> DEFINE signals == Signals(removed, version)
<1>1. /\ signals \in Seq(Messages)
      /\ \A i \in 1..Len(signals) : signals[i].kind \in {"changed", "removed"}
      /\ \A o \in removed : \E i \in 1..Len(signals) : Retires(signals[i], o)
      /\ removed = {} => signals = <<[kind |-> "changed", version |-> version]>>
  BY SignalsTold
<1> HIDE DEF signals
<1>2. \A i \in 1..Len(signals) : Disturbs(signals[i]) /\ ~TellsOwner(signals[i])
  BY <1>1 DEF Disturbs, TellsOwner
<1>3. 1 \in 1..Len(signals) \/ \E i \in 1..Len(signals) : TRUE
  <2>1. CASE removed = {}
    <3>1. Len(signals) = 1
      BY <1>1, <2>1
    <3> QED
      BY <3>1
  <2>2. CASE removed # {}
    BY <1>1, <2>2
  <2> QED
    BY <2>1, <2>2
<1> QED
  BY <1>1, <1>2, <1>3 DEF signals

LEMMA ChangeQuiet ==
  ASSUME IInv, QuietInv, Environment, Disturbed, UNCHANGED <<sent, held, instance>>,
         NEW new \in Worlds, Change(new)
  PROVE  QuietInv'
<1>1. TypeOK /\ wire \in Seq(Messages)
  BY DEF IInv, TypeOK
<1>2. spent'.errors = spent.errors
  <2>1. spent' = [spent EXCEPT !.changes = @ + 1] /\ spent \in Spendings
    BY <1>1 DEF Disturbed, TypeOK
  <2> QED
    BY <2>1 DEF Spendings
<1>3. CASE instance = None
  <2> DEFINE added == <<>>
  <2>1. added \in Seq(Messages) /\ Len(added) = 0 /\ wire' = wire \o added
    BY <1>1, <1>3 DEF Change
  <2>2. \A i \in 1..Len(added) : FALSE
    BY <2>1
  <2> HIDE DEF added
  <2> QED
    BY <1>1, <1>2, <1>3, <2>1, <2>2, EnvironmentQuiet
<1>4. CASE instance # None
  <2> DEFINE added == Signals(world.present \ new.present, new.version)
  <2>1. world.present \ new.present \in SUBSET Objects /\ new.version \in Nat
    BY <1>1 DEF TypeOK, Worlds
  <2>2. /\ added \in Seq(Messages)
        /\ \A i \in 1..Len(added) : Disturbs(added[i]) /\ ~TellsOwner(added[i])
        /\ \E i \in 1..Len(added) : Disturbs(added[i])
    BY <2>1, SignalsNews
  <2>3. wire' = wire \o added
    BY <1>4 DEF Change
  <2> HIDE DEF added
  <2>4. \A i \in 1..Len(added) : Speaks(added[i])
    BY <2>2 DEF Speaks
  <2> QED
    BY <1>1, <1>2, <2>2, <2>3, <2>4, EnvironmentQuiet
<1> QED
  BY <1>3, <1>4

LEMMA WorldQuiet ==
  ASSUME IInv, QuietInv, NEW o \in Objects,
         Plug(o) \/ Unplug(o) \/ (o \in Volumes /\ ToggleMount(o))
  PROVE  QuietInv'
<1>1. TypeOK
  BY DEF IInv
<1>2. /\ world.present \in SUBSET Objects /\ world.mounted \in SUBSET Objects
      /\ world.incarnation \in [Objects -> Nat]
  BY <1>1 DEF TypeOK, Worlds
<1>3. CASE Plug(o)
  <2> DEFINE I == [world.incarnation EXCEPT ![o] = @ + 1]
             new == World(world.present \cup {o}, world.mounted, I)
  <2>1. I \in [Objects -> Nat] /\ world.present \cup {o} \in SUBSET Objects
    BY <1>2
  <2>2. Change(new) /\ Disturbed /\ Environment /\ UNCHANGED <<sent, held, instance>>
    BY <1>3 DEF Plug
  <2> HIDE DEF I
  <2>3. new \in Worlds
    BY <1>1, <1>2, <2>1, WorldTyped
  <2> HIDE DEF new
  <2> QED
    BY <2>2, <2>3, ChangeQuiet
<1>4. CASE Unplug(o)
  <2> DEFINE new == Without({o} \cup VolumesOn(o))
  <2>1. new \in Worlds
    BY <1>1, <1>2, WorldTyped DEF Without
  <2>2. Change(new) /\ Disturbed /\ Environment /\ UNCHANGED <<sent, held, instance>>
    BY <1>4 DEF Unplug
  <2> HIDE DEF new
  <2> QED
    BY <2>1, <2>2, ChangeQuiet
<1>5. CASE o \in Volumes /\ ToggleMount(o)
  <2> DEFINE M == IF o \in world.mounted THEN world.mounted \ {o} ELSE world.mounted \cup {o}
             new == World(world.present, M, world.incarnation)
  <2>1. M \in SUBSET Objects
    BY <1>2
  <2>2. Change(new) /\ Disturbed /\ Environment /\ UNCHANGED <<sent, held, instance>>
    BY <1>5 DEF ToggleMount
  <2> HIDE DEF M
  <2>3. new \in Worlds
    BY <1>1, <1>2, <2>1, WorldTyped
  <2> HIDE DEF new
  <2> QED
    BY <2>2, <2>3, ChangeQuiet
<1> QED
  BY <1>3, <1>4, <1>5

LEMMA LifeQuiet ==
  ASSUME IInv, QuietInv, Launch \/ Crash
  PROVE  QuietInv'
<1>1. TypeOK /\ wire \in Seq(Messages) /\ spent \in Spendings
  BY DEF IInv, TypeOK
<1>2. ASSUME NEW new \in Instances, Environment, instance' = new, UNCHANGED world,
             spent'.errors = spent.errors, wire' = Append(wire, [kind |-> "owner", owner |-> new]),
             held' \subseteq held
      PROVE  QuietInv'
  <2> DEFINE m == [kind |-> "owner", owner |-> new]
             added == <<m>>
  <2>1. m \in Messages /\ m.kind = "owner" /\ m.owner = new
    BY DEF Messages, OwnerSignals
  <2>2. wire' = Append(wire, m)
    BY <1>2
  <2> HIDE DEF m
  <2>3. wire' = wire \o added /\ added \in Seq(Messages) /\ Len(added) = 1 /\ added[1] = m
    BY <1>1, <2>1, <2>2, Appended
  <2>4. \A i \in 1..Len(added) : added[i] = m
    BY <2>3
  <2>5. \E i \in 1..Len(added) : added[i].kind = "owner"
    <3>1. 1 \in 1..Len(added)
      BY <2>3
    <3> QED
      BY <2>1, <2>3, <3>1
  <2>6. Speaks(m) /\ m.owner = instance'
    BY <1>2, <2>1 DEF Speaks, Disturbs
  <2> HIDE DEF added
  <2>7. held' \ held = {}
    BY <1>2
  <2> QED
    BY <1>1, <1>2, <2>3, <2>4, <2>5, <2>6, <2>7, EnvironmentQuiet
<1>3. CASE Launch
  <2> DEFINE new == spent.launches + 1
  <2>1. new \in Instances
    BY <1>1 DEF Spendings, Instances
  <2>2. spent'.errors = spent.errors
    BY <1>1, <1>3 DEF Launch, Spendings
  <2>3. /\ instance' = new /\ UNCHANGED <<held, world>> /\ Environment
        /\ wire' = Append(wire, [kind |-> "owner", owner |-> new])
    BY <1>3 DEF Launch
  <2> HIDE DEF new
  <2> QED
    BY <1>2, <2>1, <2>2, <2>3
<1>4. CASE Crash
  <2>1. None \in Instances
    BY DEF Instances
  <2>2. /\ instance' = None /\ held' \subseteq held /\ UNCHANGED <<world, spent>> /\ Environment
        /\ wire' = Append(wire, [kind |-> "owner", owner |-> None])
    BY <1>4 DEF Crash
  <2> QED
    BY <1>2, <2>1, <2>2
<1> QED
  BY <1>3, <1>4

LEMMA HandleOwnerQuiet ==
  ASSUME IInv, QuietInv, NEW w \in sent, HandleOwner(w)
  PROVE  QuietInv'
<1> DEFINE m == Reply(w, "none", instance, Nothing, 0)
           added == <<m>>
<1>1. TypeOK /\ wire \in Seq(Messages) /\ instance \in Instances
  BY DEF IInv, TypeOK
<1>2. m \in Messages /\ m.kind = "reply" /\ m.watcher = w
  BY <1>1, AnswerTyped
<1>3. m.error = "none" /\ m.owner = instance
  BY DEF Reply
<1>4. /\ wire' = Append(wire, m) /\ sent' = sent \ {w} /\ Environment
      /\ UNCHANGED <<held, instance, world, spent>> /\ w.kind = "owner"
  BY DEF HandleOwner
<1> HIDE DEF m
<1>5. wire' = wire \o added /\ added \in Seq(Messages) /\ Len(added) = 1 /\ added[1] = m
  BY <1>1, <1>2, <1>4, Appended
<1> HIDE DEF added
<1>6. (\A i \in 1..Len(added) : added[i] = m) /\ 1 \in 1..Len(added)
  BY <1>5
<1>7. Speaks(m) /\ m.owner = instance'
  BY <1>2, <1>3, <1>4 DEF Speaks
<1>8. \A x \in sent : x \in sent' \/ \E i \in 1..Len(added) :
        added[i].kind = "reply" /\ added[i].watcher = x
  BY <1>2, <1>4, <1>5, <1>6
<1> QED
  BY <1>1, <1>4, <1>5, <1>6, <1>7, <1>8, EnvironmentQuiet

LEMMA HandleRefreshQuiet ==
  ASSUME IInv, QuietInv, NEW w \in sent, HandleRefresh(w)
  PROVE  QuietInv'
<1> DEFINE m == Reply(w, "none", None, world, world.version)
           added == <<>>
<1>1. TypeOK /\ wire \in Seq(Messages)
  BY DEF IInv, TypeOK
<1>2. /\ held' = held \cup {<<m>>} /\ sent' = sent \ {w} /\ Environment /\ instance # None
      /\ UNCHANGED <<wire, instance, world, spent>> /\ w.kind = "refresh"
  BY DEF HandleRefresh, Reaches
<1>3. m.kind = "reply" /\ m.watcher = w /\ m.error = "none" /\ m.world = world
  BY DEF Reply
<1> HIDE DEF m
<1>4. <<m>>[1] = m
  OBVIOUS
<1>5. Speaks(m)
  BY <1>2, <1>3 DEF Speaks
<1>6. /\ held \subseteq held'
      /\ \A h \in held' \ held :
           Speaks(h[1]) /\ h[1].kind = "reply" /\ h[1].watcher.kind = "refresh"
  <2>1. \A h \in held' \ held : h[1] = m
    BY <1>2, <1>4
  <2>2. Speaks(m) /\ m.kind = "reply" /\ m.watcher.kind = "refresh"
    BY <1>2, <1>3, <1>5
  <2> QED
    BY <1>2, <2>1, <2>2
<1>7. added \in Seq(Messages) /\ Len(added) = 0 /\ wire' = wire \o added
  BY <1>1, <1>2
<1>8. \A i \in 1..Len(added) : FALSE
  BY <1>7
<1>9. \A x \in sent : x \in sent' \/ \E h \in held' : h[1].kind = "reply" /\ h[1].watcher = x
  BY <1>2, <1>3, <1>4
<1> HIDE DEF added
<1> QED
  BY <1>1, <1>2, <1>3, <1>5, <1>6, <1>7, <1>8, <1>9, EnvironmentQuiet

(* What is sent was on its way before.                                        *)
LEMMA SendQuiet ==
  ASSUME IInv, QuietInv, NEW h \in held, Send(h)
  PROVE  QuietInv'
<1>1. TypeOK /\ Bus /\ LastWord
  BY DEF IInv, QuietInv
<1>2. /\ Environment /\ wire' = wire \o h /\ held' = held \ {h}
      /\ UNCHANGED <<sent, instance, world, spent>>
  BY DEF Send
<1>3. h \in Seq(Messages) /\ Len(h) = 1 /\ 1 \in 1..Len(h)
  <2>1. h \in Seq(Messages) /\ Len(h) = 1
    BY <1>1 DEF TypeOK
  <2> QED
    BY <2>1
<1>4. \A i \in 1..Len(h) : h[i] = h[1]
  BY <1>3
<1>5. /\ \A m \in InFlight' : m \in InFlight \/ \E i \in 1..Len(h) : m = h[i]
      /\ \A k \in 1..Len(wire) : wire[k] \in InFlight'
      /\ h[1] \in InFlight' /\ \A g \in held' : g[1] \in InFlight'
  BY <1>1, <1>2, <1>3, FlightGrows
<1>6. h[1] \in InFlight
  BY DEF InFlight
<1>7. \A m \in InFlight' : m \in InFlight
  BY <1>4, <1>5, <1>6
<1>8. InFlight \subseteq InFlight'
  <2>1. \A g \in held : g[1] \in InFlight'
    BY <1>2, <1>5
  <2> QED
    BY <1>5, <2>1 DEF InFlight
<1>9. View' /\ \A m \in InFlight' :
        (m.kind = "reply" /\ m.watcher.kind \in {"owner", "refresh"}) => m.error = "none"
  BY <1>2, <1>7, <1>8, ViewEnvironment
<1>10. LastWord'
  <2>1. ~TellsOwner(h[1])
    BY <1>1 DEF Bus, TellsOwner
  <2> QED
    BY <1>1, <1>2, <1>3, <1>4, <2>1, LastWordGrows
<1>11. Bus'
  BY <1>1, <1>2, <1>9 DEF Bus
<1> QED
  BY <1>9, <1>10, <1>11 DEF QuietInv

LEMMA HandleOperationQuiet ==
  ASSUME IInv, QuietInv, NEW w \in sent, HandleOperation(w)
  PROVE  QuietInv'
<1>1. TypeOK /\ wire \in Seq(Messages) /\ world \in Worlds /\ world.version \in Nat
  <2>1. TypeOK
    BY DEF IInv
  <2> QED
    BY <2>1, Typed DEF TypeOK
<1>2. w.kind = "operation" /\ w.call.operation \in Operations /\ w.object \in Objects
  <2>1. w \in Calls /\ w.kind = "operation"
    BY <1>1 DEF TypeOK, HandleOperation
  <2>2. w \in Orders
    BY <2>1, CallKinds
  <2> QED
    BY <2>1, <2>2 DEF Orders, Requests
<1>3. sent' = sent \ {w} /\ Environment /\ UNCHANGED <<instance, spent>>
  BY DEF HandleOperation
<1> DEFINE new == Performed(w.call.operation, w.object)
           m == Reply(w, "none", None, Nothing, new.version)
           signals == Signals(world.present \ new.present, new.version)
           answer == <<m>>
           refusal == Reply(w, "Upstream", None, Nothing, world.version)
<1>4. new \in Worlds /\ new.version \in Nat
  BY <1>1, <1>2, PerformedTyped
<1>5. None \in Instances
  BY DEF Instances
<1>6. /\ answer \in Seq(Messages) /\ Len(answer) = 1 /\ answer[1] = m
      /\ m.kind = "reply" /\ m.watcher = w
  BY <1>1, <1>4, <1>5, AnswerTyped
<1>7. /\ signals \in Seq(Messages)
      /\ \A i \in 1..Len(signals) : Disturbs(signals[i]) /\ ~TellsOwner(signals[i])
      /\ \E i \in 1..Len(signals) : Disturbs(signals[i])
      /\ world.present = new.present =>
           signals = <<[kind |-> "changed", version |-> new.version]>>
  <2>1. world.present \ new.present \in SUBSET Objects
    BY <1>1 DEF Worlds
  <2>2. world.present = new.present => world.present \ new.present = {}
    OBVIOUS
  <2> HIDE DEF new
  <2> QED
    BY <1>4, <2>1, <2>2, SignalsNews, SignalsTold
<1>8. \/ /\ world' = new
         /\ \/ /\ wire' \in {wire \o signals \o answer, wire \o answer \o signals}
               /\ UNCHANGED held
            \/ /\ new.present = world.present
               /\ wire' = wire \o answer /\ held' = held \cup {signals}
      \/ wire' = Append(wire, refusal) /\ UNCHANGED <<held, world>>
  BY DEF HandleOperation
<1>9. Speaks(m) /\ ~TellsOwner(m)
  BY <1>2, <1>6 DEF Speaks, TellsOwner
<1>10. \A i \in 1..Len(signals) : Speaks(signals[i]) /\ ~TellsOwner(signals[i])
  BY <1>7 DEF Speaks
<1>11. \A x \in sent : x \in sent' \/ x.kind = "operation"
  BY <1>2, <1>3
<1> HIDE DEF new, m, signals, answer
<1>12. ASSUME UNCHANGED held, NEW added \in Seq(Messages), wire' = wire \o added,
              \A i \in 1..Len(added) : \/ \E j \in 1..Len(signals) : added[i] = signals[j]
                                       \/ \E j \in 1..Len(answer) : added[i] = answer[j],
              \A j \in 1..Len(signals) : \E i \in 1..Len(added) : added[i] = signals[j]
       PROVE  QuietInv'
  <2>1. \A j \in 1..Len(answer) : answer[j] = m
    BY <1>6
  <2>2. \A i \in 1..Len(added) : Speaks(added[i]) /\ ~TellsOwner(added[i])
    <3> SUFFICES ASSUME NEW i \in 1..Len(added)
                 PROVE  Speaks(added[i]) /\ ~TellsOwner(added[i])
      OBVIOUS
    <3>1. ASSUME NEW j \in 1..Len(signals), added[i] = signals[j]
          PROVE  Speaks(added[i]) /\ ~TellsOwner(added[i])
      <4>1. Speaks(signals[j]) /\ ~TellsOwner(signals[j])
        BY <1>10
      <4> QED
        BY <3>1, <4>1 DEF Speaks, TellsOwner
    <3>2. ASSUME added[i] = m PROVE Speaks(added[i]) /\ ~TellsOwner(added[i])
      BY <1>9, <3>2 DEF Speaks, TellsOwner
    <3> QED
      BY <1>12, <2>1, <3>1, <3>2
  <2>3. \E i \in 1..Len(added) : Disturbs(added[i])
    BY <1>7, <1>12 DEF Disturbs
  <2> QED
    BY <1>1, <1>3, <1>11, <1>12, <2>2, <2>3, EnvironmentQuiet
<1>13. signals \in Seq(Messages) /\ answer \in Seq(Messages)
  BY <1>6, <1>7
<1>14. CASE wire' = wire \o signals \o answer /\ UNCHANGED held
  <2>1. wire' = wire \o (signals \o answer) /\ signals \o answer \in Seq(Messages)
    BY <1>1, <1>13, <1>14, Regrouped, Joined
  <2> QED
    BY <1>12, <1>13, <1>14, <2>1, JoinedElements
<1>15. CASE wire' = wire \o answer \o signals /\ UNCHANGED held
  <2>1. wire' = wire \o (answer \o signals) /\ answer \o signals \in Seq(Messages)
    BY <1>1, <1>13, <1>15, Regrouped, Joined
  <2> QED
    BY <1>12, <1>13, <1>15, <2>1, JoinedElements
<1>16. CASE /\ new.present = world.present
            /\ wire' = wire \o answer /\ held' = held \cup {signals}
  <2>1. signals[1].kind = "changed"
    BY <1>7, <1>16
  <2>2. Disturbs(signals[1]) /\ Speaks(signals[1])
    BY <2>1 DEF Disturbs, Speaks
  <2>3. \A i \in 1..Len(answer) : answer[i] = m
    BY <1>6
  <2>4. \A h \in held' \ held : h = signals
    BY <1>16
  <2>5. (\E h \in held' : Disturbs(h[1])) /\ held \subseteq held'
    BY <1>16, <2>2
  <2> QED
    BY <1>1, <1>3, <1>9, <1>11, <1>13, <1>16, <2>1, <2>2, <2>3, <2>4, <2>5, EnvironmentQuiet
<1>17. CASE wire' = Append(wire, refusal) /\ UNCHANGED <<held, world>>
  <2> DEFINE added == <<refusal>>
  <2>1. refusal \in Messages /\ refusal.kind = "reply" /\ refusal.watcher = w
    BY <1>1, <1>5, AnswerTyped
  <2> HIDE DEF refusal
  <2>2. wire' = wire \o added /\ added \in Seq(Messages) /\ Len(added) = 1 /\ added[1] = refusal
    BY <1>1, <1>17, <2>1, Appended
  <2>3. \A i \in 1..Len(added) : added[i] = refusal
    BY <2>2
  <2>4. Speaks(refusal) /\ ~TellsOwner(refusal)
    BY <1>2, <2>1 DEF Speaks, TellsOwner
  <2> HIDE DEF added
  <2> QED
    BY <1>1, <1>3, <1>11, <1>17, <2>2, <2>3, <2>4, EnvironmentQuiet
<1> QED
  BY <1>8, <1>14, <1>15, <1>16, <1>17

(* A step of the backend: what travelled before travels still, but for the    *)
(* message it takes.                                                          *)
LEMMA FlightTaken ==
  ASSUME TypeOK, Taking
  PROVE  /\ InFlight' \subseteq InFlight
         /\ \A m \in InFlight : \/ m \in InFlight'
                                \/ wire # <<>> /\ wire' = Tail(wire) /\ m = wire[1]
<1>1. wire \in Seq(Messages) /\ held' = held
  BY DEF TypeOK, Taking
<1>2. InFlight' \subseteq InFlight
  BY WireTaken
<1>3. CASE wire' = wire
  BY <1>1, <1>2, <1>3 DEF InFlight
<1>4. CASE wire # <<>> /\ wire' = Tail(wire)
  <2>1. /\ Len(wire) \in Nat \ {0} /\ Len(wire') = Len(wire) - 1
        /\ \A i \in 1..Len(wire') : wire'[i] = wire[i + 1]
    BY <1>1, <1>4, Taken
  <2>2. ASSUME NEW k \in 1..Len(wire), k # 1 PROVE wire[k] \in InFlight'
    <3>1. k - 1 \in 1..Len(wire') /\ (k - 1) + 1 = k
      BY <2>1, <2>2
    <3>2. wire'[k - 1] = wire[k]
      BY <2>1, <3>1
    <3> QED
      BY <3>1, <3>2 DEF InFlight
  <2>3. \A h \in held : h[1] \in InFlight'
    BY <1>1 DEF InFlight
  <2> QED
    BY <1>2, <1>4, <2>2, <2>3 DEF InFlight
<1> QED
  BY <1>3, <1>4 DEF Taking

LEMMA LastWordTaken ==
  ASSUME TypeOK, LastWord, Taking
  PROVE  LastWord'
<1>1. wire \in Seq(Messages) /\ instance' = instance
  BY DEF TypeOK, Taking
<1>2. CASE wire' = wire
  BY <1>1, <1>2 DEF LastWord, TellsOwner
<1>3. CASE wire # <<>> /\ wire' = Tail(wire)
  <2>1. /\ Len(wire) \in Nat \ {0} /\ Len(wire') = Len(wire) - 1
        /\ \A i \in 1..Len(wire') : wire'[i] = wire[i + 1]
    BY <1>1, <1>3, Taken
  <2> SUFFICES ASSUME NEW k \in 1..Len(wire'), TellsOwner(wire'[k]),
                      \A j \in 1..Len(wire') : k < j => wire'[j].kind # "owner"
               PROVE  wire'[k].owner = instance
    BY <1>1 DEF LastWord, TellsOwner
  <2>2. k + 1 \in 1..Len(wire) /\ wire'[k] = wire[k + 1]
    BY <2>1
  <2>3. ASSUME NEW j \in 1..Len(wire), k + 1 < j PROVE wire[j].kind # "owner"
    <3>1. j - 1 \in 1..Len(wire') /\ k < j - 1 /\ (j - 1) + 1 = j
      BY <2>1, <2>3
    <3>2. wire'[j - 1] = wire[j]
      BY <2>1, <3>1
    <3> QED
      BY <3>1, <3>2
  <2> QED
    BY <2>2, <2>3 DEF LastWord
<1> QED
  BY <1>2, <1>3 DEF Taking

(* What the message that is taken says of the owner is so, unless more is on  *)
(* its way.                                                                   *)
LEMMA HeadTells ==
  ASSUME TypeOK, LastWord, Taking, wire # <<>>, wire' = Tail(wire), TellsOwner(wire[1])
  PROVE  OwnerNews' \/ wire[1].owner = instance'
<1>1. wire \in Seq(Messages) /\ instance' = instance
  BY DEF TypeOK, Taking
<1>2. /\ Len(wire) \in Nat \ {0} /\ Len(wire') = Len(wire) - 1
      /\ \A i \in 1..Len(wire') : wire'[i] = wire[i + 1]
  BY <1>1, Taken
<1>3. ASSUME ~OwnerNews', NEW j \in 1..Len(wire), 1 < j PROVE wire[j].kind # "owner"
  <2>1. j - 1 \in 1..Len(wire') /\ (j - 1) + 1 = j
    BY <1>2, <1>3
  <2>2. wire'[j - 1] = wire[j]
    BY <1>2, <2>1
  <2> QED
    BY <1>3, <2>1, <2>2 DEF OwnerNews, InFlight
<1>4. 1 \in 1..Len(wire)
  BY <1>2
<1> QED
  BY <1>1, <1>3, <1>4 DEF LastWord

LEMMA BusTaken ==
  ASSUME TypeOK, Bus, LastWord, Taking
  PROVE  Bus' /\ LastWord'
<1>1. InFlight' \subseteq InFlight /\ held' = held
  BY FlightTaken DEF Taking
<1> QED
  BY <1>1, LastWordTaken DEF Bus

(* Nothing on its way answers the refresh that is asked now.                  *)
LEMMA NothingCurrent ==
  ASSUME TypeOK, Taking,
         \A m \in Answers : m.watcher \notin Refreshes(watchers)'
  PROVE  Current'
<1>1. InFlight' \subseteq InFlight
  BY FlightTaken
<1> QED
  BY <1>1 DEF Current, Publishable, Awaited, Answers

(* A backend that is stopped waits for nothing.                               *)
LEMMA StoppedQuiet ==
  ASSUME IInv', ~started', owner' = None, ~refreshing'
  PROVE  View'
<1>1. Refreshes(watchers)' = {}
  BY DEF IInv, Asked
<1> QED
  BY <1>1 DEF View, Current, Publishable, Awaited, Stopped, OwnerKnown, RefreshRuns, ShownCurrent

(* The refresh that is waited for after a request: the one that was, or the   *)
(* new one, which is sent.                                                    *)
LEMMA Requested ==
  ASSUME NEW others, NEW to, NEW busy \in BOOLEAN,
         refresh(generation', revision', to, busy, others)
  PROVE  /\ sent \subseteq sent' /\ others \subseteq watchers'
         /\ ~busy /\ to # None =>
              /\ refreshing'
              /\ \E w \in Refreshes(watchers)' : w \in sent'
         /\ ~busy /\ to = None => ~refreshing'
         /\ busy => refreshing'
         /\ \A w \in Refreshes(watchers)' :
              w \in others \/ (~busy /\ to # None /\ w.revision = revision')
<1> DEFINE new == [kind |-> "refresh", generation |-> generation', revision |-> revision',
                   to |-> to]
<1>1. PICK call \in SUBSET {new} :
        /\ call = IF busy \/ to = None THEN {} ELSE {new}
        /\ refreshing' = (busy \/ call # {})
        /\ watchers' = others \cup call /\ sent' = sent \cup call
  BY DEF refresh
<1>2. new.generation = generation' /\ new.revision = revision' /\ new.kind = "refresh"
  OBVIOUS
<1> HIDE DEF new
<1>3. CASE busy
  <2>1. call = {} /\ refreshing'
    BY <1>1, <1>3
  <2> QED
    BY <1>1, <1>3, <2>1 DEF Refreshes
<1>4. CASE ~busy /\ to = None
  <2>1. call = {}
    BY <1>1, <1>4
  <2>2. ~refreshing'
    BY <1>1, <1>4, <2>1
  <2> QED
    BY <1>1, <1>4, <2>1, <2>2 DEF Refreshes
<1>5. CASE ~busy /\ to # None
  <2>1. call = {new}
    BY <1>1, <1>5
  <2>2. call # {}
    BY <2>1
  <2>3. refreshing'
    BY <1>1, <2>2
  <2>4. new \in Refreshes(watchers)' /\ new \in sent'
    BY <1>1, <1>2, <2>1 DEF Refreshes
  <2> QED
    BY <1>1, <1>2, <1>5, <2>1, <2>3, <2>4 DEF Refreshes
<1> QED
  BY <1>3, <1>4, <1>5

LEMMA SetOwnerQuiet ==
  ASSUME IInv, Taking, NEW new, NEW others \in SUBSET watchers, setOwner(new, others), started',
         OwnerNews' \/ new = instance' \/ (new = ServiceName /\ instance' = None)
  PROVE  View'
<1>1. TypeOK /\ Asked /\ generation \in Nat
  BY DEF IInv, TypeOK
<1>2. /\ generation' = generation + 1 /\ owner' = new
      /\ refresh(generation', revision', new, FALSE, others)
  BY DEF setOwner
<1>3. /\ new # None => refreshing' /\ \E w \in Refreshes(watchers)' : w \in sent'
      /\ new = None => ~refreshing'
  <2>1. PICK busy \in BOOLEAN :
          ~busy /\ refresh(generation', revision', new, busy, others)
    BY <1>2, Zenon
  <2> QED
    BY <2>1, Requested
<1>4. ASSUME NEW m \in Answers PROVE m.watcher \notin Refreshes(watchers)'
  <2>1. m.watcher.generation <= generation
    BY <1>1 DEF Asked
  <2>2. m.watcher \in Calls
    BY <1>1, Typed DEF Answers
  <2>3. m.watcher.generation \in Nat
    BY <2>2, CallKinds
  <2>4. m.watcher.generation # generation'
    BY <1>1, <1>2, <2>1, <2>3
  <2> QED
    BY <2>4 DEF Refreshes
<1>5. Current'
  BY <1>1, <1>4, NothingCurrent
<1>6. OwnerKnown'
  BY <1>2 DEF OwnerKnown
<1>7. RefreshRuns'
  BY <1>3 DEF RefreshRuns, Underway
<1>8. ShownCurrent' /\ Stopped'
  BY <1>2, <1>3 DEF ShownCurrent, Stopped
<1> QED
  BY <1>5, <1>6, <1>7, <1>8 DEF View

(* The calls that find the owner, and the world: nothing is taken from them.  *)
Finding(w) == w.kind \in {"owner", "refresh"} /\ w.generation = generation

(* The owner that was looked for still is, and so is the world.               *)
LEMMA FindingKept ==
  ASSUME TypeOK, Taking, UNCHANGED <<owner, generation>>,
         spent'.errors = 0 => spent.errors = 0, started,
         wire' = wire \/ wire[1].kind # "owner", sent \subseteq sent'
  PROVE  /\ OwnerNews => OwnerNews'
         /\ \A w : Underway(w) /\ (wire' = wire \/ wire[1].kind # "reply" \/ wire[1].watcher # w)
              => Underway(w)'
         /\ OwnerKnown /\ (\A w \in watchers : Finding(w) /\ w.kind = "owner" =>
              w \in watchers' /\ (wire' = wire \/ wire[1].kind # "reply" \/ wire[1].watcher # w))
              => OwnerKnown'
<1>1. \A m \in InFlight : m \in InFlight' \/ (wire # <<>> /\ wire' = Tail(wire) /\ m = wire[1])
  BY FlightTaken
<1>2. wire' # wire \/ InFlight' = InFlight
  BY DEF InFlight, Taking
<1>3. OwnerNews => OwnerNews'
  BY <1>1, <1>2 DEF OwnerNews
<1>4. \A w : Underway(w) /\ (wire' = wire \/ wire[1].kind # "reply" \/ wire[1].watcher # w)
         => Underway(w)'
  BY <1>1, <1>2 DEF Underway, Replied
<1>5. instance' = instance
  BY DEF Taking
<1>6. ASSUME OwnerKnown,
             \A w \in watchers : Finding(w) /\ w.kind = "owner" =>
               w \in watchers' /\ (wire' = wire \/ wire[1].kind # "reply" \/ wire[1].watcher # w)
      PROVE  OwnerKnown'
  <2> SUFFICES ASSUME started', spent'.errors = 0
               PROVE  \/ OwnerNews'
                      \/ \E w \in watchers' : /\ w.kind = "owner" /\ w.generation = generation'
                                              /\ Underway(w)'
                      \/ owner' = instance' \/ (owner' = ServiceName /\ instance' = None)
    BY DEF OwnerKnown
  <2>1. \/ OwnerNews
        \/ \E w \in watchers : w.kind = "owner" /\ w.generation = generation /\ Underway(w)
        \/ owner = instance \/ (owner = ServiceName /\ instance = None)
    BY <1>6 DEF OwnerKnown
  <2>2. ASSUME NEW w \in watchers, w.kind = "owner", w.generation = generation, Underway(w)
        PROVE  w \in watchers' /\ Underway(w)'
    BY <1>4, <1>6, <2>2 DEF Finding
  <2> QED
    BY <1>3, <1>5, <2>1, <2>2
<1> QED
  BY <1>3, <1>4, <1>6

LEMMA ChangedQuiet ==
  ASSUME IInv, View, IInv', Taking, NEW others \in SUBSET watchers, changed(others),
         spent'.errors = 0 => spent.errors = 0,
         \A w \in watchers : w.kind # "operation" => w \in others,
         \/ wire' = wire
         \/ /\ wire[1].kind # "owner"
            /\ wire[1].kind = "reply" => wire[1].watcher.kind = "operation"
  PROVE  View'
<1>1. /\ TypeOK /\ Asked /\ Current /\ Stopped /\ OwnerKnown /\ RefreshRuns
      /\ revision \in Nat /\ refreshing \in BOOLEAN
  BY DEF IInv, TypeOK, View
<1> DEFINE to == IF started THEN owner ELSE None
<1>2. /\ revision' = revision + 1 /\ UNCHANGED <<started, owner, generation>>
      /\ refresh(generation', revision', to, refreshing, others)
  BY DEF changed
<1>3. (started => to = owner) /\ (~started => to = None)
  OBVIOUS
<1> HIDE DEF to
<1>4. /\ sent \subseteq sent' /\ others \subseteq watchers'
      /\ ~refreshing /\ to # None => refreshing' /\ \E w \in Refreshes(watchers)' : w \in sent'
      /\ ~refreshing /\ to = None => ~refreshing'
      /\ refreshing => refreshing'
      /\ \A w \in Refreshes(watchers)' : w \in others \/ w.revision = revision'
  BY <1>1, <1>2, Requested
<1>5. CASE ~started
  <2>1. owner' = None /\ ~refreshing' /\ ~started'
    BY <1>1, <1>2, <1>3, <1>4, <1>5 DEF Stopped
  <2> QED
    BY <2>1, StoppedQuiet
<1>6. CASE started
  <2>1. \A w \in watchers : w.kind # "operation" =>
          w \in watchers' /\ (wire' = wire \/ wire[1].kind # "reply" \/ wire[1].watcher # w)
    BY <1>4
  <2>2. wire' = wire \/ wire[1].kind # "owner"
    OBVIOUS
  <2>3. /\ OwnerNews => OwnerNews'
        /\ \A w : Underway(w) /\ (wire' = wire \/ wire[1].kind # "reply" \/ wire[1].watcher # w)
             => Underway(w)'
        /\ OwnerKnown'
    BY <1>1, <1>2, <1>4, <1>6, <2>1, <2>2, FindingKept DEF Finding
  <2>4. ASSUME NEW m \in Answers PROVE m.watcher.revision # revision'
    <3>1. m.watcher.revision <= revision
      BY <1>1 DEF Asked
    <3>2. m.watcher \in Calls
      BY <1>1, Typed DEF Answers
    <3>3. m.watcher.revision \in Nat
      BY <3>2, CallKinds
    <3> QED
      BY <1>1, <1>2, <3>1, <3>3
  <2>5. InFlight' \subseteq InFlight /\ instance' = instance
    BY <1>1, FlightTaken DEF Taking
  <2>6. ASSUME ~OwnerNews', NEW m \in InFlight', m.kind = "reply",
               m.watcher \in Refreshes(watchers)'
        PROVE  instance' # None
    <3>1. m \in InFlight /\ m \in Answers
      BY <2>5, <2>6 DEF Answers
    <3>2. m.watcher \in Refreshes(watchers)
      BY <1>2, <1>4, <2>4, <2>6, <3>1 DEF Refreshes
    <3> QED
      BY <1>1, <2>3, <2>5, <2>6, <3>1, <3>2 DEF Current
  <2>7. ASSUME NEW m \in InFlight' PROVE ~Publishable(m)'
    BY <2>4, <2>5, <2>7 DEF Publishable, Awaited, Answers
  <2>8. Current'
    BY <2>6, <2>7 DEF Current
  <2>9. RefreshRuns'
    <3> SUFFICES ASSUME spent'.errors = 0, refreshing', ~OwnerNews'
                 PROVE  \E w \in Refreshes(watchers)' : Underway(w)'
      BY DEF RefreshRuns
    <3>1. CASE refreshing
      <4>1. PICK w \in Refreshes(watchers) : Underway(w)
        BY <1>1, <1>6, <2>3, <3>1 DEF RefreshRuns
      <4>2. w \in watchers /\ w.kind = "refresh" /\ w.generation = generation
        BY DEF Refreshes
      <4>3. w \in watchers' /\ Underway(w)'
        BY <2>1, <2>3, <4>1, <4>2
      <4> QED
        BY <1>2, <4>2, <4>3 DEF Refreshes
    <3>2. CASE ~refreshing
      BY <1>4, <3>2 DEF Underway
    <3> QED
      BY <3>1, <3>2
  <2>10. ShownCurrent' /\ Stopped'
    BY <1>2, <1>3, <1>4, <1>6 DEF ShownCurrent, Stopped
  <2> QED
    BY <2>3, <2>8, <2>9, <2>10 DEF View
<1> QED
  BY <1>5, <1>6

(* A refresh is asked again: the answer that was too old was the newest.      *)
LEMMA StaleQuiet ==
  ASSUME IInv, View, Taking, NEW w \in Refreshes(watchers), w.revision # revision,
         refresh(generation, revision, owner, FALSE, watchers \ {w}),
         UNCHANGED <<started, owner, generation, revision>>,
         spent'.errors = 0 => spent.errors = 0,
         wire' = wire \/ (wire[1].kind = "reply" /\ wire[1].watcher = w)
  PROVE  View'
<1>1. TypeOK /\ Asked /\ OwnerKnown /\ revision \in Nat
  BY DEF IInv, TypeOK, View
<1>2. /\ started /\ owner # None /\ w.kind = "refresh"
      /\ \A x \in watchers \ {w} : x \notin Refreshes(watchers)
  BY <1>1 DEF Asked, Refreshes
<1>3. /\ sent \subseteq sent' /\ watchers \ {w} \subseteq watchers'
      /\ refreshing' /\ \E x \in Refreshes(watchers)' : x \in sent'
      /\ \A x \in Refreshes(watchers)' : x \in watchers \ {w} \/ x.revision = revision
  <2>1. PICK busy \in BOOLEAN :
          ~busy /\ refresh(generation', revision', owner, busy, watchers \ {w})
    BY Zenon
  <2> QED
    BY <1>2, <2>1, Requested
<1>4. ASSUME NEW m \in Answers, m.watcher \in Refreshes(watchers)' PROVE FALSE
  <2>1. m.watcher.kind = "refresh" /\ m.watcher.generation = generation
    BY <1>4 DEF Refreshes
  <2>2. m.watcher.revision = revision
    BY <1>2, <1>3, <1>4, <2>1 DEF Refreshes
  <2>3. m.watcher \in Refreshes(sent \cup {n.watcher : n \in Answers})
    BY <2>1 DEF Refreshes
  <2>4. revision <= w.revision
    BY <1>1, <2>2, <2>3 DEF Asked
  <2>5. w.revision <= revision /\ w \in Calls
    BY <1>1 DEF Asked, Refreshes, TypeOK
  <2>6. w.revision \in Nat
    BY <2>5, CallKinds
  <2> QED
    BY <1>1, <2>4, <2>5, <2>6
<1>5. Current'
  BY <1>1, <1>4, NothingCurrent
<1>6. OwnerKnown'
  BY <1>1, <1>2, <1>3, FindingKept DEF Finding
<1>7. RefreshRuns' /\ ShownCurrent' /\ Stopped'
  BY <1>2, <1>3 DEF RefreshRuns, ShownCurrent, Stopped, Underway
<1> QED
  BY <1>5, <1>6, <1>7 DEF View

(* The refresh is over: what it shows is the world, unless more is told.      *)
LEMMA OverQuiet ==
  ASSUME IInv, View, Taking, NEW w \in Refreshes(watchers), watchers' = watchers \ {w},
         UNCHANGED <<started, owner, generation, revision, sent>>, refreshing' = FALSE,
         spent'.errors = 0 => spent.errors = 0,
         wire' = wire \/ (wire[1].kind = "reply" /\ wire[1].watcher = w),
         (spent'.errors = 0 /\ ~News') => shown' = world
  PROVE  View'
<1>1. TypeOK /\ Asked /\ OwnerKnown
  BY DEF IInv, View
<1>2. started /\ Refreshes(watchers)' = {} /\ w.kind = "refresh"
  BY <1>1 DEF Asked, Refreshes
<1>3. Current'
  BY <1>1, <1>2, NothingCurrent
<1>4. OwnerKnown'
  BY <1>1, <1>2, FindingKept DEF Finding
<1>5. RefreshRuns' /\ ShownCurrent' /\ Stopped'
  BY <1>2 DEF RefreshRuns, ShownCurrent, Stopped, Taking
<1> QED
  BY <1>3, <1>4, <1>5 DEF View

(* A message that is only dropped, and calls that are no refreshes.           *)
LEMMA PassedQuiet ==
  ASSUME IInv, View, IInv', Taking,
         UNCHANGED <<started, owner, generation, revision, refreshing>>,
         Refreshes(watchers)' \subseteq Refreshes(watchers), sent \subseteq sent',
         started => (wire' = wire \/ ~Disturbs(wire[1])),
         (spent'.errors = 0 /\ started) =>
           /\ spent.errors = 0 /\ shown' = shown
           /\ \A w \in watchers : Finding(w) =>
                w \in watchers' /\ (wire' = wire \/ wire[1].kind # "reply" \/ wire[1].watcher # w)
  PROVE  View'
<1>1. /\ TypeOK /\ Current /\ Stopped /\ OwnerKnown /\ RefreshRuns /\ ShownCurrent
      /\ refreshing \in BOOLEAN
  BY DEF IInv, TypeOK, View
<1>2. CASE ~started
  <2>1. owner' = None /\ ~refreshing' /\ ~started'
    BY <1>1, <1>2 DEF Stopped
  <2> QED
    BY <2>1, StoppedQuiet
<1>3. CASE started
  <2>1. InFlight' \subseteq InFlight /\ UNCHANGED <<instance, world>>
        /\ \A m \in InFlight : m \in InFlight' \/ (wire # <<>> /\ wire' = Tail(wire) /\ m = wire[1])
    BY <1>1, FlightTaken DEF Taking
  <2>2. (OwnerNews => OwnerNews') /\ (News => News')
    <3>1. wire' = wire => InFlight' = InFlight
      BY DEF InFlight, Taking
    <3> QED
      BY <1>3, <2>1, <3>1 DEF OwnerNews, News, Disturbs
  <2>3. \A m : Publishable(m)' => Publishable(m)
    BY DEF Publishable, Awaited
  <2>4. Current'
    <3>1. ASSUME ~OwnerNews', NEW m \in InFlight', m.kind = "reply",
                 m.watcher \in Refreshes(watchers)'
          PROVE  instance' # None
      BY <1>1, <2>1, <2>2, <3>1 DEF Current
    <3>2. ASSUME ~News', NEW m \in InFlight', Publishable(m)' PROVE m.world = world'
      BY <1>1, <2>1, <2>2, <2>3, <3>2 DEF Current
    <3> QED
      BY <3>1, <3>2 DEF Current
  <2>5. CASE spent'.errors # 0
    BY <1>3, <2>4, <2>5 DEF View, OwnerKnown, RefreshRuns, ShownCurrent, Stopped
  <2>6. CASE spent'.errors = 0
    <3>1. wire' = wire \/ wire[1].kind # "owner"
      BY <1>3 DEF Disturbs
    <3>2. /\ spent.errors = 0 /\ shown' = shown
          /\ \A w \in watchers : Finding(w) =>
               w \in watchers' /\ (wire' = wire \/ wire[1].kind # "reply" \/ wire[1].watcher # w)
      BY <1>3, <2>6
    <3>3. /\ OwnerKnown'
          /\ \A w : Underway(w) /\ (wire' = wire \/ wire[1].kind # "reply" \/ wire[1].watcher # w)
               => Underway(w)'
      BY <1>1, <1>3, <3>1, <3>2, FindingKept
    <3>4. RefreshRuns'
      <4> SUFFICES ASSUME refreshing, ~OwnerNews'
                   PROVE  \E w \in Refreshes(watchers)' : Underway(w)'
        BY DEF RefreshRuns
      <4>1. PICK w \in Refreshes(watchers) : Underway(w)
        BY <1>1, <1>3, <2>2, <3>2 DEF RefreshRuns
      <4>2. w \in watchers /\ Finding(w) /\ w.kind = "refresh" /\ w.generation = generation
        BY DEF Refreshes, Finding
      <4>3. w \in watchers' /\ Underway(w)'
        BY <3>2, <3>3, <4>1, <4>2
      <4> QED
        BY <4>2, <4>3 DEF Refreshes
    <3>5. ShownCurrent' /\ Stopped'
      BY <1>1, <1>3, <2>1, <2>2, <3>2 DEF ShownCurrent, Stopped
    <3> QED
      BY <2>4, <3>3, <3>4, <3>5 DEF View
  <2> QED
    BY <2>5, <2>6
<1> QED
  BY <1>2, <1>3

(* A call ends: with an error the backend finds itself, or with the message   *)
(* that is taken.                                                             *)
Ends(w, m) ==
  \/ wire' = wire /\ spent'.errors # 0 /\ m.error # "none"
  \/ /\ wire # <<>> /\ wire' = Tail(wire) /\ m = wire[1]
     /\ m.kind = "reply" /\ m.watcher = w /\ spent'.errors = spent.errors

LEMMA EndsFacts ==
  ASSUME TypeOK, QuietInv, Taking, NEW w, NEW m, Ends(w, m)
  PROVE  /\ spent'.errors = 0 => spent.errors = 0
         /\ wire' = wire \/ (wire[1].kind = "reply" /\ wire[1].watcher = w)
         /\ wire' = wire \/ ~Disturbs(wire[1])
         /\ m.error # "none" /\ w.kind \in {"owner", "refresh"} => spent'.errors # 0
         /\ m.error = "none" =>
              /\ wire # <<>> /\ wire' = Tail(wire) /\ m = wire[1] /\ m \in InFlight
              /\ m.kind = "reply" /\ m.watcher = w
<1>1. wire \in Seq(Messages)
  BY DEF TypeOK
<1>2. wire # <<>> => wire[1] \in InFlight
  <2>1. wire # <<>> => 1 \in 1..Len(wire)
    BY <1>1
  <2> QED
    BY <2>1 DEF InFlight
<1>3. \A n : n.kind = "reply" => ~Disturbs(n)
  BY DEF Disturbs
<1>4. CASE wire' = wire /\ spent'.errors # 0 /\ m.error # "none"
  BY <1>4
<1>5. CASE /\ wire # <<>> /\ wire' = Tail(wire) /\ m = wire[1]
           /\ m.kind = "reply" /\ m.watcher = w /\ spent'.errors = spent.errors
  <2>1. w.kind \in {"owner", "refresh"} => m.error = "none"
    BY <1>2, <1>5 DEF QuietInv, Bus
  <2> QED
    BY <1>2, <1>3, <1>5, <2>1
<1> QED
  BY <1>4, <1>5 DEF Ends

LEMMA DroppedQuiet ==
  ASSUME IInv, QuietInv, IInv', Taking, NEW w \in watchers, NEW m, Ends(w, m), Dropped(w),
         ~started \/ w.generation # generation
  PROVE  View'
<1>1. TypeOK /\ View
  BY DEF IInv, QuietInv
<1>2. /\ spent'.errors = 0 => spent.errors = 0
      /\ wire' = wire \/ (wire[1].kind = "reply" /\ wire[1].watcher = w)
      /\ wire' = wire \/ ~Disturbs(wire[1])
  BY <1>1, EndsFacts
<1>3. /\ watchers' = watchers \ {w} /\ shown' = shown
      /\ UNCHANGED <<started, owner, generation, revision, refreshing, sent>>
  BY DEF Dropped, historyVars
<1>4. Refreshes(watchers)' \subseteq Refreshes(watchers)
  BY <1>3 DEF Refreshes
<1>5. started => \A x \in watchers : Finding(x) => x \in watchers' /\ x # w
  BY <1>3 DEF Finding
<1> QED
  BY <1>1, <1>2, <1>3, <1>4, <1>5, PassedQuiet

LEMMA OwnerReplyQuiet ==
  ASSUME IInv, QuietInv, IInv', Taking, NEW w \in watchers, NEW m, Ends(w, m), w.kind = "owner",
         ownerReply(w, m.error # "none", m.owner)
  PROVE  View'
<1>1. TypeOK /\ View /\ LastWord
  BY DEF IInv, QuietInv
<1>2. /\ spent'.errors = 0 => spent.errors = 0
      /\ wire' = wire \/ (wire[1].kind = "reply" /\ wire[1].watcher = w)
      /\ wire' = wire \/ ~Disturbs(wire[1])
      /\ m.error # "none" => spent'.errors # 0
      /\ m.error = "none" =>
           /\ wire # <<>> /\ wire' = Tail(wire) /\ m = wire[1]
           /\ m.kind = "reply" /\ m.watcher = w
  BY <1>1, EndsFacts
<1>3. CASE (~started \/ w.generation # generation) /\ Dropped(w)
  BY <1>3, DroppedQuiet
<1>4. CASE /\ started /\ m.error # "none" /\ watchers' = watchers \ {w}
           /\ UNCHANGED <<started, owner, generation, revision, refreshing, sent>>
  <2>1. Refreshes(watchers)' \subseteq Refreshes(watchers)
    BY <1>4 DEF Refreshes
  <2> QED
    BY <1>1, <1>2, <1>4, <2>1, PassedQuiet
<1>5. CASE /\ started' /\ m.error = "none"
           /\ setOwner(IF m.owner = None THEN ServiceName ELSE m.owner, watchers \ {w})
  <2> DEFINE new == IF m.owner = None THEN ServiceName ELSE m.owner
  <2>1. OwnerNews' \/ m.owner = instance'
    BY <1>1, <1>2, <1>5, HeadTells DEF TellsOwner
  <2>2. OwnerNews' \/ new = instance' \/ (new = ServiceName /\ instance' = None)
    BY <2>1
  <2>3. setOwner(new, watchers \ {w})
    BY <1>5
  <2> HIDE DEF new
  <2> QED
    BY <1>5, <2>2, <2>3, SetOwnerQuiet
<1> QED
  BY <1>3, <1>4, <1>5 DEF ownerReply

LEMMA RefreshReplyQuiet ==
  ASSUME IInv, QuietInv, IInv', Taking, NEW w \in watchers, NEW m, Ends(w, m), w.kind = "refresh",
         refreshReply(w, m.error # "none", m.world)
  PROVE  View'
<1>1. TypeOK /\ Asked /\ View /\ Current
  BY DEF IInv, QuietInv, View
<1>2. /\ spent'.errors = 0 => spent.errors = 0
      /\ wire' = wire \/ (wire[1].kind = "reply" /\ wire[1].watcher = w)
      /\ m.error # "none" => spent'.errors # 0
      /\ m.error = "none" => /\ wire # <<>> /\ wire' = Tail(wire) /\ m = wire[1] /\ m \in InFlight
                             /\ m.kind = "reply" /\ m.watcher = w
  BY <1>1, EndsFacts
<1>3. CASE w.generation # generation /\ Dropped(w)
  BY <1>3, DroppedQuiet
<1>4. ASSUME w.generation = generation PROVE w \in Refreshes(watchers)
  BY <1>4 DEF Refreshes
<1>5. CASE /\ w.generation = generation /\ w.revision # revision
           /\ refresh(generation, revision, owner, FALSE, watchers \ {w})
           /\ UNCHANGED <<started, owner, generation, revision>>
  BY <1>1, <1>2, <1>4, <1>5, StaleQuiet
<1>6. CASE /\ w.generation = generation /\ w.revision = revision
           /\ (IF m.error # "none" THEN refreshFailed ELSE publish(m.world))
           /\ refreshing' = FALSE /\ watchers' = watchers \ {w}
           /\ UNCHANGED <<started, owner, generation, revision, sent>>
  <2>1. ASSUME spent'.errors = 0, ~News' PROVE shown' = world
    <3>1. m.error = "none" /\ publish(m.world)
      BY <1>2, <1>6, <2>1
    <3>2. shown' = m.world
      BY <3>1 DEF publish
    <3>3. /\ wire' = Tail(wire) /\ m = wire[1] /\ m \in InFlight /\ m.kind = "reply"
          /\ m.watcher = w
      BY <1>2, <3>1
    <3>4. \A n \in InFlight : n \in InFlight' \/ n = m
      BY <1>1, <3>3, FlightTaken
    <3>5. ~Disturbs(m)
      BY <3>3 DEF Disturbs
    <3>6. ~News
      BY <2>1, <3>4, <3>5 DEF News, Disturbs
    <3>7. Publishable(m)
      BY <1>4, <1>6, <3>3 DEF Publishable, Awaited
    <3> QED
      BY <1>1, <3>2, <3>3, <3>6, <3>7 DEF Current
  <2>2. /\ w \in Refreshes(watchers) /\ refreshing' = FALSE /\ watchers' = watchers \ {w}
        /\ UNCHANGED <<started, owner, generation, revision, sent>>
    BY <1>4, <1>6
  <2> QED
    BY <1>1, <1>2, <2>1, <2>2, OverQuiet
<1> QED
  BY <1>3, <1>5, <1>6 DEF refreshReply

LEMMA FiredQuiet ==
  ASSUME IInv, QuietInv, IInv', Taking, NEW w \in watchers, NEW m, Ends(w, m), Fired(w, m)
  PROVE  View'
<1>1. TypeOK /\ View
  BY DEF IInv, QuietInv
<1>2. /\ spent'.errors = 0 => spent.errors = 0
      /\ wire' = wire \/ (wire[1].kind = "reply" /\ wire[1].watcher = w)
  BY <1>1, EndsFacts
<1>3. CASE w.kind = "owner" /\ ownerReply(w, m.error # "none", m.owner)
  BY <1>3, OwnerReplyQuiet
<1>4. CASE w.kind = "refresh" /\ refreshReply(w, m.error # "none", m.world)
  BY <1>4, RefreshReplyQuiet
<1>5. CASE w.kind = "operation" /\ operationReply(w, m.error, m.version)
  <2>1. CASE w.generation # generation /\ Dropped(w)
    BY <2>1, DroppedQuiet
  <2>2. CASE changed(watchers \ {w})
    <3>1. \A x \in watchers : x.kind # "operation" => x \in watchers \ {w}
      BY <1>5
    <3>2. \/ wire' = wire
          \/ wire[1].kind # "owner" /\ (wire[1].kind = "reply" => wire[1].watcher.kind = "operation")
      BY <1>2, <1>5
    <3>3. watchers \ {w} \in SUBSET watchers
      OBVIOUS
    <3> QED
      BY <1>1, <1>2, <2>2, <3>1, <3>2, <3>3, ChangedQuiet
  <2> QED
    BY <1>5, <2>1, <2>2 DEF operationReply
<1> QED
  BY <1>3, <1>4, <1>5 DEF Fired

LEMMA DeliverQuiet ==
  ASSUME IInv, QuietInv, IInv', Deliver
  PROVE  View'
<1> DEFINE m == Head(wire)
<1>1. TypeOK /\ View /\ LastWord
  BY DEF IInv, QuietInv
<1>2. wire # <<>> /\ wire' = Tail(wire) /\ UNCHANGED <<held, instance, world, spent>>
  BY DEF Deliver
<1>3. m = wire[1]
  <2>1. wire \in Seq(Messages)
    BY <1>1 DEF TypeOK
  <2> QED
    BY <1>2, <2>1, Taken
<1>4. Taking
  BY <1>1, <1>2 DEF Taking, TypeOK
<1>5. ASSUME UNCHANGED <<backendVars, sent, historyVars>>,
             ~started \/ (m.kind = "reply" /\ m.watcher \notin watchers)
      PROVE  View'
  <2>1. UNCHANGED <<started, owner, generation, revision, refreshing, watchers, sent, shown>>
    BY <1>5 DEF backendVars, historyVars
  <2>2. Refreshes(watchers)' \subseteq Refreshes(watchers)
    BY <2>1 DEF Refreshes
  <2>3. started => /\ ~Disturbs(wire[1])
                   /\ \A w \in watchers : wire[1].watcher # w
    BY <1>3, <1>5 DEF Disturbs
  <2> QED
    BY <1>1, <1>2, <1>4, <2>1, <2>2, <2>3, PassedQuiet
<1>6. CASE m.kind = "owner" /\ ownerChanged(m.owner)
  <2>1. CASE started /\ setOwner(m.owner, watchers) /\ UNCHANGED started
    <3>1. OwnerNews' \/ m.owner = instance'
      BY <1>1, <1>2, <1>3, <1>4, <1>6, HeadTells DEF TellsOwner
    <3>2. watchers \in SUBSET watchers
      OBVIOUS
    <3> QED
      BY <1>4, <2>1, <3>1, <3>2, SetOwnerQuiet
  <2>2. CASE ~started /\ UNCHANGED <<backendVars, sent, historyVars>>
    BY <1>5, <2>2
  <2> QED
    BY <1>6, <2>1, <2>2 DEF ownerChanged
<1>7. ASSUME changed(watchers), m.kind \in {"changed", "removed"} PROVE View'
  <2>1. wire[1].kind # "owner" /\ wire[1].kind # "reply" /\ watchers \in SUBSET watchers
    BY <1>3, <1>7
  <2> QED
    BY <1>1, <1>2, <1>4, <1>7, <2>1, ChangedQuiet
<1>8. CASE m.kind = "changed" /\ propertiesChanged(m.version)
  BY <1>5, <1>7, <1>8 DEF propertiesChanged, Unsubscribed
<1>9. CASE m.kind = "removed" /\ interfacesRemoved(m.object, m.version)
  BY <1>5, <1>7, <1>9 DEF interfacesRemoved, Unsubscribed
<1>10. CASE m.kind = "reply" /\ m.watcher \in watchers /\ Fired(m.watcher, m)
  <2>1. Ends(m.watcher, m)
    BY <1>2, <1>3, <1>10 DEF Ends
  <2> QED
    BY <1>4, <1>10, <2>1, FiredQuiet
<1>11. CASE m.kind = "reply" /\ m.watcher \notin watchers /\ UNCHANGED <<backendVars, sent, historyVars>>
  BY <1>5, <1>11
<1> QED
  BY <1>6, <1>8, <1>9, <1>10, <1>11 DEF Deliver

LEMMA LocalErrorQuiet ==
  ASSUME IInv, QuietInv, IInv', NEW w \in watchers, LocalError(w)
  PROVE  QuietInv'
<1> DEFINE m == [error |-> "Upstream", owner |-> None, world |-> Nothing, version |-> 0]
<1>1. TypeOK /\ spent \in Spendings
  BY DEF IInv, TypeOK
<1>2. /\ Fired(w, m) /\ wire' = wire /\ UNCHANGED <<held, instance, world>>
      /\ spent' = [spent EXCEPT !.errors = @ + 1]
  BY DEF LocalError
<1>3. Taking
  BY <1>1, <1>2, SpentMore DEF Taking
<1>4. spent'.errors # 0
  <2>1. spent.errors \in Nat /\ spent'.errors = spent.errors + 1
    BY <1>1, <1>2 DEF Spendings
  <2> QED
    BY <2>1
<1>5. m.error # "none"
  OBVIOUS
<1> HIDE DEF m
<1>6. Ends(w, m)
  BY <1>2, <1>4, <1>5 DEF Ends
<1>7. View'
  BY <1>2, <1>3, <1>6, FiredQuiet
<1> QED
  BY <1>1, <1>3, <1>7, BusTaken DEF QuietInv

LEMMA CalledQuiet ==
  ASSUME IInv, QuietInv, IInv', start \/ stop \/ reportDisappeared
  PROVE  QuietInv'
<1>1. TypeOK /\ Asked /\ View /\ Stopped /\ spent \in Spendings /\ generation \in Nat
  BY DEF IInv, QuietInv, View, TypeOK
<1>2. ASSUME Taking, View' PROVE QuietInv'
  BY <1>1, <1>2, BusTaken DEF QuietInv
<1>3. CASE start
  <2> DEFINE call == [kind |-> "owner", generation |-> generation, revision |-> 0,
                      to |-> ServiceName]
  <2>1. /\ ~started /\ started' = TRUE
        /\ watchers' = watchers \cup {call} /\ sent' = sent \cup {call}
        /\ spent' = [spent EXCEPT !.starts = @ + 1]
        /\ UNCHANGED <<owner, generation, refreshing, wire, held, instance, world>>
    BY <1>3 DEF start
  <2>2. call.kind = "owner" /\ call.generation = generation
    OBVIOUS
  <2> HIDE DEF call
  <2>3. Taking
    BY <1>1, <2>1, SpentMore DEF Taking
  <2>4. Refreshes(watchers)' = {}
    BY <1>1, <2>1, <2>2 DEF Asked, Refreshes
  <2>5. Current'
    BY <1>1, <2>3, <2>4, NothingCurrent
  <2>6. owner' = None /\ ~refreshing'
    BY <1>1, <2>1 DEF Stopped
  <2>7. OwnerKnown'
    BY <2>1, <2>2 DEF OwnerKnown, Underway
  <2>8. View'
    BY <2>5, <2>6, <2>7 DEF View, Stopped, RefreshRuns, ShownCurrent
  <2> QED
    BY <1>2, <2>3, <2>8
<1>4. CASE stop
  <2>1. /\ ~started' /\ setOwner(None, watchers)
        /\ UNCHANGED <<wire, held, instance, world, spent>>
    BY <1>4 DEF stop
  <2>2. Taking
    BY <1>1, <2>1 DEF Taking
  <2>3. owner' = None /\ refresh(generation', revision', None, FALSE, watchers)
    BY <2>1 DEF setOwner
  <2>4. PICK busy \in BOOLEAN : ~busy /\ refresh(generation', revision', None, busy, watchers)
    BY <2>3, Zenon
  <2>5. ~refreshing'
    BY <2>4, Requested
  <2>6. View'
    BY <2>1, <2>3, <2>5, StoppedQuiet
  <2> QED
    BY <1>2, <2>2, <2>6
<1>5. CASE reportDisappeared
  <2>1. UNCHANGED <<started, owner, generation, revision, refreshing, watchers, sent, wire, held,
                    instance, world, spent, shown>>
    BY <1>5 DEF reportDisappeared, busVars, historyVars
  <2>2. Taking
    BY <1>1, <2>1 DEF Taking
  <2>3. Refreshes(watchers)' \subseteq Refreshes(watchers)
    BY <2>1 DEF Refreshes
  <2>4. View'
    BY <1>1, <2>1, <2>2, <2>3, PassedQuiet
  <2> QED
    BY <1>2, <2>2, <2>4
<1> QED
  BY <1>3, <1>4, <1>5

LEMMA CallQuiet ==
  ASSUME IInv, QuietInv, IInv', NEW operation, NEW target, Call(operation, target)
  PROVE  QuietInv'
<1> DEFINE c == [operation |-> operation, target |-> target, tag |-> spent.calls + 1]
           call(p) == [kind |-> "operation", generation |-> generation, revision |-> 0,
                       to |-> owner, object |-> p, call |-> c]
<1>1. TypeOK /\ View /\ spent \in Spendings
  BY DEF IInv, QuietInv, TypeOK
<1>2. /\ UNCHANGED <<started, owner, generation, revision, refreshing, wire, held, instance, world,
                     shown>>
      /\ \/ UNCHANGED <<watchers, sent>>
         \/ \E p : watchers' = watchers \cup {call(p)} /\ sent' = sent \cup {call(p)}
  BY DEF Call, execute, historyVars
<1>3. \A p : call(p).kind = "operation"
  OBVIOUS
<1> HIDE DEF call
<1>4. spent' = [spent EXCEPT !.calls = @ + 1]
  BY DEF Call
<1>5. Taking /\ spent'.errors = spent.errors
  BY <1>1, <1>2, <1>4, SpentMore DEF Taking, Spendings
<1>6. Refreshes(watchers)' \subseteq Refreshes(watchers) /\ sent \subseteq sent'
      /\ watchers \subseteq watchers'
  BY <1>2, <1>3 DEF Refreshes
<1>7. View'
  BY <1>1, <1>2, <1>5, <1>6, PassedQuiet
<1> QED
  BY <1>1, <1>5, <1>7, BusTaken DEF QuietInv

LEMMA InitQuiet == Init => QuietInv
<1> SUFFICES ASSUME Init PROVE QuietInv
  OBVIOUS
<1>1. /\ ~started /\ owner = None /\ ~refreshing /\ watchers = {}
      /\ wire = <<>> /\ held = {}
  BY DEF Init
<1>2. InFlight = {} /\ \A k \in 1..Len(wire) : FALSE
  BY <1>1 DEF InFlight
<1> QED
  BY <1>1, <1>2 DEF QuietInv, Bus, LastWord, View, Current, Stopped, OwnerKnown, RefreshRuns,
                    ShownCurrent

LEMMA NextQuiet == IInv /\ QuietInv /\ [Next]_vars => QuietInv'
<1> SUFFICES ASSUME IInv, QuietInv, [Next]_vars PROVE QuietInv'
  OBVIOUS
<1>1. IInv'
  BY NextInv
<1>2. CASE Deliver
  <2>1. TypeOK /\ Bus /\ LastWord
    BY DEF IInv, QuietInv
  <2>2. Taking
    BY <1>2, <2>1 DEF Deliver, Taking, TypeOK
  <2> QED
    BY <1>1, <1>2, <2>1, <2>2, DeliverQuiet, BusTaken DEF QuietInv
<1>3. CASE Backend
  BY <1>1, <1>2, <1>3, CalledQuiet, CallQuiet, LocalErrorQuiet DEF Backend
<1>4. CASE Daemon
  <2>1. Volumes \subseteq Objects
    BY DEF Objects
  <2> QED
    BY <1>4, <2>1, WorldQuiet, HandleOwnerQuiet, HandleRefreshQuiet, HandleOperationQuiet,
       SendQuiet, LifeQuiet DEF Daemon
<1>5. CASE UNCHANGED vars
  <2>1. /\ UNCHANGED <<started, owner, generation, revision, refreshing, watchers, wire, sent, held,
                       instance, world, spent, shown>>
    BY <1>5 DEF vars, backendVars, busVars, historyVars
  <2>2. TypeOK /\ View /\ Bus /\ LastWord
    BY DEF IInv, QuietInv
  <2>3. Taking
    BY <2>1, <2>2 DEF Taking, TypeOK
  <2>4. Refreshes(watchers)' \subseteq Refreshes(watchers)
    BY <2>1 DEF Refreshes
  <2>5. View'
    BY <1>1, <2>1, <2>2, <2>3, <2>4, PassedQuiet
  <2> QED
    BY <2>2, <2>3, <2>5, BusTaken DEF QuietInv
<1> QED
  BY <1>3, <1>4, <1>5 DEF Next

-----------------------------------------------------------------------------
(* Everything the backend keeps, and everything on its way to it, is as IInv  *)
(* says: what makes a snapshot safe to publish.                               *)
THEOREM UDisksInvariant == Spec => []IInv
<1> QED
  BY InitInv, NextInv, PTL DEF Spec

(* The types of the backend's variables and of what travels.                  *)
THEOREM TypeCorrect == Spec => []TypeOK
<1>1. IInv => TypeOK
  BY DEF IInv
<1> QED
  BY <1>1, UDisksInvariant, PTL

(* An id of idFor() names one incarnation of one object, whatever order       *)
(* signals and replies come in.                                               *)
THEOREM IdsAreNotReused == Spec => []OneDevicePerId
<1>1. IInv => OneDevicePerId
  BY DEF IInv
<1> QED
  BY <1>1, UDisksInvariant, PTL

(* A successful operationFinished follows, in the same step, a snapshot that  *)
(* is no older than the operation.                                            *)
THEOREM ResultsFollowTheirSnapshot == Spec => []CompletionsFresh
<1>1. Init => CompletionsFresh /\ MountedVolumeListed
  BY InitResults
<1> QED
  BY <1>1, ResultsKeep, UDisksInvariant, PTL DEF Spec

(* A mount is reported successful only for a volume of that snapshot.         *)
THEOREM MountsAreListed == Spec => []MountedVolumeListed
<1>1. Init => CompletionsFresh /\ MountedVolumeListed
  BY InitResults
<1> QED
  BY <1>1, ResultsKeep, UDisksInvariant, PTL DEF Spec

(* When nothing travels between backend and daemon, the consumer is shown the *)
(* world as it is, unless a call has failed (refresh() and its reply, the     *)
(* stale answers asked again, ownerChanged and start's GetNameOwner).         *)
THEOREM QuietIsCurrent == Spec => []QuietShowsWorld
<1>1. IInv /\ QuietInv => QuietShowsWorld
  <2> SUFFICES ASSUME IInv, QuietInv, started, instance # None, spent.errors = 0,
                      wire = <<>>, sent = {}, held = {}
               PROVE  shown = world
    BY DEF QuietShowsWorld
  <2>1. InFlight = {}
    BY DEF InFlight
  <2>2. ~OwnerNews /\ ~News /\ \A w : ~Underway(w)
    BY <2>1 DEF OwnerNews, News, Underway, Replied
  <2>3. owner # None
    BY <2>2 DEF QuietInv, View, OwnerKnown
  <2>4. ~refreshing
    BY <2>2 DEF QuietInv, View, RefreshRuns
  <2> QED
    BY <2>2, <2>3, <2>4 DEF QuietInv, View, ShownCurrent
<1> QED
  BY <1>1, InitQuiet, NextQuiet, UDisksInvariant, PTL DEF Spec

=============================================================================
