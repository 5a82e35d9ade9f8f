------------------------- MODULE StorageServiceProofs -------------------------
(***************************************************************************)
(* The composed storage service, for any objects, requests and bounds:     *)
(* CallsInOnePlace, RemovalsSeeMounts, and that it is a StorageController  *)
(* over some backend.                                                      *)
(*                                                                         *)
(* CallsInOnePlace speaks of the moments at which no signal is being       *)
(* handled.  The invariant follows a call through the others too: it is    *)
(* with a watcher, among the completions that wait for a snapshot,         *)
(* deferred, or in a signal.  The call of an open request stays in such a  *)
(* place until its answer is handled or the snapshot is withdrawn, which   *)
(* ends the request.  It is there once because calls are numbered within a *)
(* request, and an id is not given to a second request.                    *)
(*                                                                         *)
(* RemovalsSeeMounts rests on what is on its way being no newer than the   *)
(* world, and on a snapshot that may still be published being newer than   *)
(* every result that waits for it.                                         *)
(***************************************************************************)
EXTENDS StorageService, FiniteSetTheorems, TLAPS

InWatchers(c) == {w \in watchers : w.kind = "operation" /\ w.call = c}
InCompletions(c) == {i \in DOMAIN completions : completions[i].call = c}
InDeferred(c) == {i \in DOMAIN deferred : deferred[i] = c}
InEmitted(c) ==
  {i \in DOMAIN emitted : emitted[i].signal = "operationFinished" /\ emitted[i].call = c}

Single(S) == \A x, y \in S : x = y

(* A call is in no two places. *)
Alone(c) ==
  /\ Single(InWatchers(c)) /\ Single(InCompletions(c))
  /\ Single(InDeferred(c)) /\ Single(InEmitted(c))
  /\ InWatchers(c) # {} => InCompletions(c) = {} /\ InDeferred(c) = {} /\ InEmitted(c) = {}
  /\ InCompletions(c) # {} => InDeferred(c) = {} /\ InEmitted(c) = {}
  /\ InDeferred(c) # {} => InEmitted(c) = {}

Withdrawn ==
  \E i \in DOMAIN emitted : emitted[i].signal = "snapshotChanged" /\ ~emitted[i].available

(* It will be answered, or its request is about to end. *)
Kept(c) ==
  \/ \E w \in InWatchers(c) : w.generation = generation
  \/ InCompletions(c) # {} \/ InDeferred(c) # {} \/ InEmitted(c) # {}
  \/ Withdrawn

IsSequence(q) == q \in Seq({q[i] : i \in DOMAIN q})

Sequences3 == IsSequence(completions) /\ IsSequence(deferred) /\ IsSequence(emitted)

(* What waits anywhere is a call the controller has not seen answered. *)
Known ==
  /\ \A w \in watchers : w.kind = "operation" => w.call \in calls
  /\ \A i \in DOMAIN completions :
       completions[i].signal = "operationFinished" /\ completions[i].call \in calls
  /\ \A i \in DOMAIN deferred : deferred[i] \in calls
  /\ \A i \in DOMAIN emitted : emitted[i].signal = "operationFinished" => emitted[i].call \in calls

(* The calls of a request are those it has issued, and one that has ended   *)
(* issues no more.                                                          *)
Numbered ==
  /\ pending \subseteq RequestIds
  /\ DOMAIN request = RequestIds /\ DOMAIN outcome = RequestIds
  /\ \A r \in RequestIds : request[r].issued \in Nat
  /\ \A r \in pending : outcome[r] = "none"
  /\ \A c \in calls :
       /\ c.request \in RequestIds /\ c.step \in Nat
       /\ IF c.request \in pending THEN c.step <= request[c.request].issued
                                   ELSE outcome[c.request] # "none"

IInv ==
  /\ Sequences3
  /\ Known
  /\ Numbered
  /\ \A c \in calls : Alone(c)
  /\ \A c \in calls : c.request \in pending => Kept(c)

-----------------------------------------------------------------------------
(* For the mounts a removal sees: what is shown, listed and on its way. *)

(* There are enough ids (MaxIds bounds them for TLC only). *)
IdsSuffice == \A o \in Backend!Objects : minted[o] <= MaxIds

Identified ==
  /\ DOMAIN ids = Backend!Objects /\ minted \in [Backend!Objects -> Nat]
  /\ \A o \in Backend!Objects : ids[o] # None => \E n \in 1..minted[o] : ids[o] = <<o, n>>

Sound(w) ==
  /\ w.version \in Nat
  /\ w.present \subseteq Backend!Objects /\ w.mounted \subseteq w.present \cap Volumes

RepliesIn(q) == {q[i] : i \in {i \in DOMAIN q : q[i].kind = "reply"}}

(* The replies on their way. *)
Replies == RepliesIn(wire) \cup UNION {RepliesIn(h) : h \in held}

(* What travels is no newer than the world, and of no later connection or   *)
(* revision than the backend's.                                             *)
Travelling ==
  /\ IsSequence(wire) /\ \A h \in held : IsSequence(h)
  /\ generation \in Nat /\ revision \in Nat
  /\ \A m \in Replies : m.version \in Nat /\ m.version <= world.version /\ Sound(m.world)
  /\ \A w \in sent \cup {m.watcher : m \in Replies} :
       /\ w.generation \in Nat /\ w.revision \in Nat /\ w.generation <= generation
       /\ w.generation = generation => w.revision <= revision
  /\ \A w \in sent : w.kind = "operation" =>
       /\ w.call.operation \in Controller!Operations
       /\ w.object \in IF w.call.operation \in Controller!Removals THEN Drives ELSE Volumes

(* A snapshot that may still be published was computed after every result   *)
(* that waits for it.                                                       *)
Awaited ==
  \A i \in DOMAIN completions :
    /\ completions[i].version \in Nat /\ completions[i].version <= world.version
    /\ \A m \in Replies :
         (/\ m.watcher.kind = "refresh" /\ m.error = "none"
          /\ m.watcher.generation = generation /\ m.watcher.revision = revision) =>
            completions[i].version <= m.world.version

(* A snapshot is emitted first, and is the one shown; the results behind it *)
(* are no newer.                                                            *)
Emitted ==
  \A i \in DOMAIN emitted :
    \/ /\ emitted[i].signal = "snapshotChanged" /\ i = 1
       /\ emitted[i].available =>
            /\ emitted[i].world = shown /\ emitted[i].ids = ids
            /\ \A o \in shown.present : ids[o] # None
       /\ ~emitted[i].available => shown = Backend!Nothing
    \/ /\ emitted[i].signal = "operationFinished"
       /\ emitted[i].version \in Nat /\ emitted[i].version <= shown.version

Announcing == \E i \in DOMAIN emitted : emitted[i].signal = "snapshotChanged"

(* What is shown mounted on a drive that has an id is listed on that drive. *)
MountsListed ==
  ~Announcing =>
    \A v \in shown.mounted : ids[DriveOf[v]] # None =>
      \E x \in topology.volumes \cap topology.mounted : topology.driveOf[x] = ids[DriveOf[v]]

SInv ==
  /\ Identified
  /\ Sound(world) /\ Sound(shown)
  /\ Travelling
  /\ Awaited
  /\ Emitted
  /\ MountsListed
  /\ topology \in Snapshots
  /\ DOMAIN asked = RequestIds
  /\ \A r \in pending : asked[r].operation \in Controller!Operations

-----------------------------------------------------------------------------
(* Sequences. *)

LEMMA SequenceOf ==
  ASSUME NEW S, NEW q \in Seq(S)
  PROVE  IsSequence(q)
<1> DEFINE T == {q[i] : i \in DOMAIN q}
<1>1. Len(q) \in Nat /\ DOMAIN q = 1..Len(q) /\ q = [i \in 1..Len(q) |-> q[i]]
  OBVIOUS
<1>2. \A i \in 1..Len(q) : q[i] \in T
  BY <1>1
<1>3. [i \in 1..Len(q) |-> q[i]] \in Seq(T)
  BY <1>1, <1>2
<1> QED
  BY <1>1, <1>3 DEF IsSequence

LEMMA Lengths ==
  ASSUME NEW q, IsSequence(q)
  PROVE  Len(q) \in Nat /\ DOMAIN q = 1..Len(q)
BY DEF IsSequence

LEMMA AppendedSequence ==
  ASSUME NEW q, IsSequence(q), NEW e
  PROVE  /\ IsSequence(Append(q, e))
         /\ DOMAIN Append(q, e) = (DOMAIN q) \cup {Len(q) + 1}
         /\ Len(q) + 1 \notin DOMAIN q
         /\ \A i \in DOMAIN q : Append(q, e)[i] = q[i]
         /\ Append(q, e)[Len(q) + 1] = e
<1> DEFINE S == {q[i] : i \in DOMAIN q}
           T == S \cup {e}
<1>1. q \in Seq(S) /\ Len(q) \in Nat /\ DOMAIN q = 1..Len(q)
  BY DEF IsSequence
<1>2. \A i \in 1..Len(q) : q[i] \in T
  BY <1>1
<1>3. q \in Seq(T)
  BY <1>1, <1>2
<1>4. /\ Append(q, e) \in Seq(T) /\ Len(Append(q, e)) = Len(q) + 1
      /\ DOMAIN Append(q, e) = 1..(Len(q) + 1)
      /\ \A i \in 1..Len(q) : Append(q, e)[i] = q[i]
      /\ Append(q, e)[Len(q) + 1] = e
  <2> HIDE DEF S, T
  <2>1. e \in T
    BY DEF T
  <2> QED
    BY <1>1, <1>3, <2>1
<1>5. IsSequence(Append(q, e))
  BY <1>4, SequenceOf
<1> QED
  BY <1>1, <1>4, <1>5

LEMMA TakenSequence ==
  ASSUME NEW q, IsSequence(q), q # <<>>
  PROVE  /\ IsSequence(Tail(q))
         /\ 1 \in DOMAIN q /\ Head(q) = q[1]
         /\ \A i \in DOMAIN Tail(q) : i + 1 \in DOMAIN q /\ Tail(q)[i] = q[i + 1] /\ i + 1 # 1
         /\ \A i \in DOMAIN q : i # 1 => i - 1 \in DOMAIN Tail(q) /\ Tail(q)[i - 1] = q[i]
         /\ \A i, j \in DOMAIN Tail(q) : i + 1 = j + 1 => i = j
<1> DEFINE S == {q[i] : i \in DOMAIN q}
<1>1. q \in Seq(S)
  BY DEF IsSequence
<1> HIDE DEF S
<1>2. /\ Len(q) \in Nat \ {0} /\ DOMAIN q = 1..Len(q) /\ Head(q) = q[1]
      /\ Tail(q) \in Seq(S) /\ Len(Tail(q)) = Len(q) - 1 /\ DOMAIN Tail(q) = 1..(Len(q) - 1)
      /\ \A i \in 1..(Len(q) - 1) : Tail(q)[i] = q[i + 1]
  BY <1>1
<1>3. IsSequence(Tail(q))
  BY <1>2, SequenceOf
<1> QED
  BY <1>2, <1>3

LEMMA SingleSequence ==
  ASSUME NEW e
  PROVE  IsSequence(<<e>>) /\ DOMAIN <<e>> = {1} /\ <<e>>[1] = e
<1>1. <<e>> \in Seq({e}) /\ DOMAIN <<e>> = 1..1 /\ <<e>>[1] = e
  OBVIOUS
<1>2. IsSequence(<<e>>)
  BY <1>1, SequenceOf
<1> QED
  BY <1>1, <1>2

LEMMA EmptySequence == IsSequence(<<>>) /\ DOMAIN <<>> = {}
<1>1. <<>> \in Seq({}) /\ DOMAIN <<>> = {}
  <2>1. <<>> \in Seq({}) /\ Len(<<>>) = 0
    OBVIOUS
  <2> QED
    BY <2>1
<1> QED
  BY <1>1, SequenceOf

(* A signal followed by others. *)
LEMMA FollowedSequence ==
  ASSUME NEW q, IsSequence(q), NEW e
  PROVE  /\ IsSequence(<<e>> \o q)
         /\ 1 \in DOMAIN (<<e>> \o q) /\ (<<e>> \o q)[1] = e
         /\ \A i \in DOMAIN q :
              i + 1 \in DOMAIN (<<e>> \o q) /\ (<<e>> \o q)[i + 1] = q[i] /\ i + 1 # 1
         /\ \A i \in DOMAIN (<<e>> \o q) :
              i # 1 => i - 1 \in DOMAIN q /\ (<<e>> \o q)[i] = q[i - 1]
         /\ \A i, j \in DOMAIN (<<e>> \o q) : i - 1 = j - 1 => i = j
<1> DEFINE T == {q[i] : i \in DOMAIN q}
           S == T \cup {e}
           r == <<e>> \o q
<1>1. Len(q) \in Nat /\ DOMAIN q = 1..Len(q) /\ q \in Seq(T)
  BY DEF IsSequence
<1>2. \A i \in 1..Len(q) : q[i] \in S
  BY <1>1
<1>3. q \in Seq(S)
  BY <1>1, <1>2
<1>4. <<e>> \in Seq(S) /\ Len(<<e>>) = 1 /\ <<e>>[1] = e
  OBVIOUS
<1> HIDE DEF S, T
<1>5. /\ r \in Seq(S) /\ Len(r) = Len(q) + 1 /\ DOMAIN r = 1..(Len(q) + 1)
      /\ r[1] = e /\ \A i \in 1..Len(q) : r[i + 1] = q[i]
  BY <1>1, <1>3, <1>4
<1> HIDE DEF r
<1>6. \A i \in DOMAIN r : i # 1 => i - 1 \in DOMAIN q /\ r[i] = q[i - 1]
  <2> SUFFICES ASSUME NEW i \in DOMAIN r, i # 1
               PROVE  i - 1 \in DOMAIN q /\ r[i] = q[i - 1]
    OBVIOUS
  <2>1. i - 1 \in 1..Len(q) /\ (i - 1) + 1 = i
    BY <1>1, <1>5
  <2> QED
    BY <2>1, <1>1, <1>5
<1>7. IsSequence(r)
  BY <1>5, SequenceOf
<1>8. \A i \in DOMAIN q : i + 1 \in DOMAIN r /\ r[i + 1] = q[i] /\ i + 1 # 1
  BY <1>1, <1>5
<1>9. \A i, j \in DOMAIN r : i - 1 = j - 1 => i = j
  BY <1>1, <1>5
<1> QED
  BY <1>1, <1>5, <1>6, <1>7, <1>8, <1>9 DEF r

-----------------------------------------------------------------------------
(* The steps of the backend and of the daemon. *)

(* Every watcher that is added is for something other than an operation. *)
NoneAdded == \A w \in watchers' : w.kind = "operation" => w \in watchers

LEMMA WatchersFewer ==
  ASSUME NoneAdded, NEW c
  PROVE  InWatchers(c)' \subseteq InWatchers(c)
BY DEF NoneAdded, InWatchers

LEMMA NothingEmitted ==
  ASSUME NEW c, emitted = <<>>
  PROVE  InEmitted(c) = {} /\ ~Withdrawn
BY EmptySequence DEF InEmitted, Withdrawn

LEMMA NothingEmittedNext ==
  ASSUME NEW c, emitted' = <<>>
  PROVE  InEmitted(c)' = {} /\ ~Withdrawn'
BY EmptySequence DEF InEmitted, Withdrawn

(* What has no say on the calls but may drop those of earlier connections. *)
LEMMA QuieterKeeps ==
  ASSUME IInv, UNCHANGED controllerVars, emitted' = <<>>, emitted = <<>>, NoneAdded,
         UNCHANGED <<completions, deferred, generation>>,
         \A w \in watchers : w.kind = "operation" /\ w.generation = generation => w \in watchers'
  PROVE  IInv'
<1>1. Numbered'
  BY DEF IInv, Numbered, controllerVars
<1>2. Sequences3'
  BY EmptySequence DEF IInv, Sequences3
<1>3. Known'
  BY EmptySequence DEF IInv, Known, NoneAdded, controllerVars
<1>4. ASSUME NEW c \in calls
      PROVE  /\ InWatchers(c)' \subseteq InWatchers(c) /\ InCompletions(c)' = InCompletions(c)
             /\ InDeferred(c)' = InDeferred(c) /\ InEmitted(c)' = {} /\ InEmitted(c) = {}
  BY WatchersFewer, NothingEmitted, NothingEmittedNext DEF InCompletions, InDeferred
<1>5. \A c \in calls : Alone(c)'
  BY <1>4 DEF IInv, Alone, Single
<1>6. ASSUME NEW c \in calls, c.request \in pending
      PROVE  Kept(c)'
  <2>1. Kept(c) /\ ~Withdrawn /\ InEmitted(c) = {}
    BY <1>6, NothingEmitted DEF IInv
  <2>2. CASE \E w \in InWatchers(c) : w.generation = generation
    BY <2>2 DEF InWatchers, Kept
  <2>3. CASE InCompletions(c) # {} \/ InDeferred(c) # {}
    BY <2>3, <1>4 DEF Kept
  <2> QED
    BY <2>1, <2>2, <2>3 DEF Kept
<1> QED
  BY <1>1, <1>2, <1>3, <1>5, <1>6 DEF IInv, controllerVars

(* The snapshot is withdrawn. *)
LEMMA WithdrawnKeeps ==
  ASSUME IInv, UNCHANGED controllerVars, NoneAdded,
         NEW e, e.signal = "snapshotChanged", ~e.available, emitted' = <<e>>,
         completions' = completions \/ completions' = <<>>, UNCHANGED deferred
  PROVE  IInv'
<1>1. Numbered'
  BY DEF IInv, Numbered, controllerVars
<1>2. /\ IsSequence(emitted') /\ DOMAIN emitted' = {1}
      /\ emitted'[1].signal = "snapshotChanged" /\ ~emitted'[1].available
  BY SingleSequence
<1>3. Sequences3'
  BY <1>2, EmptySequence DEF IInv, Sequences3
<1>4. Known'
  BY <1>2, EmptySequence DEF IInv, Known, NoneAdded, controllerVars
<1>5. Withdrawn'
  BY <1>2 DEF Withdrawn
<1>6. ASSUME NEW c \in calls
      PROVE  Alone(c)'
  <2>1. InWatchers(c)' \subseteq InWatchers(c) /\ InDeferred(c)' = InDeferred(c)
    BY WatchersFewer DEF InDeferred
  <2>2. InCompletions(c)' \subseteq InCompletions(c)
    BY EmptySequence DEF InCompletions
  <2>3. InEmitted(c)' = {}
    BY <1>2 DEF InEmitted
  <2> QED
    BY <2>1, <2>2, <2>3 DEF IInv, Alone, Single
<1> QED
  BY <1>1, <1>3, <1>4, <1>5, <1>6 DEF IInv, Kept, controllerVars

(* The answer of an operation joins the completions. *)
LEMMA AnsweredKeeps ==
  ASSUME IInv, UNCHANGED controllerVars, emitted = <<>>, emitted' = <<>>, NoneAdded,
         NEW w \in watchers, w.kind = "operation", w \notin watchers',
         \A x \in watchers : x.kind = "operation" /\ x # w => x \in watchers',
         NEW s, s.call = w.call, s.signal = "operationFinished",
         completions' = Append(completions, s),
         UNCHANGED <<deferred, generation>>
  PROVE  IInv'
<1>1. Numbered'
  BY DEF IInv, Numbered, controllerVars
<1>2. IsSequence(completions)
  BY DEF IInv, Sequences3
<1>3. /\ IsSequence(completions') /\ DOMAIN completions' = (DOMAIN completions) \cup {Len(completions) + 1}
      /\ Len(completions) + 1 \notin DOMAIN completions
      /\ \A i \in DOMAIN completions : completions'[i] = completions[i]
      /\ completions'[Len(completions) + 1] = s
  BY <1>2, AppendedSequence
<1>4. Sequences3'
  BY <1>3, EmptySequence DEF IInv, Sequences3
<1>5. Known'
  BY <1>3, EmptySequence DEF IInv, Known, NoneAdded, controllerVars
<1>6. ASSUME NEW c \in calls
      PROVE  /\ InWatchers(c)' = InWatchers(c) \ {w}
             /\ InCompletions(c)' = InCompletions(c) \cup
                  (IF c = w.call THEN {Len(completions) + 1} ELSE {})
             /\ InDeferred(c)' = InDeferred(c) /\ InEmitted(c)' = {} /\ InEmitted(c) = {}
  <2>1. InWatchers(c)' = InWatchers(c) \ {w}
    BY DEF InWatchers, NoneAdded
  <2>2. InCompletions(c)' = InCompletions(c) \cup
          (IF c = w.call THEN {Len(completions) + 1} ELSE {})
    BY <1>3 DEF InCompletions
  <2> QED
    BY <2>1, <2>2, NothingEmitted, NothingEmittedNext DEF InDeferred
<1>7. ASSUME NEW c \in calls
      PROVE  Alone(c)' /\ (c.request \in pending => Kept(c)')
  <2>1. Alone(c) /\ (c.request \in pending => Kept(c)) /\ ~Withdrawn
    BY NothingEmitted DEF IInv
  <2>2. CASE c = w.call
    <3>1. w \in InWatchers(c)
      BY <2>2 DEF InWatchers
    <3>2. InWatchers(c)' = {} /\ InCompletions(c)' = {Len(completions) + 1}
          /\ InDeferred(c)' = {} /\ InEmitted(c)' = {}
      BY <1>6, <2>1, <2>2, <3>1 DEF Alone, Single
    <3> QED
      BY <3>2 DEF Alone, Single, Kept
  <2>3. CASE c # w.call
    <3>1. w \notin InWatchers(c)
      BY <2>3 DEF InWatchers
    <3>2. /\ InWatchers(c)' = InWatchers(c) /\ InCompletions(c)' = InCompletions(c)
          /\ InDeferred(c)' = InDeferred(c) /\ InEmitted(c)' = InEmitted(c)
      BY <1>6, <2>3, <3>1
    <3>3. Alone(c)'
      BY <2>1, <3>2 DEF Alone, Single
    <3> QED
      BY <2>1, <3>2, <3>3 DEF Kept
  <2> QED
    BY <2>2, <2>3
<1> QED
  BY <1>1, <1>4, <1>5, <1>7 DEF IInv, controllerVars

(* The results that waited follow the snapshot. *)
LEMMA PublishedKeeps ==
  ASSUME IInv, UNCHANGED controllerVars, emitted = <<>>, NoneAdded,
         \A w \in watchers : w.kind = "operation" => w \in watchers',
         NEW e, e.signal = "snapshotChanged",
         NEW f, IsSequence(f), DOMAIN f = DOMAIN completions,
         \A i \in DOMAIN f :
           f[i].signal = "operationFinished" /\ f[i].call = completions[i].call,
         emitted' = <<e>> \o f,
         completions' = <<>>, UNCHANGED <<deferred, generation>>
  PROVE  IInv'
<1>1. Numbered'
  BY DEF IInv, Numbered, controllerVars
<1>3. /\ IsSequence(emitted')
      /\ 1 \in DOMAIN emitted' /\ emitted'[1] = e
      /\ \A i \in DOMAIN completions :
           i + 1 \in DOMAIN emitted' /\ emitted'[i + 1] = f[i] /\ i + 1 # 1
      /\ \A i \in DOMAIN emitted' :
           i # 1 => i - 1 \in DOMAIN completions /\ emitted'[i] = f[i - 1]
      /\ \A i, j \in DOMAIN emitted' : i - 1 = j - 1 => i = j
  <2> DEFINE r == <<e>> \o f
  <2>1. /\ IsSequence(r)
        /\ 1 \in DOMAIN r /\ r[1] = e
        /\ \A i \in DOMAIN f : i + 1 \in DOMAIN r /\ r[i + 1] = f[i] /\ i + 1 # 1
        /\ \A i \in DOMAIN r : i # 1 => i - 1 \in DOMAIN f /\ r[i] = f[i - 1]
        /\ \A i, j \in DOMAIN r : i - 1 = j - 1 => i = j
    BY FollowedSequence
  <2>2. emitted' = r
    OBVIOUS
  <2> HIDE DEF r
  <2> QED
    BY <2>1, <2>2
<1>4. Sequences3'
  BY <1>3, EmptySequence DEF IInv, Sequences3
<1>5. Known'
  <2>1. \A i \in DOMAIN emitted' :
          emitted'[i].signal = "operationFinished" => emitted'[i].call \in calls
    BY <1>3 DEF IInv, Known
  <2> QED
    BY <2>1, EmptySequence DEF IInv, Known, NoneAdded, controllerVars
<1>6. ASSUME NEW c \in calls
      PROVE  /\ InWatchers(c)' = InWatchers(c)
             /\ InCompletions(c)' = {} /\ InDeferred(c)' = InDeferred(c) /\ InEmitted(c) = {}
             /\ InEmitted(c)' # {} <=> InCompletions(c) # {}
             /\ \A i \in InEmitted(c)' : i \in DOMAIN emitted' /\ i - 1 \in InCompletions(c)
  <2>1. InWatchers(c)' = InWatchers(c)
    BY DEF InWatchers, NoneAdded
  <2>2. InCompletions(c)' = {}
    BY EmptySequence DEF InCompletions
  <2>3. \A i \in InEmitted(c)' : i \in DOMAIN emitted' /\ i - 1 \in InCompletions(c)
    BY <1>3 DEF InEmitted, InCompletions
  <2>4. \A i \in InCompletions(c) : i + 1 \in InEmitted(c)'
    BY <1>3 DEF InEmitted, InCompletions
  <2> QED
    BY <2>1, <2>2, <2>3, <2>4, NothingEmitted DEF InDeferred
<1>7. ASSUME NEW c \in calls
      PROVE  Alone(c)'
  <2>1. \A i, j \in InEmitted(c)' : i - 1 = j - 1
    <3>1. \A i, j \in InCompletions(c) : i = j
      BY DEF IInv, Alone, Single
    <3> QED
      BY <3>1, <1>6
  <2>2. Single(InEmitted(c)')
    BY <2>1, <1>3, <1>6 DEF Single
  <2> QED
    BY <2>2, <1>6 DEF IInv, Alone, Single
<1>8. ASSUME NEW c \in calls, c.request \in pending
      PROVE  Kept(c)'
  <2>1. Kept(c) /\ ~Withdrawn
    BY <1>8, NothingEmitted DEF IInv
  <2> QED
    BY <1>6, <2>1 DEF Kept
<1> QED
  BY <1>1, <1>4, <1>5, <1>7, <1>8 DEF IInv, controllerVars

(* The first deferred answer is emitted. *)
LEMMA ReportedKeeps ==
  ASSUME IInv, UNCHANGED controllerVars, emitted = <<>>, deferred # <<>>,
         NEW s, s.signal = "operationFinished", s.call = Head(deferred),
         emitted' = <<s>>, deferred' = Tail(deferred),
         UNCHANGED <<watchers, completions, generation>>
  PROVE  IInv'
<1>1. Numbered'
  BY DEF IInv, Numbered, controllerVars
<1>2. IsSequence(deferred)
  BY DEF IInv, Sequences3
<1>3. /\ IsSequence(deferred')
      /\ 1 \in DOMAIN deferred /\ Head(deferred) = deferred[1]
      /\ \A i \in DOMAIN deferred' :
           i + 1 \in DOMAIN deferred /\ deferred'[i] = deferred[i + 1] /\ i + 1 # 1
      /\ \A i \in DOMAIN deferred :
           i # 1 => i - 1 \in DOMAIN deferred' /\ deferred'[i - 1] = deferred[i]
      /\ \A i, j \in DOMAIN deferred' : i + 1 = j + 1 => i = j
  BY <1>2, TakenSequence
<1>4. IsSequence(emitted') /\ DOMAIN emitted' = {1} /\ emitted'[1] = s
  BY SingleSequence
<1>5. Sequences3'
  BY <1>3, <1>4 DEF IInv, Sequences3
<1>6. Known'
  BY <1>3, <1>4 DEF IInv, Known, controllerVars
<1>7. ASSUME NEW c \in calls
      PROVE  /\ InWatchers(c)' = InWatchers(c) /\ InCompletions(c)' = InCompletions(c)
             /\ \A i \in InDeferred(c)' : i \in DOMAIN deferred' /\ i + 1 \in InDeferred(c) /\ i + 1 # 1
             /\ \A i \in InDeferred(c) : i = 1 \/ i - 1 \in InDeferred(c)'
             /\ InEmitted(c) = {}
             /\ InEmitted(c)' = IF 1 \in InDeferred(c) THEN {1} ELSE {}
  <2>1. \A i \in InDeferred(c)' : i \in DOMAIN deferred' /\ i + 1 \in InDeferred(c) /\ i + 1 # 1
    BY <1>3 DEF InDeferred
  <2>2. \A i \in InDeferred(c) : i = 1 \/ i - 1 \in InDeferred(c)'
    BY <1>3 DEF InDeferred
  <2>3. InEmitted(c)' = IF 1 \in InDeferred(c) THEN {1} ELSE {}
    BY <1>3, <1>4 DEF InDeferred, InEmitted
  <2> QED
    BY <2>1, <2>2, <2>3, NothingEmitted DEF InWatchers, InCompletions
<1>8. ASSUME NEW c \in calls
      PROVE  Alone(c)'
  <2>1. Single(InDeferred(c)')
    BY <1>3, <1>7 DEF IInv, Alone, Single
  <2>2. InDeferred(c)' # {} => InEmitted(c)' = {}
    BY <1>7 DEF IInv, Alone, Single
  <2> QED
    BY <2>1, <2>2, <1>7 DEF IInv, Alone, Single
<1>9. ASSUME NEW c \in calls, c.request \in pending
      PROVE  Kept(c)'
  <2>1. Kept(c) /\ ~Withdrawn
    BY <1>9, NothingEmitted DEF IInv
  <2>2. InDeferred(c) # {} => InDeferred(c)' # {} \/ InEmitted(c)' # {}
    BY <1>7
  <2> QED
    BY <1>7, <2>1, <2>2 DEF Kept
<1> QED
  BY <1>1, <1>5, <1>6, <1>8, <1>9 DEF IInv, controllerVars

LEMMA DroppedKeeps ==
  ASSUME IInv, UNCHANGED controllerVars, emitted = <<>>,
         NEW w \in watchers, w.kind # "operation" \/ w.generation # generation,
         Backend!Dropped(w)
  PROVE  IInv'
BY QuieterKeeps DEF Backend!Dropped, NoneAdded

LEMMA UnavailableSignal ==
  Backend!Unavailable.signal = "snapshotChanged" /\ ~Backend!Unavailable.available
BY DEF Backend!Unavailable

LEMMA OwnerSetKeeps ==
  ASSUME IInv, UNCHANGED controllerVars, NEW new, NEW others, others \subseteq watchers,
         Backend!setOwner(new, others)
  PROVE  IInv'
<1>1. emitted' = <<Backend!Unavailable>> /\ completions' = <<>> /\ UNCHANGED deferred
  BY DEF Backend!setOwner
<1>2. NoneAdded
  BY DEF Backend!setOwner, Backend!refresh, NoneAdded
<1> QED
  BY <1>1, <1>2, WithdrawnKeeps, UnavailableSignal

LEMMA OwnerAnsweredKeeps ==
  ASSUME IInv, UNCHANGED controllerVars, emitted = <<>>,
         NEW w \in watchers, w.kind = "owner", NEW error, NEW new,
         Backend!ownerReply(w, error, new)
  PROVE  IInv'
<1>1. CASE Backend!Dropped(w)
  BY <1>1, DroppedKeeps
<1>2. CASE Backend!setOwner(IF new = None THEN ServiceName ELSE new, watchers \ {w})
  BY <1>2, OwnerSetKeeps
<1>3. CASE /\ watchers' = watchers \ {w} /\ emitted' = <<Backend!Unavailable>>
           /\ UNCHANGED <<completions, deferred>>
  BY <1>3, WithdrawnKeeps, UnavailableSignal DEF NoneAdded
<1> QED
  BY <1>1, <1>2, <1>3 DEF Backend!ownerReply

LEMMA RefreshAnsweredKeeps ==
  ASSUME IInv, UNCHANGED controllerVars, emitted = <<>>,
         NEW w \in watchers, w.kind = "refresh", NEW error, NEW shot,
         Backend!refreshReply(w, error, shot)
  PROVE  IInv'
<1>1. CASE Backend!Dropped(w)
  BY <1>1, DroppedKeeps
<1>2. CASE /\ Backend!refresh(generation, revision, owner, FALSE, watchers \ {w})
           /\ emitted' = <<>> /\ UNCHANGED <<completions, deferred, generation>>
  <2>1. /\ NoneAdded
        /\ \A x \in watchers : x.kind = "operation" => x \in watchers'
    BY <1>2 DEF NoneAdded, Backend!refresh
  <2> QED
    BY <1>2, <2>1, QuieterKeeps
<1>3. CASE /\ Backend!refreshFailed /\ watchers' = watchers \ {w} /\ UNCHANGED deferred
  BY <1>3, WithdrawnKeeps, UnavailableSignal DEF NoneAdded, Backend!refreshFailed
<1>4. CASE /\ Backend!publish(shot) /\ watchers' = watchers \ {w}
           /\ UNCHANGED <<deferred, generation>>
  <2> DEFINE f == [i \in DOMAIN completions |-> Backend!Verdict(completions[i], ids')]
             e == [signal |-> "snapshotChanged", available |-> TRUE, ids |-> ids', world |-> shot]
  <2>1. Len(completions) \in Nat /\ DOMAIN completions = 1..Len(completions)
    BY Lengths DEF IInv, Sequences3
  <2>2. IsSequence(f)
    <3> DEFINE T == {Backend!Verdict(completions[i], ids') : i \in DOMAIN completions}
    <3>1. \A i \in 1..Len(completions) : Backend!Verdict(completions[i], ids') \in T
      BY <2>1
    <3>2. f = [i \in 1..Len(completions) |-> Backend!Verdict(completions[i], ids')]
      BY <2>1
    <3> HIDE DEF T
    <3>3. f \in Seq(T)
      BY <2>1, <3>1, <3>2
    <3> QED
      BY <3>3, SequenceOf
  <2>3. DOMAIN f = DOMAIN completions
    OBVIOUS
  <2>4. \A i \in DOMAIN f :
          f[i].signal = "operationFinished" /\ f[i].call = completions[i].call
    BY DEF Backend!Verdict, Backend!Finished, IInv, Known
  <2>5. emitted' = <<e>> \o f /\ completions' = <<>>
    BY <1>4 DEF Backend!publish
  <2>6. e.signal = "snapshotChanged"
    OBVIOUS
  <2>7. NoneAdded /\ \A x \in watchers : x.kind = "operation" => x \in watchers'
    BY <1>4 DEF NoneAdded
  <2> HIDE DEF e, f
  <2> QED
    BY <1>4, <2>2, <2>3, <2>4, <2>5, <2>6, <2>7, PublishedKeeps
<1> QED
  BY <1>1, <1>2, <1>3, <1>4 DEF Backend!refreshReply

LEMMA OperationAnsweredKeeps ==
  ASSUME IInv, UNCHANGED controllerVars, emitted = <<>>,
         NEW w \in watchers, w.kind = "operation", NEW error, NEW version,
         Backend!operationReply(w, error, version)
  PROVE  IInv'
<1>1. CASE w.generation # generation /\ Backend!Dropped(w)
  BY <1>1, DroppedKeeps
<1>2. CASE ~(w.generation # generation /\ Backend!Dropped(w))
  <2> DEFINE s == Backend!Verdict(Backend!Finished(w.call, error, version), ids)
  <2>1. s.call = w.call /\ s.signal = "operationFinished"
    BY DEF Backend!Verdict, Backend!Finished
  <2>2. /\ completions' = Append(completions, s) /\ Backend!changed(watchers \ {w})
        /\ emitted' = <<>> /\ UNCHANGED deferred
    BY <1>2 DEF Backend!operationReply
  <2> HIDE DEF s
  <2>3. /\ UNCHANGED generation /\ NoneAdded /\ w \notin watchers'
        /\ \A x \in watchers : x.kind = "operation" /\ x # w => x \in watchers'
    BY <2>2 DEF NoneAdded, Backend!changed, Backend!refresh
  <2> QED
    BY <2>1, <2>2, <2>3, AnsweredKeeps
<1> QED
  BY <1>1, <1>2

LEMMA FiredKeeps ==
  ASSUME IInv, UNCHANGED controllerVars, emitted = <<>>,
         NEW w \in watchers, NEW m, Backend!Fired(w, m)
  PROVE  IInv'
BY OwnerAnsweredKeeps, RefreshAnsweredKeeps, OperationAnsweredKeeps DEF Backend!Fired

LEMMA SignalledKeeps ==
  ASSUME IInv, UNCHANGED controllerVars, emitted = <<>>, emitted' = <<>>,
         UNCHANGED <<completions, deferred>>,
         Backend!changed(watchers) \/ UNCHANGED <<watchers, generation>>
  PROVE  IInv'
<1>1. /\ UNCHANGED generation /\ NoneAdded /\ watchers \subseteq watchers'
  BY DEF NoneAdded, Backend!changed, Backend!refresh
<1> QED
  BY <1>1, QuieterKeeps

LEMMA DeliveredKeeps ==
  ASSUME IInv, UNCHANGED controllerVars, emitted = <<>>, Backend!Deliver
  PROVE  IInv'
<1> DEFINE m == Head(wire)
<1>1. CASE Backend!ownerChanged(m.owner)
  <2>1. CASE Backend!setOwner(m.owner, watchers)
    BY <2>1, OwnerSetKeeps
  <2>2. CASE emitted' = <<>> /\ UNCHANGED Backend!backendVars
    BY <2>2, SignalledKeeps DEF Backend!backendVars
  <2> QED
    BY <1>1, <2>1, <2>2 DEF Backend!ownerChanged
<1>2. CASE Backend!propertiesChanged(m.version)
  BY <1>2, SignalledKeeps
     DEF Backend!propertiesChanged, Backend!Unsubscribed, Backend!backendVars
<1>3. CASE Backend!interfacesRemoved(m.object, m.version)
  BY <1>3, SignalledKeeps
     DEF Backend!interfacesRemoved, Backend!Unsubscribed, Backend!backendVars
<1>4. CASE m.watcher \in watchers /\ Backend!Fired(m.watcher, m)
  BY <1>4, FiredKeeps
<1>5. CASE emitted' = <<>> /\ UNCHANGED Backend!backendVars
  BY <1>5, SignalledKeeps DEF Backend!backendVars
<1> QED
  BY <1>1, <1>2, <1>3, <1>4, <1>5 DEF Backend!Deliver

LEMMA BackendStepKeeps ==
  ASSUME IInv, BackendStep
  PROVE  IInv'
<1>1. emitted = <<>> /\ UNCHANGED controllerVars
  BY DEF BackendStep, Quiet
<1>2. CASE Backend!start
  BY <1>1, <1>2, QuieterKeeps DEF Backend!start, NoneAdded
<1>3. CASE Backend!reportDisappeared
  BY <1>1, <1>3, ReportedKeeps DEF Backend!reportDisappeared, Backend!Finished
<1>4. CASE Backend!Deliver
  BY <1>1, <1>4, DeliveredKeeps
<1>5. ASSUME NEW w \in watchers, Backend!LocalError(w)
      PROVE  IInv'
  BY <1>1, <1>5, FiredKeeps DEF Backend!LocalError
<1>6. CASE Backend!Daemon
  <2>1. Backend!Environment
    BY <1>6 DEF Backend!Daemon, Backend!Plug, Backend!Unplug, Backend!ToggleMount,
      Backend!HandleOwner, Backend!HandleRefresh, Backend!HandleOperation, Backend!Send,
      Backend!Launch, Backend!Crash
  <2> QED
    BY <1>1, <2>1, SignalledKeeps DEF Backend!Environment, Backend!backendVars
<1> QED
  BY <1>2, <1>3, <1>4, <1>5, <1>6 DEF BackendStep

-----------------------------------------------------------------------------
(* The steps of the controller: which calls are new. *)

(* What a handler may do to the calls, when "others" stay: one call is new  *)
(* at most, and no call of before equals it.                                *)
Issues(others) ==
  \/ calls' = others
  \/ \E n : n \notin calls /\ calls' = others \cup {n}

LEMMA FinishNumbers ==
  ASSUME Numbered, NEW R, NEW result, result # "none", calls' \subseteq calls,
         Controller!Finish(R, result)
  PROVE  Numbered' /\ pending' \subseteq pending
<1>1. /\ pending' = pending \ R
      /\ request' = [r \in RequestIds |-> IF r \in R THEN Controller!Blank ELSE request[r]]
      /\ outcome' = [r \in RequestIds |-> IF r \in R THEN result ELSE outcome[r]]
  BY DEF Controller!Finish
<1>2. Controller!Blank.issued \in Nat
  BY DEF Controller!Blank
<1> QED
  BY <1>1, <1>2 DEF Numbered

LEMMA ExecuteNumbers ==
  ASSUME Numbered, NEW r \in pending, NEW operation, NEW target, NEW final,
         NEW others, others \subseteq calls,
         Controller!Execute(r, operation, target, final, others)
  PROVE  Numbered' /\ pending' \subseteq pending /\ Issues(others)
<1> DEFINE n == [request |-> r, step |-> request[r].issued + 1,
                 operation |-> operation, target |-> target]
<1>1. r \in RequestIds /\ request[r].issued \in Nat
  BY DEF Numbered
<1>2. /\ calls' = others \cup {n} /\ UNCHANGED <<pending, outcome>>
      /\ DOMAIN request' = RequestIds
      /\ request'[r].issued = request[r].issued + 1
      /\ \A q \in RequestIds \ {r} : request'[q] = request[q]
  BY <1>1 DEF Controller!Execute, Numbered
<1>3. n.request = r /\ n.step = request[r].issued + 1
  OBVIOUS
<1> HIDE DEF n
<1>4. n \notin calls
  BY <1>1, <1>3 DEF Numbered
<1>5. \A q \in RequestIds : request'[q].issued \in Nat
  BY <1>1, <1>2 DEF Numbered
<1>6. \A c \in calls' :
        /\ c.request \in RequestIds /\ c.step \in Nat
        /\ IF c.request \in pending' THEN c.step <= request'[c.request].issued
                                     ELSE outcome'[c.request] # "none"
  <2> SUFFICES ASSUME NEW c \in calls'
               PROVE  /\ c.request \in RequestIds /\ c.step \in Nat
                      /\ IF c.request \in pending' THEN c.step <= request'[c.request].issued
                                                   ELSE outcome'[c.request] # "none"
    OBVIOUS
  <2>1. CASE c = n
    BY <1>1, <1>2, <1>3, <2>1
  <2>2. CASE c \in calls
    <3>1. CASE c.request = r
      BY <1>1, <1>2, <2>2, <3>1 DEF Numbered
    <3>2. CASE c.request # r
      BY <1>2, <2>2, <3>2 DEF Numbered
    <3> QED
      BY <3>1, <3>2
  <2> QED
    BY <1>2, <2>1, <2>2
<1>7. Numbered'
  BY <1>2, <1>5, <1>6 DEF Numbered
<1> QED
  BY <1>2, <1>4, <1>7 DEF Issues

LEMMA AdvanceNumbers ==
  ASSUME Numbered, NEW r \in pending, NEW others, others \subseteq calls,
         Controller!Advance(r, others)
  PROVE  Numbered' /\ pending' \subseteq pending /\ Issues(others)
<1>1. ASSUME NEW result, result # "none", Controller!FinishOne(r, result, others)
      PROVE  Numbered' /\ pending' \subseteq pending /\ Issues(others)
  BY <1>1, FinishNumbers DEF Controller!FinishOne, Issues
<1> QED
  BY <1>1, ExecuteNumbers DEF Controller!Advance

LEMMA TimerNumbers ==
  ASSUME Numbered, NEW t, Controller!Timer(t)
  PROVE  Numbered' /\ pending' \subseteq pending /\ Issues(calls)
<1>1. CASE UNCHANGED <<pending, request, outcome, calls>>
  BY <1>1 DEF Numbered, Issues
<1>2. CASE t.request \in pending /\ t.refusal # "none"
           /\ Controller!FinishOne(t.request, t.refusal, calls)
  BY <1>2, FinishNumbers DEF Controller!FinishOne, Issues
<1>3. CASE t.request \in pending /\ Controller!Advance(t.request, calls)
  BY <1>3, AdvanceNumbers
<1> QED
  BY <1>1, <1>2, <1>3 DEF Controller!Timer

LEMMA ReplyNumbers ==
  ASSUME Numbered, NEW c \in calls, NEW error, Controller!Reply(c, error)
  PROVE  Numbered' /\ pending' \subseteq pending /\ Issues(calls \ {c})
<1>1. CASE calls' = calls \ {c} /\ UNCHANGED <<pending, request, outcome>>
  BY <1>1 DEF Numbered, Issues
<1>2. ASSUME NEW result, result # "none", Controller!FinishOne(c.request, result, calls \ {c})
      PROVE  Numbered' /\ pending' \subseteq pending /\ Issues(calls \ {c})
  BY <1>2, FinishNumbers DEF Controller!FinishOne, Issues
<1>3. CASE c.request \in pending /\ Controller!Advance(c.request, calls \ {c})
  BY <1>3, AdvanceNumbers
<1> QED
  BY <1>1, <1>2, <1>3 DEF Controller!Reply

LEMMA BeginNumbers ==
  ASSUME Numbered, NEW r \in RequestIds, NEW operation, NEW target, NEW confirmed,
         Controller!Begin(r, operation, target, confirmed)
  PROVE  Numbered' /\ calls' = calls /\ (\A c \in calls : c.request \in pending' => c.request \in pending)
<1>1. /\ r \notin pending /\ outcome[r] = "none" /\ pending' = pending \cup {r}
      /\ UNCHANGED <<calls, outcome>>
      /\ DOMAIN request' = RequestIds /\ request'[r].issued = 0
      /\ \A q \in RequestIds \ {r} : request'[q] = request[q]
  BY DEF Controller!Begin, Numbered
<1>2. \A c \in calls : c.request # r
  BY <1>1 DEF Numbered
<1>3. \A q \in RequestIds : request'[q].issued \in Nat
  BY <1>1 DEF Numbered
<1> QED
  BY <1>1, <1>2, <1>3 DEF Numbered

-----------------------------------------------------------------------------
(* The steps of the controller: where the calls are. *)

(* The places in the backend of the calls of before, and of a new one. *)
Stays(c) ==
  /\ InWatchers(c)' = InWatchers(c) /\ InCompletions(c)' = InCompletions(c)
  /\ InDeferred(c)' = InDeferred(c)

Enters(n) ==
  /\ InCompletions(n)' = {} /\ Single(InWatchers(n)') /\ Single(InDeferred(n)')
  /\ \/ /\ \E w \in InWatchers(n)' : w.generation = generation'
        /\ InDeferred(n)' = {}
     \/ InWatchers(n)' = {} /\ InDeferred(n)' # {}

LEMMA ExecutePlaces ==
  ASSUME IInv, NEW n, n \notin calls, Backend!execute(n)
  PROVE  /\ \A c \in calls : Stays(c)
         /\ Enters(n)
         /\ IsSequence(completions') /\ IsSequence(deferred')
         /\ \A w \in watchers' : w.kind = "operation" => w.call \in calls \cup {n}
         /\ UNCHANGED <<completions, generation>>
         /\ \A i \in DOMAIN deferred' : deferred'[i] \in calls \cup {n}
<1>1. /\ UNCHANGED <<completions, generation>>
      /\ \/ deferred' = Append(deferred, n) /\ UNCHANGED watchers
         \/ /\ UNCHANGED deferred
            /\ \E o : watchers' = watchers \cup
                 {[kind |-> "operation", generation |-> generation, revision |-> 0,
                   to |-> owner, object |-> o, call |-> n]}
  BY DEF Backend!execute
<1>2. /\ InWatchers(n) = {} /\ InCompletions(n) = {} /\ InDeferred(n) = {}
      /\ InCompletions(n)' = {} /\ \A c \in calls : InCompletions(c)' = InCompletions(c)
  BY <1>1 DEF IInv, Known, InWatchers, InCompletions, InDeferred
<1>3. IsSequence(completions') /\ IsSequence(deferred) /\ IsSequence(completions)
  BY <1>1 DEF IInv, Sequences3
<1>4. CASE deferred' = Append(deferred, n) /\ UNCHANGED watchers
  <2>1. /\ IsSequence(deferred')
        /\ DOMAIN deferred' = (DOMAIN deferred) \cup {Len(deferred) + 1}
        /\ Len(deferred) + 1 \notin DOMAIN deferred
        /\ \A i \in DOMAIN deferred : deferred'[i] = deferred[i]
        /\ deferred'[Len(deferred) + 1] = n
    BY <1>3, <1>4, AppendedSequence
  <2>2. InDeferred(n)' = {Len(deferred) + 1}
    BY <1>2, <2>1 DEF InDeferred
  <2>3. InWatchers(n)' = {}
    BY <1>2, <1>4 DEF InWatchers
  <2>4. ASSUME NEW c \in calls
        PROVE  InWatchers(c)' = InWatchers(c) /\ InDeferred(c)' = InDeferred(c)
    BY <1>4, <2>1 DEF InWatchers, InDeferred
  <2>5. Enters(n)
    BY <1>2, <2>2, <2>3 DEF Enters, Single
  <2>6. /\ \A w \in watchers' : w.kind = "operation" => w.call \in calls \cup {n}
        /\ \A i \in DOMAIN deferred' : deferred'[i] \in calls \cup {n}
    BY <1>4, <2>1 DEF IInv, Known
  <2> QED
    BY <1>1, <1>2, <1>3, <2>1, <2>4, <2>5, <2>6 DEF Stays
<1>5. ASSUME UNCHANGED deferred,
             NEW o, watchers' = watchers \cup
               {[kind |-> "operation", generation |-> generation, revision |-> 0,
                 to |-> owner, object |-> o, call |-> n]}
      PROVE  /\ \A c \in calls : Stays(c)
             /\ Enters(n)
             /\ \A w \in watchers' : w.kind = "operation" => w.call \in calls \cup {n}
             /\ \A i \in DOMAIN deferred' : deferred'[i] \in calls \cup {n}
  <2> DEFINE w == [kind |-> "operation", generation |-> generation, revision |-> 0,
                   to |-> owner, object |-> o, call |-> n]
  <2>1. watchers' = watchers \cup {w} /\ w.kind = "operation" /\ w.call = n
        /\ w.generation = generation
    BY <1>5
  <2> HIDE DEF w
  <2>2. InWatchers(n)' = {w} /\ InDeferred(n)' = {}
    BY <1>2, <1>5, <2>1 DEF InWatchers, InDeferred
  <2>3. ASSUME NEW c \in calls
        PROVE  InWatchers(c)' = InWatchers(c) /\ InDeferred(c)' = InDeferred(c)
    BY <1>5, <2>1 DEF InWatchers, InDeferred
  <2>4. Enters(n)
    BY <1>1, <1>2, <2>1, <2>2 DEF Enters, Single
  <2>5. /\ \A x \in watchers' : x.kind = "operation" => x.call \in calls \cup {n}
        /\ \A i \in DOMAIN deferred' : deferred'[i] \in calls \cup {n}
    BY <1>5, <2>1 DEF IInv, Known
  <2> QED
    BY <1>2, <2>3, <2>4, <2>5 DEF Stays
<1> QED
  BY <1>1, <1>3, <1>4, <1>5

(* What is emitted is handled from the front. *)
LEMMA SignalTaken ==
  ASSUME IInv, emitted # <<>>, emitted' = Tail(emitted)
  PROVE  /\ IsSequence(emitted')
         /\ \A i \in DOMAIN emitted' :
              emitted'[i].signal = "operationFinished" => emitted'[i].call \in calls
         /\ \A c \in calls : Single(InEmitted(c)') /\ (InEmitted(c)' # {} => InEmitted(c) # {})
         /\ \A c : (InEmitted(c) # {} /\ c # Head(emitted).call) => InEmitted(c)' # {}
         /\ Head(emitted).signal = "operationFinished" => Head(emitted).call \in calls
         /\ \A c : (Head(emitted).signal = "operationFinished" /\ c = Head(emitted).call) =>
              InEmitted(c)' = {}
         /\ Head(emitted).signal # "operationFinished" =>
              \A c : InEmitted(c) # {} => InEmitted(c)' # {}
         /\ Withdrawn =>
              \/ Withdrawn'
              \/ Head(emitted).signal = "snapshotChanged" /\ ~Head(emitted).available
<1>1. IsSequence(emitted)
  BY DEF IInv, Sequences3
<1>2. /\ IsSequence(emitted')
      /\ 1 \in DOMAIN emitted /\ Head(emitted) = emitted[1]
      /\ \A i \in DOMAIN emitted' :
           i + 1 \in DOMAIN emitted /\ emitted'[i] = emitted[i + 1] /\ i + 1 # 1
      /\ \A i \in DOMAIN emitted :
           i # 1 => i - 1 \in DOMAIN emitted' /\ emitted'[i - 1] = emitted[i]
      /\ \A i, j \in DOMAIN emitted' : i + 1 = j + 1 => i = j
  BY <1>1, TakenSequence
<1>3. \A c : \A i \in InEmitted(c)' : i \in DOMAIN emitted' /\ i + 1 \in InEmitted(c) /\ i + 1 # 1
  BY <1>2 DEF InEmitted
<1>4. \A c : \A i \in InEmitted(c) : i = 1 \/ i - 1 \in InEmitted(c)'
  BY <1>2 DEF InEmitted
<1>5. \A i \in DOMAIN emitted' :
        emitted'[i].signal = "operationFinished" => emitted'[i].call \in calls
  BY <1>2 DEF IInv, Known
<1>6. ASSUME NEW c \in calls
      PROVE  Single(InEmitted(c)') /\ (InEmitted(c)' # {} => InEmitted(c) # {})
  <2>1. \A i, j \in InEmitted(c) : i = j
    BY DEF IInv, Alone, Single
  <2>2. \A i, j \in InEmitted(c)' : i + 1 = j + 1
    BY <1>3, <2>1
  <2> QED
    BY <1>2, <1>3, <2>2 DEF Single
<1>7. \A c : 1 \in InEmitted(c) => c = Head(emitted).call /\ Head(emitted).signal = "operationFinished"
  BY <1>2 DEF InEmitted
<1>8. ASSUME Head(emitted).signal = "operationFinished", NEW c, c = Head(emitted).call
      PROVE  c \in calls /\ InEmitted(c)' = {}
  <2>1. c \in calls /\ 1 \in InEmitted(c)
    BY <1>2, <1>8 DEF IInv, Known, InEmitted
  <2>2. \A i, j \in InEmitted(c) : i = j
    BY <2>1 DEF IInv, Alone, Single
  <2>3. \A i \in InEmitted(c)' : FALSE
    BY <1>3, <2>1, <2>2
  <2> QED
    BY <2>1, <2>3
<1>9. Withdrawn =>
        \/ Withdrawn'
        \/ Head(emitted).signal = "snapshotChanged" /\ ~Head(emitted).available
  <2> SUFFICES ASSUME NEW i \in DOMAIN emitted,
                      emitted[i].signal = "snapshotChanged", ~emitted[i].available
               PROVE  \/ Withdrawn'
                      \/ Head(emitted).signal = "snapshotChanged" /\ ~Head(emitted).available
    BY DEF Withdrawn
  <2>1. CASE i = 1
    BY <1>2, <2>1
  <2>2. CASE i # 1
    <3>1. i - 1 \in DOMAIN emitted' /\ emitted'[i - 1] = emitted[i]
      BY <1>2, <2>2
    <3> QED
      BY <3>1 DEF Withdrawn
  <2> QED
    BY <2>1, <2>2
<1> QED
  BY <1>2, <1>4, <1>5, <1>6, <1>7, <1>8, <1>9

-----------------------------------------------------------------------------
(* The invariant. *)

(* A handler of the controller after which "others" are still unanswered.   *)
LEMMA ControllerKeeps ==
  ASSUME IInv, Numbered', \A c \in calls : c.request \in pending' => c.request \in pending,
         NEW others, others \subseteq calls, Issues(others),
         IF calls' \subseteq calls THEN UNCHANGED backendVars
         ELSE \A c \in calls' \ calls : Backend!execute(c),
         \A c \in calls \ others :
           InWatchers(c) = {} /\ InCompletions(c) = {} /\ InDeferred(c) = {},
         IsSequence(emitted'),
         \A i \in DOMAIN emitted' :
           emitted'[i].signal = "operationFinished" => emitted'[i].call \in others,
         \A c \in others : Single(InEmitted(c)') /\ (InEmitted(c)' # {} <=> InEmitted(c) # {}),
         Withdrawn => Withdrawn' \/ pending' = {}
  PROVE  IInv'
<1>1. ASSUME NEW c \in others, c.request \in pending', Stays(c), UNCHANGED generation
      PROVE  Kept(c)'
  <2>1. Kept(c)
    BY <1>1 DEF IInv
  <2>2. CASE \E w \in InWatchers(c) : w.generation = generation
    BY <1>1, <2>2 DEF Stays, Kept
  <2>3. CASE InCompletions(c) # {} \/ InDeferred(c) # {} \/ InEmitted(c) # {}
    BY <1>1, <2>3 DEF Stays, Kept
  <2>4. CASE Withdrawn
    BY <1>1, <2>4 DEF Kept
  <2> QED
    BY <2>1, <2>2, <2>3, <2>4 DEF Kept
<1>2. ASSUME NEW c \in others, Stays(c)
      PROVE  Alone(c)'
  <2>1. Alone(c)
    BY DEF IInv
  <2> QED
    BY <1>2, <2>1 DEF Stays, Alone, Single
<1>3. CASE calls' = others
  <2>1. UNCHANGED <<watchers, completions, deferred, generation>>
    BY <1>3 DEF backendVars
  <2>2. \A c \in calls : Stays(c)
    BY <2>1 DEF Stays, InWatchers, InCompletions, InDeferred
  <2>3. Sequences3'
    BY <2>1 DEF IInv, Sequences3
  <2>4. Known'
    BY <1>3, <2>1 DEF IInv, Known, InWatchers, InCompletions, InDeferred
  <2> QED
    BY <1>1, <1>2, <1>3, <2>1, <2>2, <2>3, <2>4 DEF IInv
<1>4. ASSUME NEW n, n \notin calls, calls' = others \cup {n}
      PROVE  IInv'
  <2>1. Backend!execute(n)
    BY <1>4
  <2>2. /\ \A c \in calls : Stays(c)
        /\ Enters(n)
        /\ IsSequence(completions') /\ IsSequence(deferred')
        /\ \A w \in watchers' : w.kind = "operation" => w.call \in calls \cup {n}
        /\ UNCHANGED <<completions, generation>>
        /\ \A i \in DOMAIN deferred' : deferred'[i] \in calls \cup {n}
    BY <1>4, <2>1, ExecutePlaces
  <2>3. Sequences3'
    BY <2>2 DEF Sequences3
  <2>4. ASSUME NEW c \in calls \ others
        PROVE  InWatchers(c)' = {} /\ InCompletions(c)' = {} /\ InDeferred(c)' = {}
    BY <2>2 DEF Stays
  <2>5. Known'
    <3>1. \A w \in watchers' : w.kind = "operation" => w.call \in calls'
      BY <1>4, <2>2, <2>4 DEF InWatchers
    <3>2. \A i \in DOMAIN deferred' : deferred'[i] \in calls'
      BY <1>4, <2>2, <2>4 DEF InDeferred
    <3>3. \A i \in DOMAIN completions' :
            completions'[i].signal = "operationFinished" /\ completions'[i].call \in calls'
      BY <1>4, <2>2, <2>4 DEF IInv, Known, InCompletions
    <3> QED
      BY <1>4, <3>1, <3>2, <3>3 DEF Known
  <2>6. InEmitted(n)' = {}
    BY <1>4 DEF InEmitted
  <2>7. Alone(n)' /\ Kept(n)'
    BY <2>2, <2>6 DEF Enters, Alone, Single, Kept
  <2>8. \A c \in calls' : Alone(c)'
    BY <1>2, <1>4, <2>2, <2>7
  <2>9. \A c \in calls' : c.request \in pending' => Kept(c)'
    BY <1>1, <1>4, <2>2, <2>7
  <2> QED
    BY <2>3, <2>5, <2>8, <2>9 DEF IInv
<1> QED
  BY <1>3, <1>4 DEF Issues

LEMMA InitKeeps == Init => IInv
<1> SUFFICES ASSUME Init
             PROVE  IInv
  OBVIOUS
<1>1. /\ completions = <<>> /\ deferred = <<>> /\ emitted = <<>> /\ watchers = {}
  BY DEF Init, Backend!Init
<1>2. /\ calls = {} /\ pending = {}
      /\ request = [r \in RequestIds |-> Controller!Blank]
      /\ outcome = [r \in RequestIds |-> "none"]
  BY DEF Init, Controller!Init
<1>3. Controller!Blank.issued \in Nat
  BY DEF Controller!Blank
<1>4. Numbered
  BY <1>2, <1>3 DEF Numbered
<1>5. Sequences3 /\ Known
  BY <1>1, EmptySequence DEF Sequences3, Known
<1> QED
  BY <1>2, <1>4, <1>5 DEF IInv

LEMMA ReceivedKeeps ==
  ASSUME IInv, Received
  PROVE  IInv'
<1> DEFINE s == Head(emitted)
<1>1. emitted # <<>> /\ emitted' = Tail(emitted)
  BY DEF Received
<1>2. /\ IsSequence(emitted')
      /\ \A i \in DOMAIN emitted' :
           emitted'[i].signal = "operationFinished" => emitted'[i].call \in calls
      /\ \A c \in calls : Single(InEmitted(c)') /\ (InEmitted(c)' # {} => InEmitted(c) # {})
      /\ \A c : (InEmitted(c) # {} /\ c # Head(emitted).call) => InEmitted(c)' # {}
      /\ Head(emitted).signal = "operationFinished" => Head(emitted).call \in calls
      /\ \A c : (Head(emitted).signal = "operationFinished" /\ c = Head(emitted).call) =>
           InEmitted(c)' = {}
      /\ Head(emitted).signal # "operationFinished" =>
           \A c : InEmitted(c) # {} => InEmitted(c)' # {}
      /\ Withdrawn =>
           \/ Withdrawn'
           \/ Head(emitted).signal = "snapshotChanged" /\ ~Head(emitted).available
  BY <1>1, SignalTaken
<1>3. CASE /\ s.signal = "snapshotChanged" /\ UNCHANGED backendVars
           /\ IF s.available THEN Controller!Snapshot(TopologyOf(s)) ELSE Controller!Disconnect
  <2>1. CASE s.available /\ Controller!Snapshot(TopologyOf(s))
    <3>1. UNCHANGED <<calls, pending, request, outcome>>
      BY <2>1 DEF Controller!Snapshot
    <3>2. Numbered'
      BY <3>1 DEF IInv, Numbered
    <3>3. Issues(calls)
      BY <3>1 DEF Issues
    <3> QED
      BY <1>2, <1>3, <2>1, <3>1, <3>2, <3>3, ControllerKeeps
  <2>2. CASE Controller!Disconnect
    <3>1. calls' = calls /\ pending' = {}
      BY <2>2 DEF Controller!Disconnect, Controller!Finish
    <3>2. Numbered'
      BY <2>2, <3>1, FinishNumbers DEF Controller!Disconnect, IInv
    <3>3. Issues(calls)
      BY <3>1 DEF Issues
    <3> QED
      BY <1>2, <1>3, <3>1, <3>2, <3>3, ControllerKeeps
  <2> QED
    BY <1>3, <2>1, <2>2
<1>4. CASE /\ s.signal = "operationFinished"
           /\ Executed(Controller!Reply(s.call, IF s.error = "none" THEN "none" ELSE "Upstream"))
  <2> DEFINE c == s.call
             others == calls \ {c}
  <2>1. c \in calls
    BY <1>2, <1>4
  <2>2. /\ Controller!Reply(c, IF s.error = "none" THEN "none" ELSE "Upstream")
        /\ IF calls' \subseteq calls THEN UNCHANGED backendVars
           ELSE \A e \in calls' \ calls : Backend!execute(e)
    BY <1>4 DEF Executed
  <2>3. Numbered' /\ pending' \subseteq pending /\ Issues(others)
    BY <2>1, <2>2, ReplyNumbers DEF IInv
  <2>4. InEmitted(c) # {}
    <3>1. 1 \in DOMAIN emitted /\ s = emitted[1]
      BY <1>1, TakenSequence DEF IInv, Sequences3
    <3> QED
      BY <1>4, <3>1 DEF InEmitted
  <2>5. \A e \in calls \ others :
          InWatchers(e) = {} /\ InCompletions(e) = {} /\ InDeferred(e) = {}
    BY <2>1, <2>4 DEF IInv, Alone
  <2>6. \A i \in DOMAIN emitted' :
          emitted'[i].signal = "operationFinished" => emitted'[i].call \in others
    BY <1>2, <1>4 DEF InEmitted
  <2>7. Withdrawn => Withdrawn'
    BY <1>2, <1>4
  <2>8. \A e \in others : Single(InEmitted(e)') /\ (InEmitted(e)' # {} <=> InEmitted(e) # {})
    BY <1>2
  <2> QED
    BY <1>2, <2>2, <2>3, <2>5, <2>6, <2>7, <2>8, ControllerKeeps
<1> QED
  BY <1>3, <1>4 DEF Received

(* A handler that starts while nothing is emitted.                          *)
LEMMA QuietControllerKeeps ==
  ASSUME IInv, Quiet, emitted' = emitted,
         Numbered', \A c \in calls : c.request \in pending' => c.request \in pending,
         NEW others, others \subseteq calls, Issues(others),
         IF calls' \subseteq calls THEN UNCHANGED backendVars
         ELSE \A c \in calls' \ calls : Backend!execute(c),
         \A c \in calls \ others :
           InWatchers(c) = {} /\ InCompletions(c) = {} /\ InDeferred(c) = {}
  PROVE  IInv'
<1>1. emitted = <<>> /\ emitted' = <<>>
  BY DEF Quiet
<1>2. IsSequence(emitted') /\ DOMAIN emitted' = {}
  BY <1>1, EmptySequence
<1>3. \A c \in calls : InEmitted(c) = {} /\ InEmitted(c)' = {} /\ ~Withdrawn
  BY <1>1, NothingEmitted, NothingEmittedNext
<1>4. \A c \in others : Single(InEmitted(c)') /\ (InEmitted(c)' # {} <=> InEmitted(c) # {})
  BY <1>3 DEF Single
<1>5. ~Withdrawn
  BY <1>1, NothingEmitted
<1> QED
  BY <1>2, <1>4, <1>5, ControllerKeeps

LEMMA StepKeeps == IInv /\ [Next]_vars => IInv'
<1> SUFFICES ASSUME IInv, [Next]_vars
             PROVE  IInv'
  OBVIOUS
<1>1. CASE Received
  BY <1>1, ReceivedKeeps
<1>2. CASE Asked
  <2>1. Quiet /\ UNCHANGED <<backendVars, emitted>>
    BY <1>2 DEF Asked
  <2>2. PICK r \in RequestIds : \E operation, target, confirmed :
          Controller!Begin(r, operation, target, confirmed)
    BY <1>2 DEF Asked
  <2>3. /\ Numbered' /\ calls' = calls
        /\ \A c \in calls : c.request \in pending' => c.request \in pending
    BY <2>2, BeginNumbers DEF IInv
  <2>4. Issues(calls)
    BY <2>3 DEF Issues
  <2> QED
    BY <2>1, <2>3, <2>4, QuietControllerKeeps
<1>3. CASE Posted
  <2>1. Quiet /\ emitted' = emitted
    BY <1>3 DEF Posted
  <2>2. PICK t \in timers : Executed(Controller!Timer(t))
    BY <1>3 DEF Posted
  <2>3. /\ Controller!Timer(t)
        /\ IF calls' \subseteq calls THEN UNCHANGED backendVars
           ELSE \A c \in calls' \ calls : Backend!execute(c)
    BY <2>2 DEF Executed
  <2>4. Numbered' /\ pending' \subseteq pending /\ Issues(calls)
    BY <2>3, TimerNumbers DEF IInv
  <2> QED
    BY <2>1, <2>3, <2>4, QuietControllerKeeps
<1>4. CASE Forgotten
  <2>1. /\ Quiet /\ emitted' = emitted /\ UNCHANGED backendVars
        /\ UNCHANGED <<pending, request, outcome>>
    BY <1>4 DEF Forgotten
  <2>2. PICK c \in calls : Places(c) = {} /\ calls' = calls \ {c}
    BY <1>4 DEF Forgotten
  <2>3. InWatchers(c) = {} /\ InCompletions(c) = {} /\ InDeferred(c) = {}
    BY <2>2 DEF Places, InWatchers, InCompletions, InDeferred
  <2>4. Numbered' /\ Issues(calls \ {c})
    BY <2>1, <2>2 DEF IInv, Numbered, Issues
  <2> QED
    BY <2>1, <2>2, <2>3, <2>4, QuietControllerKeeps
<1>5. CASE BackendStep
  BY <1>5, BackendStepKeeps
<1>6. CASE UNCHANGED vars
  <2>1. UNCHANGED <<pending, request, outcome, calls>> /\ UNCHANGED backendVars /\ emitted' = emitted
    BY <1>6 DEF vars, controllerVars
  <2>2. Numbered' /\ Issues(calls)
    BY <2>1 DEF IInv, Numbered, Issues
  <2>3. \A c \in calls : InEmitted(c)' = InEmitted(c) /\ Single(InEmitted(c))
    BY <2>1 DEF InEmitted, IInv, Alone
  <2>4. Withdrawn' <=> Withdrawn
    BY <2>1 DEF Withdrawn
  <2>5. /\ IsSequence(emitted')
        /\ \A i \in DOMAIN emitted' :
             emitted'[i].signal = "operationFinished" => emitted'[i].call \in calls
    BY <2>1 DEF IInv, Sequences3, Known
  <2> QED
    BY <2>1, <2>2, <2>3, <2>4, <2>5, ControllerKeeps
<1> QED
  BY <1>1, <1>2, <1>3, <1>4, <1>5, <1>6 DEF Next

LEMMA InOnePlace == IInv => CallsInOnePlace
<1> SUFFICES ASSUME IInv, Quiet, NEW c \in calls
             PROVE  /\ c.request \in pending => Places(c) # {}
                    /\ \A p, q \in Places(c) : p = q
  BY DEF CallsInOnePlace
<1>1. ~Withdrawn /\ InEmitted(c) = {}
  BY NothingEmitted DEF Quiet
<1>2. Places(c) = {<<"watcher", w>> : w \in InWatchers(c)}
                    \cup {<<"completed", i>> : i \in InCompletions(c)}
                    \cup {<<"deferred", i>> : i \in InDeferred(c)}
  BY DEF Places, InWatchers, InCompletions, InDeferred
<1>3. Alone(c) /\ (c.request \in pending => Kept(c))
  BY DEF IInv
<1>4. c.request \in pending => Places(c) # {}
  BY <1>1, <1>2, <1>3 DEF Kept
<1>5. \A p, q \in Places(c) : p = q
  BY <1>2, <1>3 DEF Alone, Single
<1> QED
  BY <1>4, <1>5

(* Where each call is, in every state (advance(), execute(), refresh()).    *)
THEOREM ServiceInvariant == Spec => []IInv
BY InitKeeps, StepKeeps, PTL DEF Spec

(* Each call of an open request is kept in one place, so it is answered     *)
(* once, across owner changes, failed refreshes and retired ids.            *)
THEOREM EachCallOnce == Spec => []CallsInOnePlace
BY ServiceInvariant, InOnePlace, PTL

-----------------------------------------------------------------------------
(* The second invariant: what is on its way. *)

LEMMA JoinedSequence ==
  ASSUME NEW q, IsSequence(q), NEW r, IsSequence(r)
  PROVE  IsSequence(q \o r) /\ RepliesIn(q \o r) \subseteq RepliesIn(q) \cup RepliesIn(r)
<1> DEFINE S == {q[i] : i \in DOMAIN q}
           T == {r[i] : i \in DOMAIN r}
           U == S \cup T
           p == q \o r
<1>1. /\ q \in Seq(S) /\ Len(q) \in Nat /\ DOMAIN q = 1..Len(q)
      /\ r \in Seq(T) /\ Len(r) \in Nat /\ DOMAIN r = 1..Len(r)
  BY DEF IsSequence
<1>2. q \in Seq(U) /\ r \in Seq(U)
  <2>1. (\A i \in 1..Len(q) : q[i] \in U) /\ (\A i \in 1..Len(r) : r[i] \in U)
    BY <1>1
  <2> QED
    BY <1>1, <2>1
<1> HIDE DEF S, T, U
<1>3. /\ p \in Seq(U) /\ Len(p) = Len(q) + Len(r) /\ DOMAIN p = 1..(Len(q) + Len(r))
      /\ \A i \in 1..(Len(q) + Len(r)) : p[i] = IF i <= Len(q) THEN q[i] ELSE r[i - Len(q)]
  BY <1>1, <1>2
<1> HIDE DEF p
<1>4. IsSequence(p)
  BY <1>3, SequenceOf
<1>5. ASSUME NEW i \in DOMAIN p
      PROVE  \/ i \in DOMAIN q /\ p[i] = q[i]
             \/ i - Len(q) \in DOMAIN r /\ p[i] = r[i - Len(q)]
  BY <1>1, <1>3
<1>6. RepliesIn(p) \subseteq RepliesIn(q) \cup RepliesIn(r)
  BY <1>5 DEF RepliesIn
<1> QED
  BY <1>4, <1>6 DEF p

LEMMA AppendedReplies ==
  ASSUME NEW q, IsSequence(q), NEW e
  PROVE  IsSequence(Append(q, e)) /\ RepliesIn(Append(q, e)) \subseteq RepliesIn(q) \cup {e}
BY AppendedSequence DEF RepliesIn

LEMMA TakenReplies ==
  ASSUME NEW q, IsSequence(q), q # <<>>
  PROVE  /\ IsSequence(Tail(q)) /\ RepliesIn(Tail(q)) \subseteq RepliesIn(q)
         /\ Head(q).kind = "reply" => Head(q) \in RepliesIn(q)
BY TakenSequence DEF RepliesIn

LEMMA SingleReplies ==
  ASSUME NEW e
  PROVE  IsSequence(<<e>>) /\ RepliesIn(<<e>>) \subseteq {e}
BY SingleSequence DEF RepliesIn

LEMMA BackendFinite ==
  ASSUME NEW S
  PROVE  Backend!IsFiniteSet(S) => IsFiniteSet(S)
BY DEF IsFiniteSet, Backend!IsFiniteSet

LEMMA SignalsAreNone ==
  ASSUME NEW removed \in SUBSET Backend!Objects, NEW version
  PROVE  /\ IsSequence(Backend!Signals(removed, version))
         /\ RepliesIn(Backend!Signals(removed, version)) = {}
<1>1. CASE removed = {}
  <2> DEFINE e == [kind |-> "changed", version |-> version]
  <2>1. Backend!Signals(removed, version) = <<e>> /\ e.kind # "reply"
    BY <1>1 DEF Backend!Signals
  <2> HIDE DEF e
  <2> QED
    BY <2>1, SingleSequence DEF RepliesIn
<1>2. CASE removed # {}
  <2> DEFINE n == Backend!Cardinality(removed)
             signal(i) == [kind |-> "removed", object |-> Backend!SetToSeq(removed)[i],
                           version |-> version]
             T == {signal(i) : i \in 1..n}
             s == Backend!Signals(removed, version)
  <2>1. n \in Nat
    <3>1. IsFiniteSet(Backend!Objects)
      BY BackendFinite, ServiceConstants DEF Backend!BackendConstants
    <3>2. IsFiniteSet(removed)
      BY <3>1, FS_Subset
    <3>3. Backend!Cardinality(removed) = Cardinality(removed)
      BY DEF Cardinality, Backend!Cardinality
    <3> QED
      BY <3>2, <3>3, FS_CardinalityType
  <2>2. s = [i \in 1..n |-> signal(i)]
    BY <1>2 DEF Backend!Signals
  <2>3. \A i \in 1..n : s[i] = signal(i) /\ s[i].kind = "removed"
    BY <2>2
  <2>4. \A i \in 1..n : signal(i) \in T
    OBVIOUS
  <2> HIDE DEF n, signal, T, s
  <2>5. s \in Seq(T) /\ DOMAIN s = 1..n
    BY <2>1, <2>2, <2>4
  <2>6. IsSequence(s) /\ RepliesIn(s) = {}
    BY <2>3, <2>5, SequenceOf DEF RepliesIn
  <2> QED
    BY <2>6 DEF s
<1> QED
  BY <1>1, <1>2

(* A reply that the daemon sends in answer to a call. *)
Answering(m) ==
  /\ m.watcher \in sent /\ m.version \in Nat /\ m.version <= world'.version /\ Sound(m.world)
  /\ m.watcher.kind = "refresh" => world.version <= m.world.version

LEMMA EnvironmentLists ==
  ASSUME SInv, emitted = <<>>, UNCHANGED controllerVars, Backend!Environment,
         Sound(world)', world.version <= world'.version,
         IsSequence(wire'), \A h \in held' : IsSequence(h), sent' \subseteq sent,
         \A m \in Replies' : m \in Replies \/ Answering(m)
  PROVE  SInv'
<1>1. /\ emitted' = <<>> /\ UNCHANGED <<generation, revision, completions, ids, minted, shown>>
      /\ UNCHANGED <<topology, pending, asked>>
  BY DEF Backend!Environment, Backend!backendVars, Backend!historyVars, controllerVars
<1>2. world.version \in Nat /\ world'.version \in Nat
  BY DEF SInv, Sound
<1>3. Identified' /\ Sound(shown)' /\ (topology \in Snapshots)'
  BY <1>1 DEF SInv, Identified, Sound
<1>4. Travelling'
  <2>1. generation \in Nat /\ revision \in Nat /\ UNCHANGED <<generation, revision>>
    BY <1>1 DEF SInv, Travelling
  <2>2. \A m \in Replies' : m.version \in Nat /\ m.version <= world'.version /\ Sound(m.world)
    BY <1>2 DEF SInv, Travelling, Answering
  <2>3. \A w \in sent' \cup {m.watcher : m \in Replies'} :
          w \in sent \cup {m.watcher : m \in Replies}
    BY DEF Answering
  <2> QED
    BY <2>1, <2>2, <2>3 DEF SInv, Travelling, Sound
<1>5. Awaited'
  <2> SUFFICES ASSUME NEW i \in DOMAIN completions
               PROVE  /\ completions[i].version \in Nat /\ completions[i].version <= world'.version
                      /\ \A m \in Replies' :
                           (/\ m.watcher.kind = "refresh" /\ m.error = "none"
                            /\ m.watcher.generation = generation
                            /\ m.watcher.revision = revision) =>
                              completions[i].version <= m.world.version
    BY <1>1 DEF Awaited
  <2>1. completions[i].version \in Nat /\ completions[i].version <= world.version
    BY DEF SInv, Awaited
  <2>2. \A m \in Replies' : m \in Replies \/ (m.watcher.kind = "refresh" =>
          m.world.version \in Nat /\ world.version <= m.world.version)
    BY DEF Answering, Sound
  <2> QED
    BY <1>2, <2>1, <2>2 DEF SInv, Awaited
<1>6. Emitted'
  BY <1>1, EmptySequence DEF Emitted
<1>7. MountsListed'
  BY <1>1 DEF SInv, MountsListed, Announcing
<1> QED
  BY <1>1, <1>3, <1>4, <1>5, <1>6, <1>7 DEF SInv

LEMMA WorldSound ==
  ASSUME Sound(world), NEW present, NEW mounted, NEW incarnation,
         present \subseteq Backend!Objects, mounted \subseteq present \cap Volumes
  PROVE  LET new == Backend!World(present, mounted, incarnation)
         IN Sound(new) /\ world.version <= new.version /\ new.present = present
BY DEF Sound, Backend!World

LEMMA ChangeLists ==
  ASSUME SInv, emitted = <<>>, UNCHANGED controllerVars, Backend!Environment,
         NEW present, NEW mounted, NEW incarnation,
         present \subseteq Backend!Objects, mounted \subseteq present \cap Volumes,
         Backend!Change(Backend!World(present, mounted, incarnation)),
         UNCHANGED <<sent, held>>
  PROVE  SInv'
<1> DEFINE new == Backend!World(present, mounted, incarnation)
<1>1. Sound(new) /\ world.version <= new.version /\ Sound(world)
  BY WorldSound DEF SInv
<1>2. /\ world' = new
      /\ wire' = IF instance = None THEN wire
                 ELSE wire \o Backend!Signals(world.present \ new.present, new.version)
  BY DEF Backend!Change
<1> HIDE DEF new
<1>3. IsSequence(wire) /\ \A h \in held : IsSequence(h)
  BY DEF SInv, Travelling
<1>4. /\ IsSequence(Backend!Signals(world.present \ new.present, new.version))
      /\ RepliesIn(Backend!Signals(world.present \ new.present, new.version)) = {}
  <2>1. world.present \ new.present \in SUBSET Backend!Objects
    BY <1>1 DEF Sound
  <2> QED
    BY <2>1, SignalsAreNone
<1>5. IsSequence(wire') /\ RepliesIn(wire') \subseteq RepliesIn(wire)
  BY <1>2, <1>3, <1>4, JoinedSequence
<1>6. \A m \in Replies' : m \in Replies
  BY <1>5 DEF Replies
<1> QED
  BY <1>1, <1>2, <1>3, <1>5, <1>6, EnvironmentLists DEF Sound

(* A reply, or the loss of calls, leaves the world alone.                   *)
LEMMA RestLists ==
  ASSUME SInv, emitted = <<>>, UNCHANGED controllerVars, Backend!Environment,
         UNCHANGED world, IsSequence(wire'), \A h \in held' : IsSequence(h), sent' \subseteq sent,
         \A m \in Replies' : m \in Replies \/ Answering(m)
  PROVE  SInv'
<1>1. Sound(world)' /\ world.version <= world'.version
  BY DEF SInv, Sound
<1> QED
  BY <1>1, EnvironmentLists

LEMMA NothingSound == Sound(Backend!Nothing) /\ Backend!Nothing.version = 0
BY DEF Sound, Backend!Nothing

LEMMA ReplyIs ==
  ASSUME NEW w, NEW error, NEW new, NEW shot, NEW version
  PROVE  LET m == Backend!Reply(w, error, new, shot, version)
         IN /\ m.kind = "reply" /\ m.watcher = w /\ m.error = error /\ m.world = shot
            /\ m.version = version
BY DEF Backend!Reply

LEMMA OwnerAnswerLists ==
  ASSUME SInv, emitted = <<>>, UNCHANGED controllerVars, NEW w \in sent, Backend!HandleOwner(w)
  PROVE  SInv'
<1> DEFINE m == Backend!Reply(w, "none", instance, Backend!Nothing, 0)
<1>1. /\ wire' = Append(wire, m) /\ UNCHANGED <<held, world>> /\ sent' \subseteq sent
      /\ Backend!Environment /\ w.kind = "owner"
  BY DEF Backend!HandleOwner
<1>2. m.watcher = w /\ m.version = 0 /\ m.world = Backend!Nothing
  BY ReplyIs
<1>3. Answering(m)
  BY <1>1, <1>2, NothingSound DEF Answering, SInv, Sound
<1> HIDE DEF m
<1>4. IsSequence(wire) /\ \A h \in held : IsSequence(h)
  BY DEF SInv, Travelling
<1>5. IsSequence(wire') /\ RepliesIn(wire') \subseteq RepliesIn(wire) \cup {m}
  BY <1>1, <1>4, AppendedReplies
<1>6. \A x \in Replies' : x \in Replies \/ x = m
  BY <1>1, <1>5 DEF Replies
<1>7. \A x \in Replies' : x \in Replies \/ Answering(x)
  BY <1>3, <1>6
<1> QED
  BY <1>1, <1>4, <1>5, <1>7, RestLists

LEMMA RefreshAnswerLists ==
  ASSUME SInv, emitted = <<>>, UNCHANGED controllerVars, NEW w \in sent, Backend!HandleRefresh(w)
  PROVE  SInv'
<1> DEFINE m == Backend!Reply(w, "none", None, world, world.version)
<1>1. /\ held' = held \cup {<<m>>} /\ UNCHANGED <<wire, world>> /\ sent' \subseteq sent
      /\ Backend!Environment
  BY DEF Backend!HandleRefresh
<1>2. m.watcher = w /\ m.version = world.version /\ m.world = world
  BY ReplyIs
<1>3. Answering(m)
  BY <1>1, <1>2 DEF Answering, SInv, Sound
<1> HIDE DEF m
<1>4. IsSequence(wire) /\ \A h \in held : IsSequence(h)
  BY DEF SInv, Travelling
<1>5. IsSequence(<<m>>) /\ RepliesIn(<<m>>) \subseteq {m}
  BY SingleReplies
<1>6. \A x \in Replies' : x \in Replies \/ x = m
  BY <1>1, <1>5 DEF Replies
<1>7. \A x \in Replies' : x \in Replies \/ Answering(x)
  BY <1>3, <1>6
<1> QED
  BY <1>1, <1>4, <1>5, <1>7, RestLists

LEMMA SendLists ==
  ASSUME SInv, emitted = <<>>, UNCHANGED controllerVars, Backend!Environment,
         NEW h \in held, Backend!Send(h)
  PROVE  SInv'
<1>1. held' = held \ {h} /\ wire' = wire \o h /\ UNCHANGED <<sent, world>>
  BY DEF Backend!Send
<1>2. IsSequence(wire) /\ \A x \in held : IsSequence(x)
  BY DEF SInv, Travelling
<1>3. IsSequence(wire') /\ RepliesIn(wire') \subseteq RepliesIn(wire) \cup RepliesIn(h)
  BY <1>1, <1>2, JoinedSequence
<1>4. \A x \in Replies' : x \in Replies
  BY <1>1, <1>3 DEF Replies
<1> QED
  BY <1>1, <1>2, <1>3, <1>4, RestLists

(* A signal about the owner of the name; a crash takes what is held along.  *)
LEMMA LifeLists ==
  ASSUME SInv, emitted = <<>>, UNCHANGED controllerVars, Backend!Environment,
         NEW e, e.kind # "reply", wire' = Append(wire, e), held' \subseteq held, sent' \subseteq sent,
         UNCHANGED world
  PROVE  SInv'
<1>1. IsSequence(wire) /\ \A x \in held : IsSequence(x)
  BY DEF SInv, Travelling
<1>2. IsSequence(wire') /\ RepliesIn(wire') \subseteq RepliesIn(wire) \cup {e}
  BY <1>1, AppendedReplies
<1>3. \A x \in Replies' : x \in Replies
  BY <1>2 DEF Replies, RepliesIn
<1> QED
  BY <1>1, <1>2, <1>3, RestLists

(* What an operation makes of the world. *)
LEMMA PerformedSound ==
  ASSUME SInv, NEW operation \in Controller!Operations,
         NEW o \in IF operation \in Controller!Removals THEN Drives ELSE Volumes,
         o \in world.present
  PROVE  LET new == Backend!Performed(operation, o)
         IN Sound(new) /\ world.version <= new.version
<1>1. world.mounted \subseteq world.present \cap Volumes /\ world.present \subseteq Backend!Objects
      /\ Sound(world)
  BY DEF SInv, Sound
<1>2. CASE operation = "Mount"
  <2>1. o \in Volumes
    BY <1>2 DEF Controller!Removals
  <2>2. Backend!Performed(operation, o)
          = Backend!World(world.present, world.mounted \cup {o}, world.incarnation)
    BY <1>2 DEF Backend!Performed
  <2> QED
    BY <1>1, <2>1, <2>2, WorldSound
<1>3. CASE operation = "Unmount"
  <2>1. Backend!Performed(operation, o)
          = Backend!World(world.present, world.mounted \ {o}, world.incarnation)
    BY <1>3 DEF Backend!Performed
  <2> QED
    BY <1>1, <2>1, WorldSound
<1>4. CASE operation = "Eject"
  <2> DEFINE gone == Backend!VolumesOn(o)
  <2>1. Backend!Performed(operation, o)
          = Backend!World(world.present \ gone, world.mounted \ gone, world.incarnation)
    BY <1>4 DEF Backend!Performed, Backend!Without
  <2> HIDE DEF gone
  <2> QED
    BY <1>1, <2>1, WorldSound
<1>5. CASE operation = "PowerOff"
  <2> DEFINE gone == {o} \cup Backend!VolumesOn(o)
  <2>1. Backend!Performed(operation, o)
          = Backend!World(world.present \ gone, world.mounted \ gone, world.incarnation)
    BY <1>5 DEF Backend!Performed, Backend!Without
  <2> HIDE DEF gone
  <2> QED
    BY <1>1, <2>1, WorldSound
<1> QED
  BY <1>2, <1>3, <1>4, <1>5 DEF Controller!Operations

LEMMA OperationLists ==
  ASSUME SInv, emitted = <<>>, UNCHANGED controllerVars,
         NEW w \in sent, Backend!HandleOperation(w)
  PROVE  SInv'
<1>1. /\ sent' \subseteq sent /\ Backend!Environment /\ w.kind = "operation"
      /\ IsSequence(wire) /\ \A h \in held : IsSequence(h)
  BY DEF Backend!HandleOperation, SInv, Travelling
<1>2. CASE /\ wire' = Append(wire, Backend!Reply(w, "Upstream", None, Backend!Nothing, world.version))
           /\ UNCHANGED <<held, world>>
  <2> DEFINE m == Backend!Reply(w, "Upstream", None, Backend!Nothing, world.version)
  <2>1. m.watcher = w /\ m.version = world.version /\ m.world = Backend!Nothing
    BY ReplyIs
  <2>2. Answering(m)
    BY <1>1, <1>2, <2>1, NothingSound DEF Answering, SInv, Sound
  <2> HIDE DEF m
  <2>3. IsSequence(wire') /\ RepliesIn(wire') \subseteq RepliesIn(wire) \cup {m}
    BY <1>1, <1>2, AppendedReplies DEF m
  <2>4. \A x \in Replies' : x \in Replies \/ x = m
    BY <1>2, <2>3 DEF Replies
  <2> QED
    BY <1>1, <1>2, <2>2, <2>3, <2>4, RestLists
<1>3. CASE Backend!Possible(w.call.operation, w.object)
  <2> DEFINE new == Backend!Performed(w.call.operation, w.object)
             signals == Backend!Signals(world.present \ new.present, new.version)
             m == Backend!Reply(w, "none", None, Backend!Nothing, new.version)
             answer == <<m>>
  <2>1. Sound(new) /\ world.version <= new.version /\ world.version \in Nat /\ new.version \in Nat
    <3>1. /\ w.call.operation \in Controller!Operations
          /\ w.object \in IF w.call.operation \in Controller!Removals THEN Drives ELSE Volumes
          /\ w.object \in world.present
      BY <1>1, <1>3 DEF SInv, Travelling, Backend!Possible
    <3>2. Sound(new) /\ world.version <= new.version
      BY <3>1, PerformedSound
    <3> HIDE DEF new
    <3> QED
      BY <3>2 DEF SInv, Sound
  <2>2. m.watcher = w /\ m.version = new.version /\ m.world = Backend!Nothing
    BY ReplyIs
  <2>3. IsSequence(signals) /\ RepliesIn(signals) = {}
    <3>1. world.present \ new.present \in SUBSET Backend!Objects
      BY DEF SInv, Sound
    <3> HIDE DEF new
    <3> QED
      BY <3>1, SignalsAreNone
  <2>4. IsSequence(answer) /\ RepliesIn(answer) \subseteq {m}
    BY SingleReplies
  <2>5. \/ /\ world' = new /\ wire' \in {wire \o signals \o answer, wire \o answer \o signals}
           /\ UNCHANGED held
        \/ /\ world' = new /\ wire' = wire \o answer /\ held' = held \cup {signals}
        \/ /\ wire' = Append(wire, Backend!Reply(w, "Upstream", None, Backend!Nothing, world.version))
           /\ UNCHANGED <<held, world>>
    BY DEF Backend!HandleOperation
  <2> HIDE DEF new, signals, m, answer
  <2>6. CASE /\ world' = new /\ wire' \in {wire \o signals \o answer, wire \o answer \o signals}
             /\ UNCHANGED held
    <3>1. IsSequence(wire') /\ RepliesIn(wire') \subseteq RepliesIn(wire) \cup {m}
      <4>1. CASE wire' = (wire \o signals) \o answer
        <5>1. IsSequence(wire \o signals) /\ RepliesIn(wire \o signals) \subseteq RepliesIn(wire)
          BY <1>1, <2>3, JoinedSequence
        <5> QED
          BY <2>4, <4>1, <5>1, JoinedSequence
      <4>2. CASE wire' = (wire \o answer) \o signals
        <5>1. /\ IsSequence(wire \o answer)
              /\ RepliesIn(wire \o answer) \subseteq RepliesIn(wire) \cup {m}
          BY <1>1, <2>4, JoinedSequence
        <5> QED
          BY <2>3, <4>2, <5>1, JoinedSequence
      <4> QED
        BY <2>6, <4>1, <4>2
    <3>2. \A x \in Replies' : x \in Replies \/ x = m
      BY <2>6, <3>1 DEF Replies
    <3>3. Answering(m)
      BY <1>1, <2>1, <2>2, <2>6, NothingSound DEF Answering
    <3>4. Sound(world)' /\ world.version <= world'.version
      BY <2>1, <2>6 DEF Sound
    <3> QED
      BY <1>1, <2>6, <3>1, <3>2, <3>3, <3>4, EnvironmentLists
  <2>7. CASE /\ world' = new /\ wire' = wire \o answer /\ held' = held \cup {signals}
    <3>1. IsSequence(wire') /\ RepliesIn(wire') \subseteq RepliesIn(wire) \cup {m}
      BY <1>1, <2>4, <2>7, JoinedSequence
    <3>2. \A x \in Replies' : x \in Replies \/ x = m
      BY <2>3, <2>7, <3>1 DEF Replies
    <3>3. Answering(m)
      BY <1>1, <2>1, <2>2, <2>7, NothingSound DEF Answering
    <3>4. Sound(world)' /\ world.version <= world'.version /\ \A h \in held' : IsSequence(h)
      BY <1>1, <2>1, <2>3, <2>7 DEF Sound
    <3> QED
      BY <1>1, <2>7, <3>1, <3>2, <3>3, <3>4, EnvironmentLists
  <2> QED
    BY <1>2, <2>5, <2>6, <2>7
<1> QED
  BY <1>2, <1>3 DEF Backend!HandleOperation

LEMMA DaemonLists ==
  ASSUME SInv, emitted = <<>>, UNCHANGED controllerVars, Backend!Daemon
  PROVE  SInv'
<1>1. /\ world.mounted \subseteq world.present \cap Volumes
      /\ world.present \subseteq Backend!Objects
  BY DEF SInv, Sound
<1>2. ASSUME NEW o \in Backend!Objects, Backend!Plug(o)
      PROVE  SInv'
  <2> DEFINE P == world.present \cup {o}
             I == [world.incarnation EXCEPT ![o] = @ + 1]
  <2>1. /\ Backend!Change(Backend!World(P, world.mounted, I)) /\ Backend!Environment
        /\ UNCHANGED <<sent, held>>
    BY <1>2 DEF Backend!Plug
  <2>2. P \subseteq Backend!Objects /\ world.mounted \subseteq P \cap Volumes
    BY <1>1
  <2> HIDE DEF P, I
  <2> QED
    BY <2>1, <2>2, ChangeLists
<1>3. ASSUME NEW o \in Backend!Objects, Backend!Unplug(o)
      PROVE  SInv'
  <2> DEFINE gone == {o} \cup Backend!VolumesOn(o)
  <2>1. /\ Backend!Change(Backend!World(world.present \ gone, world.mounted \ gone,
                                       world.incarnation))
        /\ Backend!Environment /\ UNCHANGED <<sent, held>>
    BY <1>3 DEF Backend!Unplug, Backend!Without
  <2> HIDE DEF gone
  <2> QED
    BY <1>1, <2>1, ChangeLists
<1>4. ASSUME NEW v \in Volumes, Backend!ToggleMount(v)
      PROVE  SInv'
  <2> DEFINE M == IF v \in world.mounted THEN world.mounted \ {v} ELSE world.mounted \cup {v}
  <2>1. /\ Backend!Change(Backend!World(world.present, M, world.incarnation))
        /\ Backend!Environment /\ UNCHANGED <<sent, held>> /\ v \in world.present
    BY <1>4 DEF Backend!ToggleMount
  <2>2. M \subseteq world.present \cap Volumes
    BY <1>1, <2>1
  <2> HIDE DEF M
  <2> QED
    BY <1>1, <2>1, <2>2, ChangeLists
<1>5. ASSUME NEW w \in sent,
             Backend!HandleOwner(w) \/ Backend!HandleRefresh(w) \/ Backend!HandleOperation(w)
      PROVE  SInv'
  BY <1>5, OwnerAnswerLists, RefreshAnswerLists, OperationLists
<1>6. ASSUME NEW h \in held, Backend!Send(h)
      PROVE  SInv'
  BY <1>6, SendLists DEF Backend!Send
<1>7. CASE Backend!Launch
  <2> DEFINE e == [kind |-> "owner", owner |-> spent.launches + 1]
  <2>1. /\ wire' = Append(wire, e) /\ held' \subseteq held /\ sent' \subseteq sent
        /\ UNCHANGED world /\ Backend!Environment /\ e.kind # "reply"
    BY <1>7 DEF Backend!Launch
  <2> HIDE DEF e
  <2> QED
    BY <2>1, LifeLists
<1>8. CASE Backend!Crash
  <2> DEFINE e == [kind |-> "owner", owner |-> None]
  <2>1. /\ wire' = Append(wire, e) /\ held' \subseteq held /\ sent' \subseteq sent
        /\ UNCHANGED world /\ Backend!Environment /\ e.kind # "reply"
    BY <1>8 DEF Backend!Crash
  <2> HIDE DEF e
  <2> QED
    BY <2>1, LifeLists
<1> QED
  BY <1>2, <1>3, <1>4, <1>5, <1>6, <1>7, <1>8 DEF Backend!Daemon

-----------------------------------------------------------------------------
(* The second invariant: what the backend does. *)

(* What the backend asks for in addition. *)
Asks ==
  \A w \in sent' \ sent :
    /\ w.kind # "operation"
    /\ w.generation \in Nat /\ w.revision \in Nat /\ w.generation <= generation'
    /\ w.generation = generation' => w.revision <= revision'

LEMMA TravellingKept ==
  ASSUME SInv, UNCHANGED <<world, held>>, Asks, IsSequence(wire'), Replies' \subseteq Replies,
         generation' \in Nat, revision' \in Nat,
         \/ generation' = generation /\ revision <= revision'
         \/ generation' = generation + 1
  PROVE  Travelling'
<1>1. generation \in Nat /\ revision \in Nat
  BY DEF SInv, Travelling
<1>2. ASSUME NEW w \in sent' \cup {m.watcher : m \in Replies'}
      PROVE  /\ w.generation \in Nat /\ w.revision \in Nat /\ w.generation <= generation'
             /\ w.generation = generation' => w.revision <= revision'
  <2>1. CASE w \in sent' \ sent
    BY <2>1 DEF Asks
  <2>2. CASE w \in sent \cup {m.watcher : m \in Replies}
    <3>1. /\ w.generation \in Nat /\ w.revision \in Nat /\ w.generation <= generation
          /\ w.generation = generation => w.revision <= revision
      BY <2>2 DEF SInv, Travelling
    <3> QED
      BY <1>1, <3>1
  <2> QED
    BY <2>1, <2>2
<1>3. ASSUME NEW w \in sent', w.kind = "operation"
      PROVE  w \in sent
  BY <1>3 DEF Asks
<1> QED
  BY <1>2, <1>3 DEF SInv, Travelling, Sound

(* Nothing is shown, but more may be known, asked for or waited for.        *)
LEMMA LearnedLists ==
  ASSUME SInv, emitted' = <<>>, emitted = <<>>, UNCHANGED controllerVars,
         UNCHANGED <<world, held, shown, generation, minted>>,
         DOMAIN ids' = DOMAIN ids, \A o \in DOMAIN ids : ids'[o] \in {None, ids[o]},
         Asks, IsSequence(wire'), Replies' \subseteq Replies,
         \/ revision' = revision /\ completions' = completions
         \/ /\ revision' = revision + 1
            /\ \A i \in DOMAIN completions' :
                 completions'[i].version \in Nat /\ completions'[i].version <= world.version
  PROVE  SInv'
<1>1. generation \in Nat /\ revision \in Nat
  BY DEF SInv, Travelling
<1>2. revision' \in Nat /\ revision <= revision'
  BY <1>1
<1>3. Travelling'
  BY <1>1, <1>2, TravellingKept
<1>4. Awaited'
  <2>1. CASE revision' = revision /\ completions' = completions
    BY <2>1 DEF SInv, Awaited
  <2>2. CASE /\ revision' = revision + 1
             /\ \A i \in DOMAIN completions' :
                  completions'[i].version \in Nat /\ completions'[i].version <= world.version
    <3>1. \A m \in Replies' :
            ~(m.watcher.generation = generation /\ m.watcher.revision = revision + 1)
      BY <1>1 DEF SInv, Travelling
    <3> QED
      BY <2>2, <3>1 DEF Awaited
  <2> QED
    BY <2>1, <2>2
<1>5. Identified'
  BY DEF SInv, Identified
<1>6. Emitted' /\ ~Announcing /\ ~Announcing'
  BY EmptySequence DEF Emitted, Announcing
<1>7. MountsListed'
  <2> SUFFICES ASSUME NEW v \in shown.mounted, ids'[DriveOf[v]] # None
               PROVE  \E x \in topology.volumes \cap topology.mounted :
                        topology.driveOf[x] = ids'[DriveOf[v]]
    BY DEF MountsListed, controllerVars
  <2>1. DriveOf[v] \in DOMAIN ids
    BY ServiceConstants DEF SInv, Sound, Identified, Backend!BackendConstants, Backend!Objects
  <2>2. ids'[DriveOf[v]] = ids[DriveOf[v]]
    BY <2>1
  <2> QED
    BY <1>6, <2>2 DEF SInv, MountsListed
<1> QED
  BY <1>3, <1>4, <1>5, <1>6, <1>7 DEF SInv, Sound, controllerVars

LEMMA WithdrawnLists ==
  ASSUME SInv, emitted' = <<Backend!Unavailable>>, UNCHANGED controllerVars,
         UNCHANGED <<world, held, minted>>, shown' = Backend!Nothing,
         ids' = ids \/ ids' = Backend!NoIds,
         Asks, IsSequence(wire'), Replies' \subseteq Replies,
         \/ generation' = generation /\ revision' = revision
         \/ generation' = generation + 1 /\ revision' = revision + 1,
         \/ generation' = generation /\ completions' = completions
         \/ completions' = <<>>
  PROVE  SInv'
<1>1. generation \in Nat /\ revision \in Nat
  BY DEF SInv, Travelling
<1>2. Travelling'
  <2>1. generation' \in Nat /\ revision' \in Nat
    BY <1>1
  <2>2. (generation' = generation /\ revision <= revision') \/ generation' = generation + 1
    BY <1>1
  <2> QED
    BY <2>1, <2>2, TravellingKept
<1>3. Awaited'
  <2>1. CASE completions' = <<>>
    BY <2>1, EmptySequence DEF Awaited
  <2>2. CASE generation' = generation /\ completions' = completions
    <3>1. revision' = revision
      BY <1>1, <2>2
    <3> QED
      BY <2>2, <3>1 DEF SInv, Awaited
  <2> QED
    BY <2>1, <2>2
<1>4. DOMAIN emitted' = {1} /\ emitted'[1] = Backend!Unavailable
  BY SingleSequence
<1>5. Emitted' /\ Announcing'
  BY <1>4, UnavailableSignal DEF Emitted, Announcing
<1>6. Identified'
  BY DEF SInv, Identified, Backend!NoIds
<1>7. Sound(shown)' /\ Sound(world)'
  BY NothingSound DEF SInv, Sound
<1> QED
  BY <1>2, <1>3, <1>5, <1>6, <1>7 DEF SInv, MountsListed, controllerVars

LEMMA IdsForSnapshot ==
  ASSUME SInv, NEW shot, Sound(shot),
         ids' = Backend!idsFor(shot),
         minted' = [o \in Backend!Objects |->
           IF o \in shot.present /\ ids[o] = None THEN minted[o] + 1 ELSE minted[o]],
         IdsSuffice'
  PROVE  Identified' /\ \A o \in shot.present : ids'[o] # None
<1>1. /\ DOMAIN ids = Backend!Objects /\ minted \in [Backend!Objects -> Nat]
      /\ \A o \in Backend!Objects : ids[o] # None => \E n \in 1..minted[o] : ids[o] = <<o, n>>
  BY DEF SInv, Identified
<1>2. DOMAIN ids' = Backend!Objects /\ minted' \in [Backend!Objects -> Nat]
  BY <1>1 DEF Backend!idsFor
<1>3. ASSUME NEW o \in Backend!Objects
      PROVE  /\ ids'[o] # None => \E n \in 1..minted'[o] : ids'[o] = <<o, n>>
             /\ o \in shot.present => ids'[o] # None
  <2>1. ids'[o] = IF o \notin shot.present THEN None
                  ELSE IF ids[o] # None THEN ids[o] ELSE <<o, minted[o] + 1>>
    BY DEF Backend!idsFor
  <2>2. minted'[o] = IF o \in shot.present /\ ids[o] = None THEN minted[o] + 1 ELSE minted[o]
    OBVIOUS
  <2>3. minted[o] \in Nat
    BY <1>1
  <2>4. CASE o \notin shot.present
    BY <2>1, <2>4
  <2>5. CASE o \in shot.present /\ ids[o] # None
    BY <1>1, <2>1, <2>2, <2>5
  <2>6. CASE o \in shot.present /\ ids[o] = None
    <3>1. minted[o] + 1 \in 1..MaxIds
      BY <2>2, <2>3, <2>6 DEF IdsSuffice
    <3>2. <<o, minted[o] + 1>> \in DriveIds \cup VolumeIds
      BY <3>1 DEF DriveIds, VolumeIds, Backend!Objects
    <3>3. ids'[o] = <<o, minted[o] + 1>> /\ minted'[o] = minted[o] + 1
      BY <2>1, <2>2, <2>6
    <3>4. <<o, minted[o] + 1>> # None
      BY <3>2, ServiceConstants
    <3> QED
      BY <2>3, <3>3, <3>4
  <2> QED
    BY <2>4, <2>5, <2>6
<1> QED
  BY <1>2, <1>3 DEF Identified, Sound

(* A snapshot is published with the results that waited for it. *)
LEMMA PublishedLists ==
  ASSUME IInv, SInv, IdsSuffice', UNCHANGED controllerVars, emitted = <<>>,
         UNCHANGED <<world, held, generation, revision, sent>>,
         IsSequence(wire'), Replies' \subseteq Replies,
         NEW shot, Sound(shot), Backend!publish(shot),
         \A i \in DOMAIN completions : completions[i].version <= shot.version
  PROVE  SInv'
<1> DEFINE f == [i \in DOMAIN completions |-> Backend!Verdict(completions[i], ids')]
           e == [signal |-> "snapshotChanged", available |-> TRUE, ids |-> ids', world |-> shot]
<1>1. /\ ids' = Backend!idsFor(shot) /\ shown' = shot /\ completions' = <<>>
      /\ minted' = [o \in Backend!Objects |->
           IF o \in shot.present /\ ids[o] = None THEN minted[o] + 1 ELSE minted[o]]
      /\ emitted' = <<e>> \o f
  BY DEF Backend!publish
<1>2. Identified' /\ \A o \in shot.present : ids'[o] # None
  BY <1>1, IdsForSnapshot
<1>3. Travelling'
  <2>1. generation \in Nat /\ revision \in Nat
    BY DEF SInv, Travelling
  <2> QED
    BY <2>1, TravellingKept DEF Asks
<1>4. Awaited'
  BY <1>1, EmptySequence DEF Awaited
<1>5. /\ e.signal = "snapshotChanged" /\ e.world = shot /\ e.ids = ids' /\ e.available
  OBVIOUS
<1>6. IsSequence(f) /\ DOMAIN f = DOMAIN completions
  <2>1. Len(completions) \in Nat /\ DOMAIN completions = 1..Len(completions)
    BY Lengths DEF IInv, Sequences3
  <2> DEFINE T == {Backend!Verdict(completions[i], ids') : i \in DOMAIN completions}
  <2>2. \A i \in 1..Len(completions) : Backend!Verdict(completions[i], ids') \in T
    BY <2>1
  <2>3. f = [i \in 1..Len(completions) |-> Backend!Verdict(completions[i], ids')]
    BY <2>1
  <2> HIDE DEF T
  <2>4. f \in Seq(T)
    BY <2>1, <2>2, <2>3
  <2> QED
    BY <2>4, SequenceOf
<1>7. \A i \in DOMAIN f :
        /\ f[i].signal = "operationFinished"
        /\ f[i].version \in Nat /\ f[i].version <= shot.version
  <2>1. \A i \in DOMAIN completions :
          /\ completions[i].signal = "operationFinished"
          /\ completions[i].version \in Nat /\ completions[i].version <= shot.version
    BY DEF IInv, Known, SInv, Awaited
  <2> QED
    BY <2>1 DEF Backend!Verdict, Backend!Finished
<1> HIDE DEF e, f
<1>8. Emitted' /\ Announcing'
  <2> DEFINE r == <<e>> \o f
  <2>1. /\ 1 \in DOMAIN r /\ r[1] = e
        /\ \A i \in DOMAIN r : i # 1 => i - 1 \in DOMAIN f /\ r[i] = f[i - 1]
    BY <1>6, FollowedSequence
  <2>2. emitted' = r
    BY <1>1
  <2> HIDE DEF r
  <2>3. Announcing'
    BY <1>5, <2>1, <2>2 DEF Announcing
  <2>4. ASSUME NEW i \in DOMAIN r, i # 1
        PROVE  /\ r[i].signal = "operationFinished"
               /\ r[i].version \in Nat /\ r[i].version <= shot.version
    BY <1>7, <2>1, <2>4
  <2>5. Emitted'
    BY <1>1, <1>2, <1>5, <2>1, <2>2, <2>4 DEF Emitted
  <2> QED
    BY <2>3, <2>5
<1>9. Sound(shown)' /\ Sound(world)'
  BY <1>1 DEF SInv, Sound
<1> QED
  BY <1>2, <1>3, <1>4, <1>8, <1>9 DEF SInv, MountsListed, controllerVars

LEMMA ReportedLists ==
  ASSUME SInv, UNCHANGED controllerVars, emitted = <<>>, Backend!reportDisappeared
  PROVE  SInv'
<1> DEFINE s == Backend!Finished(Head(deferred), "Disappeared", 0)
<1>1. /\ emitted' = <<s>>
      /\ UNCHANGED <<world, held, wire, sent, generation, revision, completions, ids, minted, shown>>
  BY DEF Backend!reportDisappeared, Backend!busVars, Backend!historyVars
<1>2. s.signal = "operationFinished" /\ s.version = 0
  BY DEF Backend!Finished
<1> HIDE DEF s
<1>3. DOMAIN emitted' = {1} /\ emitted'[1] = s
  BY <1>1, SingleSequence
<1>4. ~Announcing /\ ~Announcing'
  BY <1>2, <1>3, EmptySequence DEF Announcing
<1>5. Emitted'
  BY <1>1, <1>2, <1>3 DEF Emitted, SInv, Sound
<1>6. Replies' = Replies
  BY <1>1 DEF Replies
<1>7. Travelling' /\ Awaited'
  BY <1>1, <1>6 DEF SInv, Travelling, Awaited, Sound
<1>8. MountsListed'
  BY <1>1, <1>4 DEF SInv, MountsListed, controllerVars
<1> QED
  BY <1>1, <1>5, <1>7, <1>8 DEF SInv, Identified, Sound, controllerVars

(* What a refresh asks for. *)
LEMMA RefreshAsks ==
  ASSUME SInv, NEW to, NEW busy, NEW others, generation' \in Nat, revision' \in Nat,
         Backend!refresh(generation', revision', to, busy, others)
  PROVE  Asks
BY DEF Asks, Backend!refresh

(* The bus delivers something, or a call ends without an answer. *)
Input == UNCHANGED <<world, held>> /\ IsSequence(wire') /\ Replies' \subseteq Replies

LEMMA DroppedLists ==
  ASSUME SInv, UNCHANGED controllerVars, emitted = <<>>, Input, NEW w, Backend!Dropped(w)
  PROVE  SInv'
<1>1. UNCHANGED <<ids, minted, sent, generation, revision, completions, shown>> /\ emitted' = <<>>
  BY DEF Backend!Dropped, Backend!historyVars
<1>2. Asks
  BY <1>1 DEF Asks
<1> QED
  BY <1>1, <1>2, LearnedLists DEF Input

LEMMA ChangedLists ==
  ASSUME SInv, UNCHANGED controllerVars, emitted = <<>>, emitted' = <<>>, Input,
         UNCHANGED <<minted, shown>>, NEW others, Backend!changed(others),
         DOMAIN ids' = DOMAIN ids, \A o \in DOMAIN ids : ids'[o] \in {None, ids[o]},
         \A i \in DOMAIN completions' :
           completions'[i].version \in Nat /\ completions'[i].version <= world.version
  PROVE  SInv'
<1>1. /\ revision' = revision + 1 /\ UNCHANGED generation
      /\ generation \in Nat /\ revision \in Nat
      /\ Backend!refresh(generation, revision + 1, IF started THEN owner ELSE None,
                         refreshing, others)
  BY DEF Backend!changed, SInv, Travelling
<1>2. Asks
  <2>1. generation' \in Nat /\ revision' \in Nat
    BY <1>1
  <2> QED
    BY <1>1, <2>1 DEF Asks, Backend!refresh
<1> QED
  BY <1>1, <1>2, LearnedLists DEF Input

LEMMA OwnerSetLists ==
  ASSUME SInv, UNCHANGED controllerVars, Input, NEW new, NEW others,
         Backend!setOwner(new, others)
  PROVE  SInv'
<1>1. /\ emitted' = <<Backend!Unavailable>> /\ shown' = Backend!Nothing
      /\ ids' = Backend!NoIds /\ completions' = <<>> /\ UNCHANGED minted
      /\ generation' = generation + 1 /\ revision' = revision + 1
      /\ Backend!refresh(generation + 1, revision + 1, new, FALSE, others)
  BY DEF Backend!setOwner
<1>2. generation \in Nat /\ revision \in Nat
  BY DEF SInv, Travelling
<1>3. Asks
  BY <1>1, <1>2 DEF Asks, Backend!refresh
<1> QED
  BY <1>1, <1>3, WithdrawnLists DEF Input

LEMMA OwnerAnsweredLists ==
  ASSUME SInv, UNCHANGED controllerVars, emitted = <<>>, Input,
         NEW w, NEW error, NEW new, Backend!ownerReply(w, error, new)
  PROVE  SInv'
<1>1. CASE Backend!Dropped(w)
  BY <1>1, DroppedLists
<1>2. CASE Backend!setOwner(IF new = None THEN ServiceName ELSE new, watchers \ {w})
  BY <1>2, OwnerSetLists
<1>3. CASE /\ emitted' = <<Backend!Unavailable>> /\ shown' = Backend!Nothing
           /\ UNCHANGED <<generation, revision, completions, ids, minted, sent>>
  <2>1. Asks
    BY <1>3 DEF Asks
  <2> QED
    BY <1>3, <2>1, WithdrawnLists DEF Input
<1> QED
  BY <1>1, <1>2, <1>3 DEF Backend!ownerReply

(* What the answer to a call of the backend says. *)
Says(w, m) ==
  /\ m.version \in Nat /\ m.version <= world.version /\ Sound(m.world)
  /\ (w.kind = "refresh" /\ m.error = "none" /\ w.generation = generation
        /\ w.revision = revision) =>
       \A i \in DOMAIN completions : completions[i].version <= m.world.version

LEMMA RefreshAnsweredLists ==
  ASSUME IInv, SInv, IdsSuffice', UNCHANGED controllerVars, emitted = <<>>, Input,
         NEW w, w.kind = "refresh", NEW m, Says(w, m),
         Backend!refreshReply(w, m.error # "none", m.world)
  PROVE  SInv'
<1>1. CASE Backend!Dropped(w)
  BY <1>1, DroppedLists
<1>2. CASE /\ Backend!refresh(generation, revision, owner, FALSE, watchers \ {w})
           /\ emitted' = <<>>
           /\ UNCHANGED <<generation, revision, completions, ids, minted, shown>>
  <2>1. generation \in Nat /\ revision \in Nat
    BY DEF SInv, Travelling
  <2>2. Asks
    BY <1>2, <2>1 DEF Asks, Backend!refresh
  <2> QED
    BY <1>2, <2>2, LearnedLists DEF Input
<1>3. CASE Backend!refreshFailed /\ UNCHANGED <<generation, revision, sent>>
  <2>1. Asks
    BY <1>3 DEF Asks
  <2> QED
    BY <1>3, <2>1, WithdrawnLists DEF Backend!refreshFailed, Input
<1>4. CASE /\ m.error = "none" /\ w.generation = generation /\ w.revision = revision
           /\ Backend!publish(m.world) /\ UNCHANGED <<generation, revision, sent>>
  <2>1. Sound(m.world) /\ \A i \in DOMAIN completions : completions[i].version <= m.world.version
    BY <1>4 DEF Says
  <2> QED
    BY <1>4, <2>1, PublishedLists DEF Input
<1> QED
  BY <1>1, <1>2, <1>3, <1>4 DEF Backend!refreshReply, Backend!historyVars

LEMMA OperationAnsweredLists ==
  ASSUME IInv, SInv, UNCHANGED controllerVars, emitted = <<>>, Input,
         NEW w, NEW m, Says(w, m), Backend!operationReply(w, m.error, m.version)
  PROVE  SInv'
<1>1. CASE w.generation # generation /\ Backend!Dropped(w)
  BY <1>1, DroppedLists
<1>2. CASE ~(w.generation # generation /\ Backend!Dropped(w))
  <2> DEFINE s == Backend!Verdict(Backend!Finished(w.call, m.error, m.version), ids)
  <2>1. s.version = m.version
    BY DEF Backend!Verdict, Backend!Finished
  <2>2. /\ completions' = Append(completions, s) /\ Backend!changed(watchers \ {w})
        /\ emitted' = <<>> /\ UNCHANGED <<ids, minted, shown>>
    BY <1>2 DEF Backend!operationReply, Backend!Told
  <2> HIDE DEF s
  <2>3. IsSequence(completions)
    BY DEF IInv, Sequences3
  <2>4. \A i \in DOMAIN completions' :
          completions'[i].version \in Nat /\ completions'[i].version <= world.version
    BY <2>1, <2>2, <2>3, AppendedSequence DEF SInv, Awaited, Says
  <2> QED
    BY <2>2, <2>4, ChangedLists
<1> QED
  BY <1>1, <1>2

LEMMA FiredLists ==
  ASSUME IInv, SInv, IdsSuffice', UNCHANGED controllerVars, emitted = <<>>, Input,
         NEW w, NEW m, Says(w, m), Backend!Fired(w, m)
  PROVE  SInv'
BY OwnerAnsweredLists, RefreshAnsweredLists, OperationAnsweredLists DEF Backend!Fired

LEMMA SignalledLists ==
  ASSUME SInv, UNCHANGED controllerVars, emitted = <<>>, emitted' = <<>>, Input,
         UNCHANGED <<completions, minted, shown>>,
         DOMAIN ids' = DOMAIN ids, \A o \in DOMAIN ids : ids'[o] \in {None, ids[o]},
         Backend!changed(watchers) \/ UNCHANGED <<generation, revision, sent>>
  PROVE  SInv'
<1>1. CASE Backend!changed(watchers)
  BY <1>1, ChangedLists DEF SInv, Awaited
<1>2. CASE UNCHANGED <<generation, revision, sent>>
  <2>1. Asks
    BY <1>2 DEF Asks
  <2> QED
    BY <1>2, <2>1, LearnedLists DEF Input
<1> QED
  BY <1>1, <1>2

LEMMA DeliveredLists ==
  ASSUME IInv, SInv, IdsSuffice', UNCHANGED controllerVars, emitted = <<>>, Backend!Deliver
  PROVE  SInv'
<1> DEFINE m == Head(wire)
<1>1. wire # <<>> /\ wire' = Tail(wire) /\ UNCHANGED <<held, world>>
  BY DEF Backend!Deliver
<1>2. IsSequence(wire') /\ RepliesIn(wire') \subseteq RepliesIn(wire)
      /\ (m.kind = "reply" => m \in Replies)
  BY <1>1, TakenReplies DEF SInv, Travelling, Replies
<1>3. Input
  BY <1>1, <1>2 DEF Input, Replies
<1>4. CASE Backend!ownerChanged(m.owner)
  <2>1. CASE Backend!setOwner(m.owner, watchers)
    BY <1>3, <2>1, OwnerSetLists
  <2>2. CASE /\ emitted' = <<>> /\ UNCHANGED <<Backend!backendVars, sent, Backend!historyVars>>
    BY <1>3, <2>2, SignalledLists DEF Backend!backendVars, Backend!historyVars
  <2> QED
    BY <1>4, <2>1, <2>2 DEF Backend!ownerChanged
<1>5. CASE Backend!propertiesChanged(m.version)
  BY <1>3, <1>5, SignalledLists
     DEF Backend!propertiesChanged, Backend!Unsubscribed, Backend!Told, Backend!backendVars,
         Backend!historyVars
<1>6. CASE Backend!interfacesRemoved(m.object, m.version)
  BY <1>3, <1>6, SignalledLists
     DEF Backend!interfacesRemoved, Backend!Unsubscribed, Backend!Told, Backend!backendVars,
         Backend!historyVars
<1>7. CASE m.kind = "reply" /\ m.watcher \in watchers /\ Backend!Fired(m.watcher, m)
  <2>1. m \in Replies
    BY <1>2, <1>7
  <2> HIDE DEF m
  <2>2. Says(m.watcher, m)
    BY <2>1 DEF Says, SInv, Travelling, Awaited
  <2> QED
    BY <1>3, <1>7, <2>2, FiredLists
<1>8. CASE emitted' = <<>> /\ UNCHANGED <<Backend!backendVars, sent, Backend!historyVars>>
  BY <1>3, <1>8, SignalledLists DEF Backend!backendVars, Backend!historyVars
<1> QED
  BY <1>4, <1>5, <1>6, <1>7, <1>8 DEF Backend!Deliver

LEMMA BackendStepLists ==
  ASSUME IInv, SInv, IdsSuffice', BackendStep
  PROVE  SInv'
<1>1. emitted = <<>> /\ UNCHANGED controllerVars
  BY DEF BackendStep, Quiet
<1>2. UNCHANGED <<wire, held>> => IsSequence(wire') /\ Replies' \subseteq Replies
  BY DEF SInv, Travelling, Replies
<1>3. CASE Backend!start
  <2>1. /\ UNCHANGED <<generation, revision, completions, ids, minted, wire, held, world, shown>>
        /\ emitted' = <<>>
    BY <1>3 DEF Backend!start, Backend!historyVars
  <2>2. generation \in Nat /\ revision \in Nat
    BY DEF SInv, Travelling
  <2>3. Asks
    BY <1>3, <2>1, <2>2 DEF Backend!start, Asks
  <2> QED
    BY <1>1, <1>2, <2>1, <2>3, LearnedLists
<1>4. CASE Backend!reportDisappeared
  BY <1>1, <1>4, ReportedLists
<1>5. CASE Backend!Deliver
  BY <1>1, <1>5, DeliveredLists
<1>6. ASSUME NEW w \in watchers, Backend!LocalError(w)
      PROVE  SInv'
  <2> DEFINE m == [error |-> "Upstream", owner |-> None, world |-> Backend!Nothing, version |-> 0]
  <2>1. Input /\ Backend!Fired(w, m)
    BY <1>2, <1>6 DEF Backend!LocalError, Input
  <2>2. Says(w, m)
    BY NothingSound DEF Says, SInv, Sound
  <2> HIDE DEF m
  <2> QED
    BY <1>1, <2>1, <2>2, FiredLists
<1>7. CASE Backend!Daemon
  BY <1>1, <1>7, DaemonLists
<1> QED
  BY <1>3, <1>4, <1>5, <1>6, <1>7 DEF BackendStep

-----------------------------------------------------------------------------
(* The second invariant: what the controller does. *)

LEMMA IdSorts ==
  ASSUME Identified, IdsSuffice
  PROVE  /\ \A d \in Drives : ids[d] \in DriveIds \cup {None}
         /\ \A v \in Volumes : ids[v] \in VolumeIds \cup {None}
         /\ \A o \in Backend!Objects : ids[o] # None => ids[o][1] = o
<1>1. ASSUME NEW o \in Backend!Objects, ids[o] # None
      PROVE  ids[o] \in {o} \X (1..MaxIds) /\ ids[o][1] = o
  <2>1. PICK n \in 1..minted[o] : ids[o] = <<o, n>>
    BY <1>1 DEF Identified
  <2>2. n \in 1..MaxIds
    BY ServiceConstants DEF Identified, IdsSuffice
  <2> QED
    BY <2>1, <2>2
<1> QED
  BY <1>1 DEF Backend!Objects, DriveIds, VolumeIds

LEMMA ListedTopology ==
  ASSUME Identified, IdsSuffice, Sound(shown),
         NEW s, s.ids = ids, s.world = shown, \A o \in shown.present : ids[o] # None
  PROVE  LET t == TopologyOf(s)
         IN /\ t \in Snapshots
            /\ \A v \in shown.mounted :
                 ids[v] \in t.volumes \cap t.mounted /\ t.driveOf[ids[v]] = ids[DriveOf[v]]
<1> DEFINE drives == {ids[d] : d \in shown.present \cap Drives}
           volumes == {ids[v] : v \in shown.present \cap Volumes}
           mounted == {ids[v] : v \in shown.mounted}
           place == [v \in VolumeIds |-> IF v \in volumes THEN ids[DriveOf[v[1]]] ELSE None]
           t == TopologyOf(s)
<1>1. t = [drives |-> drives, volumes |-> volumes, sibling |-> [d \in DriveIds |-> None],
           driveOf |-> place, canEject |-> drives, canPowerOff |-> drives,
           filesystem |-> volumes, mounted |-> mounted]
  BY DEF TopologyOf
<1>2. drives \subseteq DriveIds /\ volumes \subseteq VolumeIds /\ mounted \subseteq volumes
  BY IdSorts DEF Sound
<1>3. \A v \in VolumeIds : DriveOf[v[1]] \in Drives
  BY ServiceConstants DEF VolumeIds, Backend!BackendConstants
<1>4. place \in [VolumeIds -> DriveIds \cup {None}]
  BY <1>3, IdSorts
<1>5. ASSUME NEW v \in shown.mounted
      PROVE  ids[v] \in volumes \cap mounted /\ place[ids[v]] = ids[DriveOf[v]]
  <2>1. v \in Volumes /\ v \in Backend!Objects /\ v \in shown.present
    BY DEF Sound, Backend!Objects
  <2>2. ids[v][1] = v /\ ids[v] \in volumes /\ ids[v] \in VolumeIds
    BY <1>2, <2>1, IdSorts
  <2> QED
    BY <2>2
<1> HIDE DEF drives, volumes, mounted, place
<1>6. t \in Snapshots
  BY <1>1, <1>2, <1>4 DEF Snapshots
<1> QED
  BY <1>1, <1>5, <1>6

(* A call that advance() makes. *)
Sensible(c) ==
  /\ c.operation \in Controller!Operations
  /\ c.operation \in Controller!Removals =>
       /\ c.target \in topology.drives
       /\ Controller!MountedIn(Controller!removalScope(c.target, c.operation = "PowerOff")) = {}

LEMMA AdvanceSensible ==
  ASSUME NEW r, NEW others, others \subseteq calls, Controller!Advance(r, others),
         asked[r].operation \in Controller!Operations
  PROVE  \A c \in calls' \ calls : Sensible(c)
<1>1. CASE calls' = others
  BY <1>1
<1>2. ASSUME NEW v, Controller!Execute(r, "Unmount", v, FALSE, others)
      PROVE  \A c \in calls' \ calls : Sensible(c)
  BY <1>2 DEF Controller!Execute, Sensible, Controller!Operations, Controller!Removals
<1>3. ASSUME ~Controller!Invalidated(r), Controller!FinalRefusal(r) = "none",
             Controller!Execute(r, asked[r].operation, asked[r].target, TRUE, others)
      PROVE  \A c \in calls' \ calls : Sensible(c)
  <2> SUFFICES ASSUME NEW c \in calls' \ calls
               PROVE  Sensible(c)
    OBVIOUS
  <2>1. c.operation = asked[r].operation /\ c.target = asked[r].target
    BY <1>3 DEF Controller!Execute
  <2>2. ASSUME c.operation \in Controller!Removals
        PROVE  /\ c.target \in topology.drives
               /\ Controller!MountedIn(
                    Controller!removalScope(c.target, c.operation = "PowerOff")) = {}
    <3>1. Controller!removalScope(c.target, c.operation = "PowerOff") = request[r].scope
      BY <1>3, <2>1, <2>2 DEF Controller!Invalidated
    <3>2. Controller!MountedIn(request[r].scope) = {} /\ Controller!Present(c.operation, c.target)
      BY <1>3, <2>1, <2>2 DEF Controller!FinalRefusal
    <3> QED
      BY <2>2, <3>1, <3>2 DEF Controller!Present
  <2> QED
    BY <2>1, <2>2 DEF Sensible
<1> QED
  BY <1>1, <1>2, <1>3 DEF Controller!Advance, Controller!FinishOne

LEMMA TimerSensible ==
  ASSUME NEW t, Controller!Timer(t),
         \A r \in pending : asked[r].operation \in Controller!Operations
  PROVE  /\ \A c \in calls' \ calls : Sensible(c)
         /\ UNCHANGED <<topology, asked>>
BY AdvanceSensible DEF Controller!Timer, Controller!FinishOne

LEMMA ReplySensible ==
  ASSUME NEW c, NEW error, Controller!Reply(c, error),
         \A r \in pending : asked[r].operation \in Controller!Operations
  PROVE  /\ \A e \in calls' \ calls : Sensible(e)
         /\ UNCHANGED <<topology, asked>>
<1>1. calls \ {c} \subseteq calls
  OBVIOUS
<1> QED
  BY <1>1, AdvanceSensible DEF Controller!Reply, Controller!FinishOne

LEMMA ExecuteLists ==
  ASSUME SInv, NEW n, n.operation \in Controller!Operations, Backend!execute(n)
  PROVE  /\ UNCHANGED <<ids, minted, generation, revision, completions, wire, held, world, shown>>
         /\ \A w \in sent' \ sent :
              /\ w.generation = generation /\ w.revision = 0
              /\ w.call.operation \in Controller!Operations
              /\ w.object \in IF w.call.operation \in Controller!Removals THEN Drives ELSE Volumes
BY DEF Backend!execute, Backend!historyVars, Controller!Removals

(* A handler of the controller, while nothing is emitted or on a result. *)
LEMMA HandledLists ==
  ASSUME IInv, SInv,
         IF calls' \subseteq calls THEN UNCHANGED backendVars
         ELSE \A c \in calls' \ calls : Backend!execute(c),
         \A c \in calls' \ calls : Sensible(c),
         UNCHANGED topology, DOMAIN asked' = RequestIds,
         \A r \in pending' : asked'[r].operation \in Controller!Operations,
         \/ emitted' = emitted
         \/ /\ emitted # <<>> /\ emitted' = Tail(emitted)
            /\ Head(emitted).signal = "operationFinished"
  PROVE  SInv'
<1>1. /\ UNCHANGED <<ids, minted, generation, revision, completions, wire, held, world, shown>>
      /\ \A w \in sent' \ sent :
           /\ w.generation = generation /\ w.revision = 0
           /\ w.call.operation \in Controller!Operations
           /\ w.object \in IF w.call.operation \in Controller!Removals THEN Drives ELSE Volumes
  <2>1. CASE calls' \subseteq calls
    BY <2>1 DEF backendVars
  <2>2. CASE ~(calls' \subseteq calls)
    <3>1. PICK n \in calls' \ calls : Backend!execute(n) /\ n.operation \in Controller!Operations
      BY <2>2 DEF Sensible
    <3> QED
      BY <3>1, ExecuteLists
  <2> QED
    BY <2>1, <2>2
<1>2. Replies' = Replies
  BY <1>1 DEF Replies
<1>3. Travelling'
  <2>1. generation \in Nat /\ revision \in Nat
    BY DEF SInv, Travelling
  <2> QED
    BY <1>1, <1>2, <2>1 DEF SInv, Travelling, Sound
<1>4. Awaited' /\ Identified' /\ Sound(world)' /\ Sound(shown)'
  BY <1>1, <1>2 DEF SInv, Awaited, Identified, Sound
<1>5. Emitted' /\ (Announcing' <=> Announcing)
  <2>1. CASE emitted' = emitted
    BY <1>1, <2>1 DEF SInv, Emitted, Announcing
  <2>2. CASE /\ emitted # <<>> /\ emitted' = Tail(emitted)
             /\ Head(emitted).signal = "operationFinished"
    <3>1. /\ 1 \in DOMAIN emitted /\ Head(emitted) = emitted[1]
          /\ \A i \in DOMAIN emitted' :
               i + 1 \in DOMAIN emitted /\ emitted'[i] = emitted[i + 1] /\ i + 1 # 1
      BY <2>2, TakenSequence DEF IInv, Sequences3
    <3>2. \A i \in DOMAIN emitted' :
            /\ emitted'[i].signal = "operationFinished"
            /\ emitted'[i].version \in Nat /\ emitted'[i].version <= shown.version
      BY <3>1 DEF SInv, Emitted
    <3>3. ~Announcing /\ ~Announcing'
      BY <2>2, <3>1, <3>2 DEF SInv, Emitted, Announcing
    <3> QED
      BY <1>1, <3>2, <3>3 DEF Emitted
  <2> QED
    BY <2>1, <2>2
<1>6. MountsListed'
  BY <1>1, <1>5 DEF SInv, MountsListed
<1> QED
  BY <1>3, <1>4, <1>5, <1>6 DEF SInv

(* The controller takes over a snapshot. *)
LEMMA ShownLists ==
  ASSUME IInv, SInv, IdsSuffice, emitted # <<>>, emitted' = Tail(emitted),
         Head(emitted).signal = "snapshotChanged", UNCHANGED backendVars,
         UNCHANGED asked, pending' \subseteq pending,
         IF Head(emitted).available THEN topology' = TopologyOf(Head(emitted))
                                    ELSE topology' = Controller!NoTopology
  PROVE  SInv'
<1> DEFINE s == Head(emitted)
<1>1. /\ UNCHANGED <<ids, minted, generation, revision, completions, wire, held, world, shown, sent>>
  BY DEF backendVars
<1>2. Replies' = Replies
  BY <1>1 DEF Replies
<1>3. Travelling' /\ Awaited' /\ Identified' /\ Sound(world)' /\ Sound(shown)'
  BY <1>1, <1>2 DEF SInv, Travelling, Awaited, Identified, Sound
<1>4. /\ 1 \in DOMAIN emitted /\ s = emitted[1]
      /\ \A i \in DOMAIN emitted' :
           i + 1 \in DOMAIN emitted /\ emitted'[i] = emitted[i + 1] /\ i + 1 # 1
  BY TakenSequence DEF IInv, Sequences3
<1>5. \A i \in DOMAIN emitted' :
        /\ emitted'[i].signal = "operationFinished"
        /\ emitted'[i].version \in Nat /\ emitted'[i].version <= shown.version
  BY <1>4 DEF SInv, Emitted
<1>6. Emitted'
  BY <1>1, <1>5 DEF Emitted
<1>7. CASE s.available
  <2>1. s.world = shown /\ s.ids = ids /\ \A o \in shown.present : ids[o] # None
    BY <1>4, <1>7 DEF SInv, Emitted
  <2>2. /\ topology' \in Snapshots
        /\ \A v \in shown.mounted :
             /\ ids[v] \in topology'.volumes \cap topology'.mounted
             /\ topology'.driveOf[ids[v]] = ids[DriveOf[v]]
    BY <1>7, <2>1, ListedTopology DEF SInv
  <2>3. MountsListed'
    BY <1>1, <2>2 DEF MountsListed
  <2> QED
    BY <1>3, <1>6, <2>2, <2>3 DEF SInv
<1>8. CASE ~s.available
  <2>1. shown = Backend!Nothing
    BY <1>4, <1>8 DEF SInv, Emitted
  <2>2. MountsListed'
    BY <1>1, <2>1 DEF MountsListed, Backend!Nothing
  <2>3. topology' \in Snapshots
    BY <1>8 DEF Controller!NoTopology, Snapshots
  <2> QED
    BY <1>3, <1>6, <2>2, <2>3 DEF SInv
<1> QED
  BY <1>7, <1>8

LEMMA InitLists == Init => SInv
<1> SUFFICES ASSUME Init
             PROVE  SInv
  OBVIOUS
<1>1. /\ generation = 0 /\ revision = 0 /\ completions = <<>> /\ emitted = <<>>
      /\ ids = Backend!NoIds /\ minted = [o \in Backend!Objects |-> 0]
      /\ wire = <<>> /\ sent = {} /\ held = {} /\ shown = Backend!Nothing
  BY DEF Init, Backend!Init
<1>2. /\ topology = Controller!NoTopology /\ pending = {}
      /\ asked = [r \in RequestIds |-> Controller!Unasked]
  BY DEF Init, Controller!Init
<1>3. world.version = 0 /\ world.mounted = {} /\ world.present \subseteq Backend!Objects
  BY DEF Init, Backend!Init
<1>4. Identified
  BY <1>1 DEF Identified, Backend!NoIds
<1>5. Sound(world) /\ Sound(shown)
  BY <1>1, <1>3, NothingSound DEF Sound
<1>6. Replies = {} /\ IsSequence(wire)
  BY <1>1, EmptySequence DEF Replies, RepliesIn
<1>7. Travelling
  BY <1>1, <1>6 DEF Travelling
<1>8. Awaited /\ Emitted
  BY <1>1, EmptySequence DEF Awaited, Emitted
<1>9. MountsListed
  BY <1>1 DEF MountsListed, Backend!Nothing
<1>10. topology \in Snapshots
  BY <1>2 DEF Controller!NoTopology, Snapshots
<1> QED
  BY <1>2, <1>4, <1>5, <1>7, <1>8, <1>9, <1>10 DEF SInv

(* What a controller step that handles no snapshot does. *)
LEMMA ReplyHandled ==
  ASSUME IInv, SInv, emitted # <<>>, emitted' = Tail(emitted),
         Head(emitted).signal = "operationFinished", NEW error,
         Executed(Controller!Reply(Head(emitted).call, error))
  PROVE  SInv' /\ \A c \in calls' \ calls : Sensible(c)
<1>1. /\ Controller!Reply(Head(emitted).call, error)
      /\ IF calls' \subseteq calls THEN UNCHANGED backendVars
         ELSE \A c \in calls' \ calls : Backend!execute(c)
  BY DEF Executed
<1>2. Head(emitted).call \in calls
  BY SignalTaken
<1>3. pending' \subseteq pending
  BY <1>1, <1>2, ReplyNumbers DEF IInv
<1>4. (\A c \in calls' \ calls : Sensible(c)) /\ UNCHANGED <<topology, asked>>
  BY <1>1, ReplySensible DEF SInv
<1> QED
  BY <1>1, <1>3, <1>4, HandledLists DEF SInv

LEMMA TimerHandled ==
  ASSUME IInv, SInv, Quiet, emitted' = emitted, NEW t, Executed(Controller!Timer(t))
  PROVE  SInv' /\ \A c \in calls' \ calls : Sensible(c)
<1>1. /\ Controller!Timer(t)
      /\ IF calls' \subseteq calls THEN UNCHANGED backendVars
         ELSE \A c \in calls' \ calls : Backend!execute(c)
  BY DEF Executed
<1>2. pending' \subseteq pending
  BY <1>1, TimerNumbers DEF IInv
<1>3. (\A c \in calls' \ calls : Sensible(c)) /\ UNCHANGED <<topology, asked>>
  BY <1>1, TimerSensible DEF SInv
<1> QED
  BY <1>1, <1>2, <1>3, HandledLists DEF SInv

LEMMA StepLists == IInv /\ SInv /\ IdsSuffice /\ IdsSuffice' /\ [Next]_vars => SInv'
<1> SUFFICES ASSUME IInv, SInv, IdsSuffice, IdsSuffice', [Next]_vars
             PROVE  SInv'
  OBVIOUS
<1>1. CASE Received
  <2> DEFINE s == Head(emitted)
  <2>1. emitted # <<>> /\ emitted' = Tail(emitted)
    BY <1>1 DEF Received
  <2>2. CASE /\ s.signal = "snapshotChanged" /\ UNCHANGED backendVars
             /\ IF s.available THEN Controller!Snapshot(TopologyOf(s)) ELSE Controller!Disconnect
    <3>1. /\ UNCHANGED asked /\ pending' \subseteq pending
          /\ IF s.available THEN topology' = TopologyOf(s)
                            ELSE topology' = Controller!NoTopology
      BY <2>2 DEF Controller!Snapshot, Controller!Disconnect, Controller!Finish
    <3> QED
      BY <2>1, <2>2, <3>1, ShownLists
  <2>3. CASE /\ s.signal = "operationFinished"
             /\ Executed(Controller!Reply(s.call, IF s.error = "none" THEN "none" ELSE "Upstream"))
    BY <2>1, <2>3, ReplyHandled
  <2> QED
    BY <1>1, <2>2, <2>3 DEF Received
<1>2. CASE Asked
  <2>1. UNCHANGED <<backendVars, emitted>>
    BY <1>2 DEF Asked
  <2>2. PICK r \in RequestIds, operation \in Controller!Operations : \E target, confirmed :
          Controller!Begin(r, operation, target, confirmed)
    BY <1>2 DEF Asked, Controller!Operations
  <2>3. /\ calls' = calls /\ pending' = pending \cup {r} /\ UNCHANGED topology
        /\ \E target, confirmed :
             asked' = [asked EXCEPT ![r] = [operation |-> operation, target |-> target,
                                            confirmed |-> confirmed]]
    BY <2>2 DEF Controller!Begin
  <2>4. DOMAIN asked' = RequestIds /\ \A q \in pending' : asked'[q].operation \in Controller!Operations
    BY <2>3 DEF SInv, IInv, Numbered
  <2> QED
    BY <2>1, <2>3, <2>4, HandledLists
<1>3. CASE Posted
  BY <1>3, TimerHandled DEF Posted
<1>4. CASE Forgotten
  <2>1. /\ UNCHANGED <<backendVars, emitted>> /\ UNCHANGED <<topology, asked, pending>>
        /\ calls' \subseteq calls
    BY <1>4 DEF Forgotten
  <2> QED
    BY <2>1, HandledLists DEF SInv
<1>5. CASE BackendStep
  BY <1>5, BackendStepLists
<1>6. CASE UNCHANGED vars
  <2>1. /\ UNCHANGED <<backendVars, emitted>> /\ UNCHANGED <<topology, asked, pending, calls>>
    BY <1>6 DEF vars, controllerVars
  <2> QED
    BY <2>1, HandledLists DEF SInv
<1> QED
  BY <1>1, <1>2, <1>3, <1>4, <1>5, <1>6 DEF Next

(* What is on its way is no newer than the world, what is shown mounted is  *)
(* listed on its drive, and a result is no newer than the snapshot it       *)
(* follows (refresh(), publish(), operationFinished).                       *)
THEOREM ServiceLists == Spec /\ []IdsSuffice => []SInv
BY ServiceInvariant, InitLists, StepLists, PTL DEF Spec

LEMMA SensibleRemoval ==
  ASSUME SInv, ~Announcing, NEW c, Sensible(c), c.operation \in Controller!Removals,
         NEW d \in Drives, ids[d] = c.target
  PROVE  shown.mounted \cap {v \in Volumes : DriveOf[v] = d} = {}
<1> SUFFICES ASSUME NEW v \in shown.mounted, v \in Volumes, DriveOf[v] = d
             PROVE  FALSE
  OBVIOUS
<1>1. /\ c.target \in topology.drives
      /\ Controller!MountedIn(Controller!removalScope(c.target, c.operation = "PowerOff")) = {}
  BY DEF Sensible
<1>2. c.target # None
  BY <1>1, ServiceConstants DEF SInv, Snapshots
<1>3. PICK x \in topology.volumes \cap topology.mounted : topology.driveOf[x] = c.target
  BY <1>2 DEF SInv, MountsListed
<1>4. x \in Controller!removalScope(c.target, c.operation = "PowerOff")
  BY <1>1, <1>3 DEF Controller!removalScope
<1> QED
  BY <1>1, <1>3, <1>4 DEF Controller!MountedIn

(* A removal makes its final call seeing what RemovalsSeeMounts says. *)
Seen ==
  \A c \in calls' \ calls, d \in Drives :
    (c.operation \in Controller!Removals /\ ids[d] = c.target) =>
      /\ shown.mounted \cap {v \in Volumes : DriveOf[v] = d} = {}
      /\ \A i \in DOMAIN emitted :
           emitted[i].signal = "operationFinished" => emitted[i].version <= shown.version

LEMMA StepSees == IInv /\ SInv /\ [Next]_vars => [Seen]_vars
<1> SUFFICES ASSUME IInv, SInv, [Next]_vars, NEW c \in calls' \ calls
             PROVE  Sensible(c) /\ ~Announcing
  <2>1. ~Announcing /\ SInv => \A i \in DOMAIN emitted : emitted[i].version <= shown.version
    BY DEF SInv, Emitted, Announcing
  <2>2. ASSUME IInv, SInv, [Next]_vars, \A c \in calls' \ calls : Sensible(c) /\ ~Announcing
        PROVE  Seen
    <3> SUFFICES ASSUME NEW c \in calls' \ calls, NEW d \in Drives,
                        c.operation \in Controller!Removals, ids[d] = c.target
                 PROVE  /\ shown.mounted \cap {v \in Volumes : DriveOf[v] = d} = {}
                        /\ \A i \in DOMAIN emitted : emitted[i].version <= shown.version
      BY DEF Seen
    <3>1. Sensible(c) /\ ~Announcing
      BY <2>2
    <3> QED
      BY <2>1, <2>2, <3>1, SensibleRemoval
  <2> QED
    BY <2>2
<1>1. CASE Received
  <2> DEFINE s == Head(emitted)
  <2>1. emitted # <<>> /\ emitted' = Tail(emitted)
    BY <1>1 DEF Received
  <2>2. CASE IF s.available THEN Controller!Snapshot(TopologyOf(s)) ELSE Controller!Disconnect
    BY <2>2 DEF Controller!Snapshot, Controller!Disconnect
  <2>3. CASE /\ s.signal = "operationFinished"
             /\ Executed(Controller!Reply(s.call, IF s.error = "none" THEN "none" ELSE "Upstream"))
    <3>1. Sensible(c)
      BY <2>1, <2>3, ReplyHandled
    <3>2. 1 \in DOMAIN emitted /\ s = emitted[1]
      BY <2>1, TakenSequence DEF IInv, Sequences3
    <3>3. ~Announcing
      BY <2>3, <3>2 DEF SInv, Emitted, Announcing
    <3> QED
      BY <3>1, <3>3
  <2> QED
    BY <1>1, <2>2, <2>3 DEF Received
<1>2. CASE Posted
  <2>1. PICK t : Executed(Controller!Timer(t))
    BY <1>2 DEF Posted
  <2>2. Sensible(c)
    BY <1>2, <2>1, TimerHandled DEF Posted
  <2> QED
    BY <1>2, <2>2, EmptySequence DEF Posted, Quiet, Announcing
<1>3. CASE Asked \/ Forgotten \/ BackendStep \/ UNCHANGED vars
  BY <1>3 DEF Asked, Controller!Begin, Forgotten, BackendStep, controllerVars, vars
<1> QED
  BY <1>1, <1>2, <1>3 DEF Next

(* A removal makes its final call only when nothing on the drive is shown   *)
(* mounted, in a snapshot no older than the unmount that let it go on       *)
(* (advance() over the snapshot that publish() emits before the results).   *)
THEOREM RemovalsAreSeen == Spec /\ []IdsSuffice => RemovalsSeeMounts
BY ServiceInvariant, ServiceLists, StepSees, PTL DEF Spec, RemovalsSeeMounts, Seen

-----------------------------------------------------------------------------
(* The service is a StorageController over some backend. *)

LEMMA AskedBegins ==
  ASSUME topology \in Snapshots, Asked
  PROVE  Controller!Next
<1>1. /\ topology.volumes \subseteq VolumeIds /\ topology.drives \subseteq DriveIds
      /\ \A d : Controller!removalScope(d, TRUE) \subseteq DriveIds \cup VolumeIds
  BY DEF Snapshots, Controller!removalScope
<1>2. PICK r \in RequestIds :
        \/ \E v \in topology.volumes, operation \in {"Mount", "Unmount"} :
             Controller!Begin(r, operation, v, {})
        \/ \E d \in topology.drives :
             \/ Controller!Begin(r, "Eject", d, {})
             \/ Controller!Begin(r, "PowerOff", d, Controller!removalScope(d, TRUE))
  BY DEF Asked
<1>3. CASE \E v \in topology.volumes, operation \in {"Mount", "Unmount"} :
             Controller!Begin(r, operation, v, {})
  BY <1>1, <1>3 DEF Controller!Next
<1>4. CASE \E d \in topology.drives : Controller!Begin(r, "Eject", d, {})
  BY <1>1, <1>4 DEF Controller!Next
<1>5. ASSUME NEW d \in topology.drives,
             Controller!Begin(r, "PowerOff", d, Controller!removalScope(d, TRUE))
      PROVE  Controller!Next
  <2>1. d \in DriveIds /\ Controller!removalScope(d, TRUE) \in SUBSET (DriveIds \cup VolumeIds)
    BY <1>1
  <2> QED
    BY <1>5, <2>1 DEF Controller!Next
<1> QED
  BY <1>2, <1>3, <1>4, <1>5

LEMMA StepControls ==
  IInv /\ SInv /\ SInv' /\ [Next]_vars => [Controller!Next]_(Controller!vars)
<1> SUFFICES ASSUME IInv, SInv, SInv', [Next]_vars
             PROVE  Controller!Next \/ UNCHANGED Controller!vars
  OBVIOUS
<1>1. CASE Received
  <2> DEFINE s == Head(emitted)
             error == IF s.error = "none" THEN "none" ELSE "Upstream"
  <2>1. CASE s.available /\ Controller!Snapshot(TopologyOf(s))
    <3>1. topology' = TopologyOf(s) /\ topology' \in Snapshots
      BY <2>1 DEF Controller!Snapshot, SInv
    <3>2. Controller!Snapshot(topology')
      BY <2>1, <3>1
    <3> QED
      BY <3>1, <3>2 DEF Controller!Next
  <2>2. CASE Controller!Disconnect
    BY <2>2 DEF Controller!Next
  <2>3. CASE s.signal = "operationFinished" /\ Executed(Controller!Reply(s.call, error))
    <3>1. s.call \in calls
      BY <1>1, <2>3, SignalTaken DEF Received
    <3>2. Controller!Reply(s.call, error) /\ error \in Controller!Answers
      BY <2>3 DEF Executed, Controller!Answers
    <3> QED
      BY <3>1, <3>2 DEF Controller!Next
  <2> QED
    BY <1>1, <2>1, <2>2, <2>3 DEF Received
<1>2. CASE Asked
  BY <1>2, AskedBegins DEF SInv
<1>3. CASE Posted
  BY <1>3 DEF Posted, Executed, Controller!Next
<1>4. CASE Forgotten
  <2>1. PICK c \in calls : Places(c) = {} /\ calls' = calls \ {c}
    BY <1>4 DEF Forgotten
  <2>2. c.request \notin pending
    BY <1>4, <2>1, InOnePlace DEF Forgotten, CallsInOnePlace
  <2>3. Controller!Forget(c)
    BY <1>4, <2>1, <2>2 DEF Forgotten, Controller!Forget
  <2> QED
    BY <2>1, <2>3 DEF Controller!Next
<1>5. CASE BackendStep \/ UNCHANGED vars
  BY <1>5 DEF BackendStep, vars, controllerVars, Controller!vars
<1> QED
  BY <1>1, <1>2, <1>3, <1>4, <1>5 DEF Next

(* The service implements StorageController: UDisks2Backend honours the     *)
(* StorageBackend interface, so what holds of the controller over any       *)
(* backend holds of the service.                                            *)
THEOREM ServiceIsController == Spec /\ []IdsSuffice => Controller!Spec
<1>1. Init => Controller!Init
  BY DEF Init
<1> QED
  BY <1>1, ServiceInvariant, ServiceLists, StepControls, PTL DEF Spec, Controller!Spec

=============================================================================
