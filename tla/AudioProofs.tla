------------------------------ MODULE AudioProofs ------------------------------
(***************************************************************************)
(* Two sets of theorems about audio.                                       *)
(*                                                                         *)
(* The audio models end up equal to the sound server: AudioController's    *)
(* ModelsConverge, ControlsDefault and UnavailableShowsNoStreams, for any  *)
(* objects and bounds.  The properties speak of the moments at which       *)
(* nothing is on its way.  What is on its way passes two queues, down and  *)
(* posted, and the last word about a row decides it.  The invariant says   *)
(* of each row that either it will be read again (a question is queued, or *)
(* news that will be asked about), or the last word about it is already    *)
(* the server's: in down, else in posted, else in the row itself.  What is *)
(* gone is never asked about again, so its removal must be the last word   *)
(* from the start.                                                         *)
(*                                                                         *)
(* The microphone and the reconnect timer of PulseAudioBackend, for any    *)
(* retry ceilings and bounds: RetriesBounded, MicrophoneOnlyOnRequest and  *)
(* LevelSettles.  A connection attempt is paid for in advance: by the      *)
(* attempt that was counted when the timer was started, by the first       *)
(* start(), or by the stop() before it.  The meter settles because what    *)
(* may still be queued when the last user leaves comes before the silence  *)
(* queued then.                                                            *)
(***************************************************************************)
EXTENDS AudioController, PulseAudioBackend, Functions, TLAPS

Targets == {Kinds[k] : k \in 1..4} \X Nat
Entries == [volume : Volumes \cup {"gone"}, default : BOOLEAN]

Requests ==
  [op : {"subscribe", "server"}, items : {{}}]
    \cup [op : {"info"}, items : SUBSET Objects]
    \cup [op : {"channels", "set"}, items : Targets \X Volumes]
    \cup [op : {"setDefault"}, items : Devices \X {"none"}]

Messages ==
  [type : {"changed", "removed", "server", "serverChanged"}, items : SUBSET Objects]
    \cup [type : {"info"}, items : SUBSET (Objects \X Volumes)]
    \cup [type : {"channels"}, items : Targets \X Volumes]

Calls ==
  [name : {"ready", "lost"}, items : {{}}]
    \cup [name : {"removed"}, items : SUBSET Objects]
    \cup [name : {"apply"}, items : SUBSET (Objects \X Entries)]

Types ==
  /\ world \in [Objects -> Volumes \cup {"gone"}]
  /\ default \in Defaults(world)
  /\ connected \in BOOLEAN /\ subscribed \in BOOLEAN /\ available \in BOOLEAN
  /\ up \in Seq(Requests) /\ down \in Seq(Messages) /\ posted \in Seq(Calls)
  /\ names \subseteq Objects
  /\ shown \in [Objects -> Entries]
  /\ default_output \subseteq Objects
  /\ losses \in Nat

-----------------------------------------------------------------------------
(* The connection and the calls it has posted.                               *)

(* The GUI thread hears of a connection first, and of its loss last; the     *)
(* next connection waits until it has.                                       *)
Sessions ==
  /\ \A k \in DOMAIN posted :
       /\ posted[k].name = "ready" => k = 1 /\ ~available
       /\ posted[k].name = "lost" => k = Len(posted) /\ ~connected
  /\ ~available => posted = <<>> \/ posted[1].name = "ready"
  /\ ~connected => IF posted = <<>> THEN ~available ELSE posted[Len(posted)].name = "lost"
  /\ connected => available \/ posted # <<>>

(* Nothing travels without a connection, and nothing is told before the      *)
(* subscription, which is the first request; the first question follows it.  *)
Subscribed ==
  /\ ~connected => up = <<>> /\ down = <<>> /\ ~subscribed
  /\ connected /\ ~subscribed =>
       /\ Len(up) >= 2 /\ up[1].op = "subscribe" /\ up[2].op = "server"
       /\ down = <<>> /\ \A k \in DOMAIN posted : posted[k].name = "ready"
       /\ \A o \in Streams : shown[o] = Absent

(* Before the first connection nothing has been read.                        *)
Unread ==
  losses = 0 /\ ~subscribed =>
    /\ \A o \in Objects : shown[o] = Absent
    /\ \A k \in DOMAIN posted : posted[k].name = "ready"

-----------------------------------------------------------------------------
(* The last word in a queue: something in "right", and nothing in "wrong"    *)
(* after it.                                                                 *)
Prevails(queue, right, wrong) ==
  \E k \in DOMAIN queue :
    queue[k] \in right /\ \A j \in DOMAIN queue : j > k => queue[j] \notin wrong

Spared(queue, wrong) == Range(queue) \cap wrong = {}

(* What a place of the view will hold when all that is on its way has been   *)
(* applied is wanted: "now" is what it holds.                                *)
Ends(messages, calls, now, goal) ==
  \/ Prevails(messages, goal.read, goal.misread)
  \/ /\ Spared(messages, goal.misread)
     /\ \/ Prevails(calls, goal.set, goal.reset)
        \/ Spared(calls, goal.reset) /\ now = goal.wanted

Items(items, objects) == {i \in items : i[1] \in objects}

(* Messages and calls that say of these objects just what "items" says, and  *)
(* those that say something else.                                            *)
Say(queue, objects, items) == {m \in queue : Items(m.items, objects) = items}
Gainsay(queue, objects, items) == {m \in queue : ~(Items(m.items, objects) \subseteq items)}

Infos == {m \in Messages : m.type = "info"}
Applies == {c \in Calls : c.name = "apply"}
Removals(o) == {m \in Messages : m.type = "removed" /\ o \in m.items}
RemoveCalls(o) == {c \in Calls : c.name = "removed" /\ o \in c.items}

(* A row that exists: its volume and whether it is the default.              *)
Row(o) == [volume |-> world[o], default |-> o \in default]
RowGoal(o) ==
  [read    |-> Say(Infos, {o}, {<<o, world[o]>>}),
   misread |-> Gainsay(Infos, {o}, {<<o, world[o]>>}) \cup Removals(o),
   set     |-> Say(Applies, {o}, {<<o, Row(o)>>}),
   reset   |-> Gainsay(Applies, {o}, {<<o, Row(o)>>}) \cup RemoveCalls(o),
   wanted  |-> Row(o)]

(* A row that does not.                                                      *)
GoneGoal(o) ==
  [read    |-> Removals(o),
   misread |-> Gainsay(Infos, {o}, {}),
   set     |-> RemoveCalls(o),
   reset   |-> Gainsay(Applies, {o}, {}),
   wanted  |-> Absent]

(* The output that is controlled, and its volume: d is the default sink.     *)
Flagged(items) == {i \in items : i[1] \in Of("sink") /\ i[2].default}
OutputGoal(d) ==
  [read    |-> Say(Infos, Of("sink") \cap names, {<<d, world[d]>>}),
   misread |-> Gainsay(Infos, Of("sink") \cap names, {<<d, world[d]>>}) \cup Removals(d),
   set     |-> {c \in Applies : Flagged(c.items) = {<<d, Row(d)>>}},
   reset   |-> {c \in Applies : ~(Flagged(c.items) \subseteq {<<d, Row(d)>>})} \cup RemoveCalls(d),
   wanted  |-> <<{d}, world[d]>>]

(* The defaults will be asked for, or an object read again.                  *)
AsksFor(r, o) == r.op = "server" \/ (r.op = "info" /\ o \in r.items)
LeadsTo(m, o) == m.type \in {"server", "serverChanged"} \/ (m.type = "changed" /\ o \in m.items)
Reread(o) == (\E r \in Range(up) : AsksFor(r, o)) \/ (\E m \in Range(down) : LeadsTo(m, o))

(* The names last told are the server's, or will be asked for.               *)
ServerMessages(names_) == {m \in Messages : m.type = "server" /\ m.items \in names_}
NamesCurrent ==
  \/ \E r \in Range(up) : r.op = "server"
  \/ \E m \in Range(down) : m.type = "serverChanged"
  \/ Prevails(down, ServerMessages({default}), ServerMessages((SUBSET Objects) \ {default}))
  \/ Spared(down, ServerMessages((SUBSET Objects) \ {default})) /\ names = default

RowsCurrent ==
  \A o \in Objects \ Monitors : world[o] # "gone" /\ ~Reread(o) => Ends(down, posted, shown[o], RowGoal(o))

GoneCurrent ==
  \A o \in Objects : world[o] = "gone" /\ (o \in Streams \/ losses = 0) =>
    Ends(down, posted, shown[o], GoneGoal(o))

OutputCurrent ==
  \A d \in default \cap Of("sink") :
    ~Reread(d) => Ends(down, posted, <<default_output, volume>>, OutputGoal(d))

SessionInv == Types /\ Sessions /\ Subscribed /\ Unread /\ UnavailableShowsNoStreams
OutputInv == connected => NamesCurrent /\ OutputCurrent
RowsInv == connected => RowsCurrent /\ GoneCurrent

(* The indexes of streams tell streams apart: playback and recording streams *)
(* share none.                                                               *)
DistinctStreams == \A o, p \in Streams : o[2] = p[2] => o = p
-----------------------------------------------------------------------------
(* Queues.                                                                   *)

LEMMA Appended ==
  ASSUME NEW S, NEW s \in Seq(S), NEW m \in S
  PROVE  /\ Append(s, m) \in Seq(S) /\ Append(s, m) # <<>> /\ s \o <<m>> = Append(s, m)
         /\ Range(Append(s, m)) = Range(s) \cup {m}
<1>1. /\ Append(s, m) \in Seq(S) /\ Append(s, m) # <<>> /\ s \o <<m>> = Append(s, m)
      /\ Len(s) \in Nat /\ Len(Append(s, m)) = Len(s) + 1 /\ Append(s, m)[Len(s) + 1] = m
      /\ \A k \in 1..Len(s) : Append(s, m)[k] = s[k]
  OBVIOUS
<1>2. Range(Append(s, m)) \subseteq Range(s) \cup {m}
  BY <1>1 DEF Range
<1>3. Range(s) \subseteq Range(Append(s, m)) /\ m \in Range(Append(s, m))
  BY <1>1 DEF Range
<1> QED
  BY <1>1, <1>2, <1>3

LEMMA Taken ==
  ASSUME NEW S, NEW s \in Seq(S), s # <<>>
  PROVE  /\ Tail(s) \in Seq(S) /\ Head(s) \in S /\ Head(s) = s[1] /\ 1 \in DOMAIN s
         /\ Range(s) = {Head(s)} \cup Range(Tail(s))
         /\ Len(Tail(s)) = Len(s) - 1
         /\ \A k \in DOMAIN Tail(s) : k \in Nat /\ k + 1 \in DOMAIN s /\ Tail(s)[k] = s[k + 1]
<1>1. /\ Tail(s) \in Seq(S) /\ Head(s) \in S /\ Head(s) = s[1] /\ Len(s) \in Nat /\ Len(s) >= 1
      /\ Len(Tail(s)) = Len(s) - 1
      /\ \A k \in 1..(Len(s) - 1) : Tail(s)[k] = s[k + 1]
  OBVIOUS
<1>2. 1 \in DOMAIN s /\ \A k \in DOMAIN Tail(s) : k \in Nat /\ k + 1 \in DOMAIN s /\ Tail(s)[k] = s[k + 1]
  BY <1>1
<1>3. {Head(s)} \cup Range(Tail(s)) \subseteq Range(s)
  BY <1>1, <1>2 DEF Range
<1>4. ASSUME NEW k \in DOMAIN s PROVE s[k] \in {Head(s)} \cup Range(Tail(s))
  <2>1. k = 1 \/ (k - 1 \in DOMAIN Tail(s) /\ Tail(s)[k - 1] = s[k])
    BY <1>1
  <2> QED
    BY <1>1, <2>1 DEF Range
<1> QED
  BY <1>1, <1>2, <1>3, <1>4 DEF Range

(* What prevails in a queue, when it grows and when its head is taken.       *)
LEMMA PrevailsAppended ==
  ASSUME NEW S, NEW s \in Seq(S), NEW m \in S, NEW R, NEW W
  PROVE  /\ m \in R => Prevails(Append(s, m), R, W)
         /\ m \notin W /\ Prevails(s, R, W) => Prevails(Append(s, m), R, W)
         /\ m \notin W /\ Spared(s, W) => Spared(Append(s, m), W)
<1>1. /\ Len(s) \in Nat /\ Len(Append(s, m)) = Len(s) + 1 /\ Append(s, m)[Len(s) + 1] = m
      /\ \A k \in 1..Len(s) : Append(s, m)[k] = s[k]
  OBVIOUS
<1>2. /\ DOMAIN s = 1..Len(s) /\ DOMAIN Append(s, m) = 1..(Len(s) + 1)
      /\ \A k \in 1..(Len(s) + 1) : k \in 1..Len(s) \/ k = Len(s) + 1
      /\ \A k \in 1..Len(s) : ~(k > Len(s) + 1) /\ Len(s) + 1 > k
      /\ Len(s) + 1 \in 1..(Len(s) + 1) /\ ~(Len(s) + 1 > Len(s) + 1)
      /\ 1..Len(s) \subseteq 1..(Len(s) + 1)
  BY <1>1
<1>3. m \in R => Prevails(Append(s, m), R, W)
  BY <1>1, <1>2 DEF Prevails
<1>4. m \notin W /\ Prevails(s, R, W) => Prevails(Append(s, m), R, W)
  BY <1>1, <1>2 DEF Prevails
<1>5. m \notin W /\ Spared(s, W) => Spared(Append(s, m), W)
  BY Appended DEF Spared
<1> QED
  BY <1>3, <1>4, <1>5

LEMMA PrevailsTaken ==
  ASSUME NEW S, NEW s \in Seq(S), s # <<>>, NEW R, NEW W
  PROVE  /\ Prevails(s, R, W) =>
              Prevails(Tail(s), R, W) \/ (Head(s) \in R /\ Spared(Tail(s), W))
         /\ Spared(s, W) => Head(s) \notin W /\ Spared(Tail(s), W)
<1>1. /\ Head(s) = s[1] /\ Range(s) = {Head(s)} \cup Range(Tail(s))
      /\ \A k \in DOMAIN Tail(s) : k \in Nat /\ k + 1 \in DOMAIN s /\ Tail(s)[k] = s[k + 1]
  BY Taken
<1>2. ASSUME NEW k \in DOMAIN s, s[k] \in R, \A j \in DOMAIN s : j > k => s[j] \notin W, k = 1
      PROVE  Head(s) \in R /\ Spared(Tail(s), W)
  <2>1. \A j \in DOMAIN Tail(s) : j + 1 > 1 /\ Tail(s)[j] \notin W
    <3> SUFFICES ASSUME NEW j \in DOMAIN Tail(s) PROVE j + 1 > 1 /\ Tail(s)[j] \notin W
      OBVIOUS
    <3>1. j \in 1..(Len(s) - 1)
      OBVIOUS
    <3> QED
      BY <1>1, <1>2, <3>1
  <2> QED
    BY <1>1, <1>2, <2>1 DEF Spared, Range
<1>3. ASSUME NEW k \in DOMAIN s, s[k] \in R, \A j \in DOMAIN s : j > k => s[j] \notin W, k # 1
      PROVE  Prevails(Tail(s), R, W)
  <2>1. k - 1 \in DOMAIN Tail(s) /\ (k - 1) + 1 = k /\ k \in Nat
    BY <1>3
  <2>2. \A j \in DOMAIN Tail(s) : j > k - 1 => j + 1 > k
    BY <1>1, <2>1
  <2> QED
    BY <1>1, <1>3, <2>1, <2>2 DEF Prevails
<1> QED
  BY <1>1, <1>2, <1>3 DEF Prevails, Spared

(* How a goal is kept: by what is appended, by a message that becomes a call *)
(* of its kind or leads to none, and by a call that does what it says.       *)
LEMMA EndsKept ==
  ASSUME NEW d \in Seq(Messages), NEW p \in Seq(Calls), NEW now, NEW goal, Ends(d, p, now, goal)
  PROVE  /\ \A m \in Messages : m \in goal.read \/ m \notin goal.misread =>
              Ends(Append(d, m), p, now, goal)
         /\ \A c \in Calls : c \notin goal.reset => Ends(d, Append(p, c), now, goal)
         /\ d # <<>> /\ Head(d) \notin goal.read => Ends(Tail(d), p, now, goal)
         /\ d # <<>> => \A c \in Calls :
              /\ Head(d) \in goal.read => c \in goal.set
              /\ Head(d) \notin goal.misread => c \notin goal.reset
              => Ends(Tail(d), Append(p, c), now, goal)
         /\ p # <<>> => \A after :
              /\ Head(p) \in goal.set => after = goal.wanted
              /\ Head(p) \notin goal.reset /\ now = goal.wanted => after = goal.wanted
              => Ends(d, Tail(p), after, goal)
BY PrevailsAppended, PrevailsTaken DEF Ends

(* A queue grown by no, one or two elements.                                 *)
Longer(s, t, new) ==
  \/ t = s /\ new = {}
  \/ \E a \in new : new = {a} /\ t = Append(s, a)
  \/ \E a, b \in new : new = {a, b} /\ t = Append(Append(s, a), b)

LEMMA LongerTyped ==
  ASSUME NEW S, NEW s \in Seq(S), NEW new \in SUBSET S, NEW t, Longer(s, t, new)
  PROVE  t \in Seq(S) /\ Range(t) = Range(s) \cup new
<1>1. CASE t = s /\ new = {}
  BY <1>1
<1>2. ASSUME NEW a \in new, new = {a}, t = Append(s, a) PROVE t \in Seq(S) /\ Range(t) = Range(s) \cup new
  BY <1>2, Appended
<1>3. ASSUME NEW a \in new, NEW b \in new, new = {a, b}, t = Append(Append(s, a), b)
      PROVE  t \in Seq(S) /\ Range(t) = Range(s) \cup new
  <2>1. Append(s, a) \in Seq(S) /\ Range(Append(s, a)) = Range(s) \cup {a}
    BY Appended
  <2> DEFINE u == Append(s, a)
  <2>2. u \in Seq(S) /\ t = Append(u, b) /\ b \in S
    BY <1>3, <2>1
  <2> HIDE DEF u
  <2>3. t \in Seq(S) /\ Range(t) = Range(u) \cup {b}
    BY <2>2, Appended
  <2> QED
    BY <1>3, <2>1, <2>3 DEF u
<1> QED
  BY <1>1, <1>2, <1>3 DEF Longer

LEMMA EndsLonger ==
  ASSUME NEW d \in Seq(Messages), NEW p \in Seq(Calls), NEW now, NEW goal,
         NEW new \in SUBSET Messages, NEW t, Longer(d, t, new),
         \A m \in new : m \in goal.read \/ m \notin goal.misread,
         Ends(d, p, now, goal) \/ \E m \in new : m \in goal.read
  PROVE  Ends(t, p, now, goal)
<1>e. ASSUME NEW e \in Seq(Messages), NEW m \in goal.read, m \in Messages
      PROVE  Ends(Append(e, m), p, now, goal)
  BY <1>e, PrevailsAppended DEF Ends
<1>1. CASE t = d /\ new = {}
  BY <1>1
<1>2. ASSUME NEW a \in new, new = {a}, t = Append(d, a) PROVE Ends(t, p, now, goal)
  BY <1>e, <1>2, EndsKept
<1>3. ASSUME NEW a \in new, NEW b \in new, new = {a, b}, t = Append(Append(d, a), b)
      PROVE  Ends(t, p, now, goal)
  <2>1. Append(d, a) \in Seq(Messages)
    BY Appended
  <2>2. b \in goal.read => Ends(t, p, now, goal)
    BY <1>e, <1>3, <2>1
  <2>3. b \notin goal.read => b \notin goal.misread /\ Ends(Append(d, a), p, now, goal)
    BY <1>e, <1>3, EndsKept
  <2> QED
    BY <1>3, <2>1, <2>2, <2>3, EndsKept
<1> QED
  BY <1>1, <1>2, <1>3 DEF Longer

-----------------------------------------------------------------------------
(* Types.                                                                    *)

LEMMA KindsAre ==
  /\ \A kind : Of(kind) \subseteq Objects
  /\ Devices \subseteq Objects /\ Streams \subseteq Objects /\ Devices \cap Streams = {}
  /\ Of("sink") \subseteq Devices /\ Of("source") \subseteq Devices
  /\ Of("sink") \cap Of("source") = {}
  /\ \A o \in Devices : o[1] \in {"sink", "source"} /\ o \in Of(o[1])
  /\ \A o \in Objects : o \in Targets /\ o[2] \in Nat
  /\ \A o \in Objects : \E k \in 1..4 : o \in Of(Kinds[k])
BY ObjectsAssumption DEF Of, Devices, Streams, Targets, Kinds

(* A kind has at most one default device, and one if it has any device.      *)
LEMMA DefaultsAre ==
  ASSUME NEW w, NEW d \in Defaults(w)
  PROVE  /\ d \subseteq Devices /\ \A o \in d : w[o] # "gone"
         /\ \A kind \in {"sink", "source"} : \A o \in d \cap Of(kind) : d \cap Of(kind) = {o}
         /\ \A kind \in {"sink", "source"} :
              Alive(w, Of(kind)) # {} => \E o \in d : d \cap Of(kind) = {o}
<1>1. /\ d \subseteq Devices /\ \A o \in d : w[o] # "gone"
      /\ \A kind \in {"sink", "source"} :
              Alive(w, Of(kind)) # {} => \E o \in d : d \cap Of(kind) = {o}
  BY DEF Defaults, Alive
<1>2. \A kind : \A o \in d \cap Of(kind) : o \in Alive(w, Of(kind))
  BY <1>1 DEF Alive
<1> QED
  BY <1>1, <1>2

LEMMA MessagesAre ==
  /\ \A type \in {"changed", "removed", "server", "serverChanged"}, items \in SUBSET Objects :
       Message(type, items) \in Messages
  /\ \A items \in SUBSET (Objects \X Volumes) : Message("info", items) \in Messages
  /\ \A items \in Targets \X Volumes : Message("channels", items) \in Messages
  /\ \A type, items : Message(type, items).type = type /\ Message(type, items).items = items
BY DEF Message, Messages

LEMMA RequestsAre ==
  /\ \A op \in {"subscribe", "server"} : Request(op, {}) \in Requests
  /\ \A items \in SUBSET Objects : Request("info", items) \in Requests
  /\ \A op \in {"channels", "set"}, items \in Targets \X Volumes : Request(op, items) \in Requests
  /\ \A items \in Devices \X {"none"} : Request("setDefault", items) \in Requests
  /\ \A op, items : Request(op, items).op = op /\ Request(op, items).items = items
BY DEF Request, Requests

LEMMA CallsAre ==
  /\ \A name \in {"ready", "lost"} : Call(name, {}) \in Calls
  /\ \A items \in SUBSET Objects : Call("removed", items) \in Calls
  /\ \A items \in SUBSET (Objects \X Entries) : Call("apply", items) \in Calls
  /\ \A name, items : Call(name, items).name = name /\ Call(name, items).items = items
BY DEF Call, Calls

LEMMA InitSession == Init => SessionInv
<1> SUFFICES ASSUME Init PROVE SessionInv
  OBVIOUS
<1>1. Absent \in Entries
  BY DEF Absent, Entries
<1>2. Types
  <2>1. world \in [Objects -> Volumes \cup {"gone"}]
    BY DEF Init, Volumes
  <2>2. up \in Seq(Requests) /\ down \in Seq(Messages) /\ posted \in Seq(Calls)
    BY DEF Init
  <2>3. shown \in [Objects -> Entries]
    BY <1>1 DEF Init
  <2> QED
    BY <2>1, <2>2, <2>3 DEF Init, Types
<1>3. Sessions /\ Subscribed
  BY DEF Init, Sessions, Subscribed
<1>4. Unread /\ UnavailableShowsNoStreams
  BY DEF Init, Unread, UnavailableShowsNoStreams, Streams
<1> QED
  BY <1>2, <1>3, <1>4 DEF SessionInv

-----------------------------------------------------------------------------
(* What the server does, as its clients see it: "new" is what it announces.  *)

Announced(new) ==
  /\ Longer(down, down', new)
  /\ world' \in [Objects -> Volumes \cup {"gone"}] /\ default' \in Defaults(world')
  /\ \A m \in new : /\ m \in Messages /\ m.type \in {"changed", "removed", "serverChanged", "channels"}
                    /\ m.type = "removed" => \A o \in m.items : world'[o] = "gone"
  /\ subscribed =>
       /\ default' # default => \E m \in new : m.type = "serverChanged"
       /\ \A o \in Objects : world'[o] # world[o] =>
            IF world'[o] = "gone" THEN \E m \in new : m \in Removals(o)
            ELSE \E m \in new : m.type = "changed" /\ o \in m.items

LEMMA ChangeAnnounced ==
  ASSUME Types, NEW x \in Objects, Change(x)
  PROVE  /\ \E new \in SUBSET Messages : Announced(new)
         /\ ~subscribed => down' = down
<1> DEFINE object == Message(IF world'[x] = "gone" THEN "removed" ELSE "changed", {x})
           defaults == Message("serverChanged", {})
<1>1. /\ object \in Messages /\ object.items = {x}
      /\ object.type = IF world'[x] = "gone" THEN "removed" ELSE "changed"
      /\ defaults \in Messages /\ defaults.type = "serverChanged"
  BY MessagesAre
<1>2. /\ world' \in [Objects -> Volumes \cup {"gone"}] /\ default' \in Defaults(world')
      /\ \A o \in Objects : o # x => world'[o] = world[o]
  BY DEF Types, Change
<1>3. IF ~subscribed THEN down' = down
      ELSE IF default' = default THEN down' = Append(down, object)
      ELSE down' \in {down \o <<object, defaults>>, down \o <<defaults, object>>}
  BY DEF Change
<1>4. object \in Removals(x) \/ (object.type = "changed" /\ world'[x] # "gone")
  BY <1>1 DEF Removals
<1>x. world'[x] = "gone" => object \in Removals(x)
  BY <1>1, <1>4
<1> HIDE DEF object, defaults
<1>5. \A m, n \in Messages : down \o <<m, n>> = Append(Append(down, m), n)
  BY DEF Types
<1>6. CASE ~subscribed
  <2>1. Longer(down, down', {})
    BY <1>3, <1>6 DEF Longer
  <2> QED
    BY <1>2, <1>3, <1>6, <2>1 DEF Announced
<1>7. CASE subscribed /\ default' = default
  <2>1. Longer(down, down', {object})
    BY <1>3, <1>7 DEF Longer
  <2>2. Announced({object})
    BY <1>1, <1>2, <1>x, <1>7, <2>1 DEF Announced
  <2> QED
    BY <1>1, <1>7, <2>2
<1>8. CASE subscribed /\ default' # default
  <2>1. Longer(down, down', {object, defaults})
    BY <1>1, <1>3, <1>5, <1>8 DEF Longer
  <2>2. \A o \in Objects : world'[o] # world[o] =>
            IF world'[o] = "gone" THEN \E m \in {object, defaults} : m \in Removals(o)
            ELSE \E m \in {object, defaults} : m.type = "changed" /\ o \in m.items
    BY <1>1, <1>2, <1>x
  <2>3. Announced({object, defaults})
    BY <1>1, <1>2, <1>8, <2>1, <2>2 DEF Announced
  <2> QED
    BY <1>1, <1>8, <2>3
<1> QED
  BY <1>6, <1>7, <1>8

LEMMA ObeyAnnounced ==
  ASSUME Types, NEW r \in Requests, r.op \in {"channels", "set", "setDefault"}, Obey(r)
  PROVE  \E new \in SUBSET Messages : Announced(new)
<1> DEFINE o == r.items[1]
           v == r.items[2]
<1>t. /\ world \in [Objects -> Volumes \cup {"gone"}] /\ default \in Defaults(world)
      /\ down \in Seq(Messages)
  BY DEF Types
<1>r. /\ r.op \in {"channels", "set"} => r.items \in Targets \X Volumes
      /\ r.op = "setDefault" => o \in Devices
  BY DEF Requests
<1>0. ASSUME UNCHANGED <<server, down>> PROVE Announced({})
  <2>1. Longer(down, down', {})
    BY <1>0 DEF Longer
  <2> QED
    BY <1>0, <1>t, <2>1 DEF Announced, server
<1>1. CASE o \notin Alive(world, Objects)
  BY <1>0, <1>1 DEF Obey
<1>2. CASE o \in Alive(world, Objects) /\ r.op = "channels"
  <2> DEFINE m == Message("channels", r.items)
  <2>1. down' = Append(down, m) /\ UNCHANGED server
    BY <1>2 DEF Obey
  <2>2. m \in Messages /\ m.type = "channels"
    BY <1>2, <1>r, MessagesAre
  <2> HIDE DEF m
  <2>3. Longer(down, down', {m})
    BY <2>1 DEF Longer
  <2>4. Announced({m})
    BY <1>t, <2>1, <2>2, <2>3 DEF Announced, server
  <2> QED
    BY <2>2, <2>4
<1>3. CASE o \in Alive(world, Objects) /\ r.op = "set"
  <2> DEFINE m == Message("changed", {o})
  <2>1. /\ world' = [world EXCEPT ![o] = v] /\ default' = default
        /\ down' = IF v # world[o] /\ subscribed THEN Append(down, m) ELSE down
    BY <1>3 DEF Obey, Announce
  <2>2. o \in Objects /\ world[o] # "gone" /\ v \in Volumes /\ v # "gone"
    BY <1>3, <1>r DEF Alive, Volumes
  <2>3. m \in Messages /\ m.type = "changed" /\ m.items = {o}
    BY <2>2, MessagesAre
  <2>4. world' \in [Objects -> Volumes \cup {"gone"}] /\ \A x \in Objects : x # o => world'[x] = world[x]
    BY <1>t, <2>1, <2>2
  <2>5. \A x \in Objects : world'[x] = "gone" <=> world[x] = "gone"
    BY <1>t, <2>1, <2>2
  <2>6. default' \in Defaults(world')
    <3>1. \A X : X \subseteq Objects => Alive(world', X) = Alive(world, X)
      BY <2>5 DEF Alive
    <3>2. Defaults(world') = Defaults(world)
      BY <3>1, KindsAre DEF Defaults
    <3> QED
      BY <1>t, <2>1, <3>2
  <2> HIDE DEF m
  <2>7. CASE v # world[o] /\ subscribed
    <3>1. Longer(down, down', {m})
      BY <2>1, <2>7 DEF Longer
    <3>2. Announced({m})
      BY <2>1, <2>3, <2>4, <2>5, <2>6, <3>1 DEF Announced
    <3> QED
      BY <2>3, <3>2
  <2>8. CASE ~(v # world[o] /\ subscribed)
    <3>1. Longer(down, down', {}) /\ (subscribed => world' = world)
      BY <1>t, <2>1, <2>2, <2>8 DEF Longer
    <3>2. Announced({})
      BY <2>1, <2>4, <2>6, <3>1 DEF Announced
    <3> QED
      BY <3>2
  <2> QED
    BY <2>7, <2>8
<1>4. CASE o \in Alive(world, Objects) /\ r.op = "setDefault"
  <2> DEFINE m == Message("serverChanged", {})
  <2>1. /\ default' = (default \ Of(o[1])) \cup {o} /\ world' = world
        /\ down' = IF o \notin default /\ subscribed THEN Append(down, m) ELSE down
    BY <1>4 DEF Obey, Announce
  <2>2. m \in Messages /\ m.type = "serverChanged"
    BY MessagesAre
  <2>3. o \in Devices /\ world[o] # "gone" /\ o[1] \in {"sink", "source"} /\ o \in Of(o[1])
    BY <1>4, <1>r, KindsAre DEF Alive
  <2>4. \A kind \in {"sink", "source"} :
          default' \cap Of(kind) = IF kind = o[1] THEN {o} ELSE default \cap Of(kind)
    BY <2>1, <2>3 DEF Of
  <2>5. default' \in Defaults(world')
    <3>1. default' \in SUBSET Alive(world', Devices)
      BY <1>t, <2>1, <2>3, DefaultsAre DEF Alive
    <3>2. \A kind \in {"sink", "source"} :
            Alive(world', Of(kind)) # {} => \E x \in default' : default' \cap Of(kind) = {x}
      BY <1>t, <2>1, <2>4, DefaultsAre
    <3> QED
      BY <3>1, <3>2 DEF Defaults
  <2>6. o \in default => default' = default
    BY <1>t, <2>1, <2>3, DefaultsAre
  <2> HIDE DEF m
  <2>7. CASE o \notin default /\ subscribed
    <3>1. Longer(down, down', {m})
      BY <2>1, <2>7 DEF Longer
    <3>2. Announced({m})
      BY <1>t, <2>1, <2>2, <2>5, <3>1 DEF Announced
    <3> QED
      BY <2>2, <3>2
  <2>8. CASE ~(o \notin default /\ subscribed)
    <3>1. Longer(down, down', {}) /\ (subscribed => default' = default)
      BY <2>1, <2>6, <2>8 DEF Longer
    <3>2. Announced({})
      BY <1>t, <2>1, <2>5, <3>1 DEF Announced
    <3> QED
      BY <3>2
  <2> QED
    BY <2>7, <2>8
<1> QED
  BY <1>1, <1>2, <1>3, <1>4

-----------------------------------------------------------------------------
(* The session invariant, action by action.                                  *)

Commanded == setVolume \/ setDeviceVolume \/ setStreamVolume \/ setDeviceMuted \/ setStreamMuted \/ setDefault

LEMMA CommandsAre ==
  ASSUME Types, Commanded
  PROVE  \E r \in Requests : Command(r) /\ r.op \in {"channels", "set", "setDefault"}
<1>1. \A o \in Objects : o \in Targets /\ sinkInput(o) \in Targets
  <2>1. "playback" = Kinds[3] /\ 3 \in 1..4
    BY DEF Kinds
  <2> QED
    BY <2>1, KindsAre DEF sinkInput, Targets
<1>2. default_output \subseteq Objects /\ Devices \subseteq Objects /\ Streams \subseteq Objects
  BY KindsAre DEF Types
<1>3. CASE setVolume
  BY <1>1, <1>2, <1>3, RequestsAre DEF setVolume
<1>4. CASE setDeviceVolume
  BY <1>1, <1>2, <1>4, RequestsAre DEF setDeviceVolume
<1>5. CASE setStreamVolume
  BY <1>1, <1>2, <1>5, RequestsAre DEF setStreamVolume
<1>6. CASE setDeviceMuted
  BY <1>1, <1>2, <1>6, RequestsAre DEF setDeviceMuted
<1>7. CASE setStreamMuted
  BY <1>1, <1>2, <1>7, RequestsAre DEF setStreamMuted
<1>8. CASE setDefault
  BY <1>1, <1>2, <1>8, RequestsAre DEF setDefault
<1> QED
  BY <1>3, <1>4, <1>5, <1>6, <1>7, <1>8 DEF Commanded

(* What the answer to a question is.                                         *)
LEMMA AnswersAre ==
  ASSUME Types, NEW r \in Requests, r.op \in {"subscribe", "server", "info"}
  PROVE  \E new \in SUBSET Messages :
           /\ Longer(down, down \o Answer(r), new)
           /\ r.op = "subscribe" => new = {}
           /\ r.op = "server" => new = {Message("server", default)}
           /\ r.op = "info" =>
                new = {Message("info", {<<o, world[o]>> : o \in {x \in r.items : world[x] # "gone"}})}
<1>t. default \subseteq Objects /\ world \in [Objects -> Volumes \cup {"gone"}] /\ down \in Seq(Messages)
  BY DefaultsAre, KindsAre DEF Types
<1>1. CASE r.op = "subscribe"
  BY <1>1, <1>t DEF Answer, Longer
<1>2. CASE r.op = "server"
  <2>1. Message("server", default) \in Messages
    BY <1>t, MessagesAre
  <2>2. Answer(r) = <<Message("server", default)>>
    BY <1>2 DEF Answer
  <2>3. down \o Answer(r) = Append(down, Message("server", default))
    BY <1>t, <2>1, <2>2, Appended
  <2>4. Longer(down, down \o Answer(r), {Message("server", default)})
    BY <2>3 DEF Longer
  <2> QED
    BY <1>2, <2>1, <2>4
<1>3. CASE r.op = "info"
  <2> DEFINE items == {<<o, world[o]>> : o \in {x \in r.items : world[x] # "gone"}}
  <2>1. r.items \subseteq Objects
    BY <1>3 DEF Requests
  <2>2. items \in SUBSET (Objects \X Volumes)
    BY <1>t, <2>1
  <2>3. Message("info", items) \in Messages
    BY <2>2, MessagesAre
  <2>4. Answer(r) = <<Message("info", items)>>
    BY <1>3 DEF Answer
  <2> HIDE DEF items
  <2>5. Longer(down, down \o Answer(r), {Message("info", items)})
    BY <1>t, <2>3, <2>4, Appended DEF Longer
  <2> QED
    BY <1>3, <2>3, <2>5 DEF items
<1> QED
  BY <1>1, <1>2, <1>3

(* The call that an info message becomes, if any.                            *)
Entry(o, v) == IF o \in Streams THEN toStream(v) ELSE toDevice(o, v)
Kept(items) == {i \in items : i[1] \notin Monitors}
Converted(items) == {<<i[1], Entry(i[1], i[2])>> : i \in Kept(items)}

LEMMA InfoCallback ==
  ASSUME Types, infoCallback
  PROVE  /\ Head(down).items \in SUBSET (Objects \X Volumes)
         /\ Converted(Head(down).items) \in SUBSET (Objects \X Entries)
         /\ \/ Kept(Head(down).items) = {} /\ posted' = posted
            \/ posted' = Append(posted, Call("apply", Converted(Head(down).items)))
<1>1. Head(down) \in Messages /\ Head(down).type = "info"
  BY Taken DEF Types, infoCallback, Received
<1>2. Head(down).items \in SUBSET (Objects \X Volumes)
  BY <1>1 DEF Messages
<1>3. \A o, v : v \in Volumes => Entry(o, v) \in Entries
  BY DEF Entry, toStream, toDevice, Entries, Volumes
<1>4. Converted(Head(down).items) \in SUBSET (Objects \X Entries)
  BY <1>2, <1>3 DEF Converted, Kept
<1>5. IF Converted(Head(down).items) = {} THEN posted' = posted
      ELSE posted' = Append(posted, Call("apply", Converted(Head(down).items)))
  BY DEF infoCallback, Converted, Kept, Entry
<1>6. Converted(Head(down).items) = {} => Kept(Head(down).items) = {}
  BY DEF Converted
<1> QED
  BY <1>2, <1>4, <1>5, <1>6

LEMMA TypesKept == Types /\ [Next]_vars => Types'
<1> SUFFICES ASSUME Types, [Next]_vars PROVE Types'
  OBVIOUS
<1> USE DEF server, wire, view, budget
<1>t. /\ world \in [Objects -> Volumes \cup {"gone"}] /\ default \in Defaults(world)
      /\ connected \in BOOLEAN /\ subscribed \in BOOLEAN /\ available \in BOOLEAN
      /\ up \in Seq(Requests) /\ down \in Seq(Messages) /\ posted \in Seq(Calls)
      /\ names \subseteq Objects /\ shown \in [Objects -> Entries]
      /\ default_output \subseteq Objects /\ losses \in Nat
  BY DEF Types
<1>q. up \in Seq(Requests) /\ down \in Seq(Messages) /\ posted \in Seq(Calls)
  BY DEF Types
<1>1. ASSUME NEW x \in Objects, Change(x) PROVE Types'
  <2>1. PICK new \in SUBSET Messages : Announced(new)
    BY <1>1, ChangeAnnounced
  <2>2. down' \in Seq(Messages)
    BY <1>t, <2>1, LongerTyped DEF Announced
  <2> QED
    BY <1>1, <1>t, <2>1, <2>2 DEF Announced, Change, Types
<1>2. CASE Serve
  <2>1. Head(up) \in Requests /\ up' \in Seq(Requests)
    BY <1>2, <1>t, Taken DEF Serve
  <2>2. CASE Head(up).op \in {"channels", "set", "setDefault"}
    <3>1. PICK new \in SUBSET Messages : Announced(new)
      BY <1>2, <2>1, <2>2, ObeyAnnounced DEF Serve
    <3>2. down' \in Seq(Messages)
      BY <1>t, <3>1, LongerTyped DEF Announced
    <3> QED
      BY <1>2, <1>t, <2>1, <2>2, <3>1, <3>2 DEF Announced, Serve, Types
  <2>3. CASE Head(up).op \in {"subscribe", "server", "info"}
    <3>1. PICK new \in SUBSET Messages : Longer(down, down', new)
      BY <1>2, <2>1, <2>3, AnswersAre DEF Serve
    <3>2. down' \in Seq(Messages)
      BY <1>t, <3>1, LongerTyped
    <3>3. subscribed' \in BOOLEAN /\ UNCHANGED server
      BY <1>2, <2>3 DEF Serve
    <3> QED
      BY <1>2, <1>t, <2>1, <3>2, <3>3 DEF Serve, Types
  <2> QED
    BY <2>1, <2>2, <2>3 DEF Requests
<1>3. CASE contextReady
  <2>1. up' \in Seq(Requests) /\ posted' \in Seq(Calls)
    BY <1>3, <1>t, RequestsAre, CallsAre, Appended DEF contextReady
  <2> QED
    BY <1>3, <1>t, <2>1 DEF contextReady, Types
<1>4. CASE contextLost
  <2>1. posted' \in Seq(Calls) /\ losses' \in Nat
    BY <1>4, <1>t, CallsAre DEF contextLost
  <2>2. up' = <<>> /\ down' = <<>> /\ ~connected' /\ ~subscribed'
    BY <1>4 DEF contextLost
  <2>3. up' \in Seq(Requests) /\ down' \in Seq(Messages)
    BY <2>2
  <2>4. connected' \in BOOLEAN /\ subscribed' \in BOOLEAN
    BY <1>4 DEF contextLost
  <2> QED
    BY <1>4, <1>t, <2>1, <2>3, <2>4 DEF contextLost, Types
<1>5. CASE subscribeCallback
  <2>1. /\ Head(down) \in Messages /\ down' \in Seq(Messages)
        /\ Head(down).type \in {"changed", "removed", "serverChanged"}
    BY <1>5, <1>t, Taken DEF subscribeCallback, Received
  <2>2. Head(down).items \subseteq Objects
    BY <2>1 DEF Messages
  <2>3. /\ Request("info", Head(down).items) \in Requests /\ Request("server", {}) \in Requests
        /\ Call("removed", Head(down).items) \in Calls
    BY <2>2, RequestsAre, CallsAre
  <2>4. /\ \/ up' = up \/ up' = Append(up, Request("info", Head(down).items))
           \/ up' = Append(up, Request("server", {}))
        /\ posted' = posted \/ posted' = Append(posted, Call("removed", Head(down).items))
    BY <1>5 DEF subscribeCallback
  <2>5. up' \in Seq(Requests) /\ posted' \in Seq(Calls)
    <3> DEFINE r == Request("info", Head(down).items)
               q == Request("server", {})
               c == Call("removed", Head(down).items)
    <3>1. /\ r \in Requests /\ q \in Requests /\ c \in Calls
          /\ up' = up \/ up' = Append(up, r) \/ up' = Append(up, q)
          /\ posted' = posted \/ posted' = Append(posted, c)
      BY <2>3, <2>4
    <3> HIDE DEF r, q, c
    <3>a. Append(up, r) \in Seq(Requests) /\ Append(up, q) \in Seq(Requests)
      BY <1>q, <3>1, Appended
    <3>b. Append(posted, c) \in Seq(Calls)
      BY <1>q, <3>1, Appended
    <3>2. up' \in Seq(Requests)
      BY <1>q, <3>1, <3>a
    <3>3. posted' \in Seq(Calls)
      BY <1>q, <3>1, <3>b
    <3> QED
      BY <3>2, <3>3
  <2> QED
    BY <1>5, <1>t, <2>1, <2>5 DEF subscribeCallback, Types
<1>6. CASE serverInfoCallback
  <2>1. Head(down) \in Messages /\ down' \in Seq(Messages) /\ Head(down).type = "server"
    BY <1>6, <1>t, Taken DEF serverInfoCallback, Received
  <2>2. names' \subseteq Objects
    BY <1>6, <2>1 DEF serverInfoCallback, Messages
  <2>3. [k \in 1..4 |-> Request("info", Of(Kinds[k]))] \in Seq(Requests)
    BY RequestsAre, KindsAre
  <2>4. up' \in Seq(Requests)
    BY <1>6, <1>t, <2>3 DEF serverInfoCallback
  <2> QED
    BY <1>6, <1>t, <2>1, <2>2, <2>4 DEF serverInfoCallback, Types
<1>7. CASE infoCallback
  <2>0. Call("apply", Converted(Head(down).items)) \in Calls
    BY <1>7, InfoCallback, CallsAre
  <2>1. posted' = posted \/ posted' = Append(posted, Call("apply", Converted(Head(down).items)))
    BY <1>7, InfoCallback
  <2>3. posted' \in Seq(Calls)
    <3> DEFINE c == Call("apply", Converted(Head(down).items))
    <3>1. c \in Calls /\ (posted' = posted \/ posted' = Append(posted, c))
      BY <2>0, <2>1
    <3> HIDE DEF c
    <3>2. Append(posted, c) \in Seq(Calls)
      BY <1>q, <3>1, Appended
    <3> QED
      BY <1>q, <3>1, <3>2
  <2>2. down' \in Seq(Messages)
    BY <1>7, <1>t, Taken DEF infoCallback, Received
  <2> QED
    BY <1>7, <1>t, <2>2, <2>3 DEF infoCallback, Types
<1>8. CASE setVolumeCallback
  <2>1. Head(down) \in Messages /\ down' \in Seq(Messages) /\ Head(down).type = "channels"
    BY <1>8, <1>t, Taken DEF setVolumeCallback, Received
  <2>2. Head(down).items \in Targets \X Volumes
    BY <2>1 DEF Messages
  <2>3. up' \in Seq(Requests)
    BY <1>8, <1>t, <2>2, RequestsAre, Appended DEF setVolumeCallback
  <2> QED
    BY <1>8, <1>t, <2>1, <2>3 DEF setVolumeCallback, Types
<1>9. CASE Commanded
  <2>1. PICK r \in Requests : Command(r)
    BY <1>9, CommandsAre
  <2>2. up' \in Seq(Requests)
    BY <1>t, <2>1, Appended DEF Command
  <2> QED
    BY <1>t, <2>1, <2>2 DEF Command, Types
<1>10. CASE apply
  <2>1. /\ Head(posted) \in Calls /\ posted' \in Seq(Calls) /\ Head(posted).name = "apply"
    BY <1>10, <1>t, Taken DEF apply, Due
  <2>2. Head(posted).items \in SUBSET (Objects \X Entries)
    BY <2>1 DEF Calls
  <2>3. shown' \in [Objects -> Entries]
    BY <1>10, <1>t, <2>2 DEF apply, Rows
  <2>4. default_output' \subseteq Objects
    BY <1>10, <1>t, KindsAre DEF apply, applyDefaultDeviceState
  <2> QED
    BY <1>10, <1>t, <2>1, <2>3, <2>4 DEF apply, Types
<1>11. CASE removed \/ setAvailable
  <2>0. posted # <<>> /\ posted' = Tail(posted)
    BY <1>11 DEF removed, setAvailable, Due
  <2>1. posted' \in Seq(Calls)
    BY <1>t, <2>0, Taken
  <2>2. shown' \in [Objects -> Entries]
    <3>1. Absent \in Entries
      BY DEF Absent, Entries
    <3> QED
      BY <1>11, <1>t, <3>1 DEF removed, setAvailable
  <2>3. default_output' \subseteq Objects /\ available' \in BOOLEAN
    BY <1>11, <1>t DEF removed, setAvailable, Due
  <2> QED
    BY <1>11, <1>t, <2>1, <2>2, <2>3 DEF removed, setAvailable, Types
<1>12. CASE UNCHANGED vars
  BY <1>12, <1>t DEF vars, Types
<1> QED
  BY <1>1, <1>2, <1>3, <1>4, <1>5, <1>6, <1>7, <1>8, <1>9, <1>10, <1>11, <1>12
     DEF Next, Callback, Deliver, Commanded

LEMMA Indexed ==
  ASSUME NEW S, NEW s \in Seq(S), NEW c \in S
  PROVE  /\ Len(s) \in Nat /\ Len(Append(s, c)) = Len(s) + 1 /\ Append(s, c)[Len(s) + 1] = c
         /\ s # <<>> => 1 \in DOMAIN s /\ Append(s, c)[1] = s[1]
         /\ s = <<>> => Len(s) = 0 /\ Append(s, c)[1] = c
         /\ \A k \in DOMAIN Append(s, c) :
              (k \in DOMAIN s /\ Append(s, c)[k] = s[k]) \/ (k = Len(s) + 1 /\ Append(s, c)[k] = c)
OBVIOUS

(* What the callbacks post: they run while the connection lives.             *)
Posts(c) == connected /\ connected' = connected /\ available' = available /\ posted' = Append(posted, c)

LEMMA PostsKeepsSessions ==
  ASSUME Types, Sessions, NEW c \in Calls, c.name \in {"removed", "apply"}, Posts(c)
  PROVE  Sessions'
<1>1. posted \in Seq(Calls)
  BY DEF Types
<1>2. \A k \in DOMAIN posted' : (k \in DOMAIN posted /\ posted'[k] = posted[k]) \/ posted'[k] = c
  BY <1>1, Indexed DEF Posts
<1>3. \A k \in DOMAIN posted : posted[k].name # "lost"
  BY DEF Sessions, Posts
<1>4. \A k \in DOMAIN posted' :
        /\ posted'[k].name = "ready" => k = 1 /\ ~available'
        /\ posted'[k].name = "lost" => k = Len(posted') /\ ~connected'
  BY <1>2, <1>3 DEF Sessions, Posts
<1>5. ~available' => posted' = <<>> \/ posted'[1].name = "ready"
  BY <1>1, Indexed DEF Sessions, Posts
<1>6. posted' # <<>>
  BY <1>1, Appended DEF Posts
<1> QED
  BY <1>4, <1>5, <1>6 DEF Sessions, Posts

LEMMA ReadyKeepsSessions == Types /\ Sessions /\ contextReady => Sessions' /\ posted = <<>>
<1> SUFFICES ASSUME Types, Sessions, contextReady PROVE Sessions' /\ posted = <<>>
  OBVIOUS
<1>1. posted \in Seq(Calls) /\ Call("ready", {}) \in Calls /\ Call("ready", {}).name = "ready"
  BY CallsAre DEF Types
<1>2. posted = <<>>
  BY <1>1 DEF Sessions, contextReady
<1>3. ~available /\ ~available'
  BY <1>2 DEF Sessions, contextReady, view
<1>4. posted' = <<Call("ready", {})>>
  BY <1>1, <1>2 DEF contextReady
<1>5. /\ Len(posted') = 1 /\ posted'[1].name = "ready" /\ posted' # <<>>
      /\ \A k \in DOMAIN posted' : k = 1
  BY <1>1, <1>4
<1> QED
  BY <1>2, <1>3, <1>5 DEF Sessions, contextReady

LEMMA LostKeepsSessions == Types /\ Sessions /\ contextLost => Sessions'
<1> SUFFICES ASSUME Types, Sessions, contextLost PROVE Sessions'
  OBVIOUS
<1> DEFINE c == Call("lost", {})
<1>1. posted \in Seq(Calls) /\ c \in Calls /\ c.name = "lost" /\ c.name # "ready"
  BY CallsAre DEF Types
<1>2. posted' = Append(posted, c) /\ connected /\ ~connected' /\ available' = available
  BY DEF contextLost, view
<1> HIDE DEF c
<1>3. /\ Len(posted') = Len(posted) + 1 /\ posted'[Len(posted')] = c /\ posted' # <<>>
      /\ \A k \in DOMAIN posted' : (k \in DOMAIN posted /\ posted'[k] = posted[k])
                                   \/ (k = Len(posted') /\ posted'[k] = c)
  BY <1>1, <1>2, Indexed, Appended
<1>4. \A k \in DOMAIN posted' :
        /\ posted'[k].name = "ready" => k = 1 /\ ~available'
        /\ posted'[k].name = "lost" => k = Len(posted') /\ ~connected'
  BY <1>1, <1>2, <1>3 DEF Sessions
<1>5. ~available' => posted' = <<>> \/ posted'[1].name = "ready"
  BY <1>1, <1>2, Indexed DEF Sessions
<1> QED
  BY <1>1, <1>2, <1>3, <1>4, <1>5 DEF Sessions

LEMMA DeliverKeepsSessions == Types /\ Sessions /\ Deliver => Sessions'
<1> SUFFICES ASSUME Types, Sessions, Deliver PROVE Sessions'
  OBVIOUS
<1>1. posted \in Seq(Calls) /\ posted # <<>> /\ posted' = Tail(posted) /\ connected' = connected
  BY DEF Types, Deliver, apply, removed, setAvailable, Due, wire
<1>2. /\ Head(posted) = posted[1] /\ 1 \in DOMAIN posted /\ Len(posted') = Len(posted) - 1
      /\ posted' \in Seq(Calls)
      /\ \A k \in DOMAIN posted' : k \in Nat /\ k + 1 \in DOMAIN posted /\ posted'[k] = posted[k + 1]
  BY <1>1, Taken
<1>3. \A k \in DOMAIN posted' : k + 1 # 1 /\ (k + 1 = Len(posted) => k = Len(posted'))
  BY <1>1, <1>2
<1>4. \A k \in DOMAIN posted' : /\ posted'[k].name # "ready"
                                /\ posted'[k].name = "lost" => k = Len(posted') /\ ~connected'
  BY <1>1, <1>2, <1>3 DEF Sessions
<1>5. posted' = <<>> \/ (posted'[Len(posted')] = posted[Len(posted)] /\ Len(posted) # 1)
  BY <1>1, <1>2
<1>6. posted' = <<>> => Len(posted) = 1
  BY <1>1, <1>2
<1>7. CASE Head(posted).name = "lost"
  <2>1. posted' = <<>> /\ ~connected
    BY <1>1, <1>2, <1>7 DEF Sessions
  <2>2. ~available'
    BY <1>7 DEF Deliver, apply, removed, setAvailable, Due
  <2> QED
    BY <1>1, <2>1, <2>2 DEF Sessions
<1>8. CASE Head(posted).name = "ready"
  <2>1. available'
    BY <1>8 DEF Deliver, apply, removed, setAvailable, Due
  <2>2. ~connected => posted[Len(posted)].name = "lost"
    BY <1>1 DEF Sessions
  <2> QED
    BY <1>1, <1>2, <1>4, <1>5, <1>6, <1>8, <2>1, <2>2 DEF Sessions
<1>9. CASE Head(posted).name \in {"apply", "removed"}
  <2>1. available /\ available' = available
    BY <1>1, <1>2, <1>9 DEF Sessions, Deliver, apply, removed, setAvailable, Due, view
  <2>2. ~connected => posted[Len(posted)].name = "lost"
    BY <1>1 DEF Sessions
  <2> QED
    BY <1>1, <1>2, <1>4, <1>5, <1>6, <1>9, <2>1, <2>2 DEF Sessions
<1> QED
  BY <1>7, <1>8, <1>9 DEF Deliver, apply, removed, setAvailable, Due

(* The callbacks that read from the connection.                              *)
Reads == subscribeCallback \/ serverInfoCallback \/ infoCallback \/ setVolumeCallback

LEMMA ReadsPost ==
  ASSUME Types, Subscribed, Reads
  PROVE  /\ connected /\ subscribed /\ down # <<>> /\ down' = Tail(down)
         /\ UNCHANGED <<server, connected, subscribed, view, budget>>
         /\ \/ posted' = posted
            \/ \E c \in Calls : c.name \in {"removed", "apply"} /\ Posts(c)
<1>1. /\ down # <<>> /\ down' = Tail(down)
      /\ UNCHANGED <<server, connected, subscribed, view, budget>>
  BY DEF Reads, subscribeCallback, serverInfoCallback, infoCallback, setVolumeCallback, Received
<1>2. connected /\ subscribed
  BY <1>1 DEF Subscribed, Types
<1>3. Head(down) \in Messages
  BY <1>1, Taken DEF Types
<1>4. \A c : posted' = Append(posted, c) => Posts(c)
  BY <1>1, <1>2 DEF Posts, view
<1>5. CASE subscribeCallback
  <2>1. Head(down).items \subseteq Objects
    BY <1>3, <1>5 DEF subscribeCallback, Received, Messages
  <2>2. posted' = posted \/ posted' = Append(posted, Call("removed", Head(down).items))
    BY <1>5 DEF subscribeCallback
  <2> QED
    BY <1>1, <1>2, <1>4, <2>1, <2>2, CallsAre
<1>6. CASE infoCallback
  BY <1>1, <1>2, <1>4, <1>6, InfoCallback, CallsAre
<1>7. CASE serverInfoCallback \/ setVolumeCallback
  BY <1>1, <1>2, <1>7 DEF serverInfoCallback, setVolumeCallback
<1> QED
  BY <1>5, <1>6, <1>7 DEF Reads

LEMMA ServeIs ==
  ASSUME Types, Subscribed, Serve
  PROVE  /\ connected /\ up \in Seq(Requests) /\ up # <<>> /\ Head(up) \in Requests /\ up' = Tail(up)
         /\ UNCHANGED <<connected, names, posted, view, budget>>
         /\ ~subscribed => Head(up).op = "subscribe"
         /\ \/ Head(up).op \in {"channels", "set", "setDefault"} /\ Obey(Head(up)) /\ subscribed' = subscribed
            \/ /\ Head(up).op \in {"subscribe", "server", "info"}
               /\ subscribed' = (subscribed \/ Head(up).op = "subscribe")
               /\ down' = down \o Answer(Head(up)) /\ UNCHANGED server
<1>1. /\ up \in Seq(Requests) /\ up # <<>> /\ Head(up) \in Requests /\ up' = Tail(up) /\ Head(up) = up[1]
  BY Taken DEF Serve, Types
<1>2. connected /\ (~subscribed => Head(up).op = "subscribe")
  BY <1>1 DEF Subscribed, Types
<1>3. Head(up).op \in {"channels", "set", "setDefault", "subscribe", "server", "info"}
  BY <1>1 DEF Requests
<1> QED
  BY <1>1, <1>2, <1>3 DEF Serve

LEMMA SubscribedKept == SessionInv /\ [Next]_vars => Subscribed'
<1> SUFFICES ASSUME SessionInv, [Next]_vars PROVE Subscribed'
  OBVIOUS
<1>i. Types /\ Sessions /\ Subscribed /\ Unread /\ UnavailableShowsNoStreams
  BY DEF SessionInv
<1>t. connected \in BOOLEAN /\ subscribed \in BOOLEAN /\ up \in Seq(Requests) /\ posted \in Seq(Calls)
  BY <1>i DEF Types
<1>1. ASSUME NEW x \in Objects, Change(x) PROVE Subscribed'
  <2>1. ~connected => ~subscribed
    BY <1>i DEF Subscribed
  <2>2. ~subscribed => down' = down
    BY <1>1, <1>i, ChangeAnnounced
  <2> QED
    BY <1>1, <1>i, <2>1, <2>2 DEF Change, Subscribed, view
<1>2. CASE Serve
  BY <1>2, <1>i, <1>t, ServeIs DEF Subscribed
<1>3. CASE contextReady
  <2>1. posted = <<>> /\ ~available
    BY <1>3, <1>i, ReadyKeepsSessions DEF Sessions, contextReady
  <2>2. \A o \in Streams : shown'[o] = Absent
    BY <1>3, <1>i, <2>1 DEF UnavailableShowsNoStreams, contextReady, view
  <2>3. connected' /\ ~subscribed' /\ down' = <<>>
    BY <1>3, <1>i DEF contextReady, Subscribed
  <2>4. Len(up') >= 2 /\ up'[1].op = "subscribe" /\ up'[2].op = "server"
    BY <1>3 DEF contextReady, Request
  <2>5. posted' = <<Call("ready", {})>> /\ \A k \in DOMAIN posted' : posted'[k].name = "ready"
    BY <1>3, <2>1, CallsAre DEF contextReady
  <2> QED
    BY <2>2, <2>3, <2>4, <2>5 DEF Subscribed
<1>4. CASE contextLost
  BY <1>4 DEF contextLost, Subscribed
<1>5. CASE Reads
  <2>1. connected /\ subscribed /\ connected' /\ subscribed'
    BY <1>5, <1>i, ReadsPost
  <2> QED
    BY <2>1 DEF Subscribed
<1>6. CASE Commanded
  <2>1. PICK r \in Requests : Command(r)
    BY <1>6, <1>i, CommandsAre
  <2>2. connected /\ connected' /\ subscribed' = subscribed /\ down' = down /\ posted' = posted
        /\ shown' = shown /\ up' = Append(up, r)
    BY <2>1 DEF Command, view
  <2>3. Len(up) >= 2 => Len(up') >= 2 /\ up'[1] = up[1] /\ up'[2] = up[2]
    BY <1>t, <2>2
  <2> QED
    BY <1>i, <2>2, <2>3 DEF Subscribed
<1>7. CASE Deliver
  <2>1. posted # <<>> /\ posted' = Tail(posted) /\ UNCHANGED wire
    BY <1>7 DEF Deliver, apply, removed, setAvailable, Due
  <2>2. \A k \in DOMAIN posted' : k + 1 \in DOMAIN posted /\ posted'[k] = posted[k + 1]
    BY <1>t, <2>1, Taken
  <2>3. connected /\ ~subscribed => shown' = shown
    <3>1. connected /\ ~subscribed => Head(posted).name = "ready"
      BY <1>i, <1>t, <2>1, Taken DEF Subscribed
    <3> QED
      BY <1>7, <1>i, <1>t, <3>1 DEF Deliver, apply, removed, setAvailable, Due, Types
  <2> QED
    BY <1>i, <2>1, <2>2, <2>3 DEF Subscribed, wire
<1>8. CASE UNCHANGED vars
  BY <1>8, <1>i DEF vars, wire, view, Subscribed
<1> QED
  BY <1>1, <1>2, <1>3, <1>4, <1>5, <1>6, <1>7, <1>8
     DEF Next, Callback, Deliver, Commanded, Reads

LEMMA SessionKept == SessionInv /\ [Next]_vars => SessionInv'
<1> SUFFICES ASSUME SessionInv, [Next]_vars PROVE SessionInv'
  OBVIOUS
<1>i. Types /\ Sessions /\ Subscribed /\ Unread /\ UnavailableShowsNoStreams
  BY DEF SessionInv
<1>t. /\ connected \in BOOLEAN /\ subscribed \in BOOLEAN /\ posted \in Seq(Calls) /\ losses \in Nat
      /\ shown \in [Objects -> Entries] /\ available \in BOOLEAN
  BY <1>i DEF Types
<1>s. Streams \subseteq Objects
  BY KindsAre
<1>0. Types' /\ Subscribed'
  BY <1>i, TypesKept, SubscribedKept
<1> SUFFICES Sessions' /\ Unread' /\ UnavailableShowsNoStreams'
  BY <1>0 DEF SessionInv
<1>q. ASSUME UNCHANGED <<posted, connected, view>>, subscribed' \/ ~subscribed, losses' = losses
      PROVE  Sessions' /\ Unread' /\ UnavailableShowsNoStreams'
  BY <1>q, <1>i DEF Sessions, Unread, UnavailableShowsNoStreams, view
<1>1. ASSUME NEW x \in Objects, Change(x) PROVE Sessions' /\ Unread' /\ UnavailableShowsNoStreams'
  BY <1>1, <1>q DEF Change
<1>2. CASE Serve
  BY <1>2, <1>i, <1>q, ServeIs DEF budget
<1>3. CASE contextReady
  <2>1. posted = <<>> /\ Sessions'
    BY <1>3, <1>i, ReadyKeepsSessions
  <2>2. posted' = <<Call("ready", {})>> /\ \A k \in DOMAIN posted' : posted'[k].name = "ready"
    BY <1>3, <2>1, CallsAre DEF contextReady
  <2>3. shown' = shown /\ available' = available /\ losses' = losses /\ subscribed' = subscribed
    BY <1>3 DEF contextReady, view, budget
  <2> QED
    BY <1>i, <2>1, <2>2, <2>3 DEF Unread, UnavailableShowsNoStreams
<1>4. CASE contextLost
  <2>1. Sessions'
    BY <1>4, <1>i, LostKeepsSessions
  <2>2. losses' # 0 /\ shown' = shown /\ available' = available
    BY <1>4, <1>t DEF contextLost, view
  <2> QED
    BY <1>i, <2>1, <2>2 DEF Unread, UnavailableShowsNoStreams
<1>5. CASE Reads
  <2>1. /\ UNCHANGED <<server, connected, subscribed, view, budget>> /\ connected /\ subscribed
        /\ \/ posted' = posted
           \/ \E c \in Calls : c.name \in {"removed", "apply"} /\ Posts(c)
    BY <1>5, <1>i, ReadsPost
  <2>2. Sessions'
    BY <1>i, <2>1, PostsKeepsSessions DEF Sessions, view
  <2> QED
    BY <1>i, <2>1, <2>2 DEF Unread, UnavailableShowsNoStreams, view
<1>6. CASE Commanded
  <2>1. PICK r \in Requests : Command(r)
    BY <1>6, <1>i, CommandsAre
  <2> QED
    BY <1>q, <2>1 DEF Command
<1>7. CASE Deliver
  <2>1. Sessions' /\ posted # <<>> /\ posted' = Tail(posted) /\ UNCHANGED <<wire, budget>>
    BY <1>7, <1>i, DeliverKeepsSessions DEF Deliver, apply, removed, setAvailable, Due
  <2>2. /\ Head(posted) = posted[1] /\ 1 \in DOMAIN posted
        /\ \A k \in DOMAIN posted' : k + 1 \in DOMAIN posted /\ posted'[k] = posted[k + 1]
    BY <1>t, <2>1, Taken
  <2>3. Unread'
    <3>1. losses = 0 /\ ~subscribed => Head(posted).name = "ready"
      BY <1>i, <2>2 DEF Unread
    <3>2. losses = 0 /\ ~subscribed => shown' = shown
      BY <1>7, <1>t, <3>1 DEF Deliver, apply, removed, setAvailable, Due
    <3> QED
      BY <1>i, <2>1, <2>2, <3>2 DEF Unread, wire, budget
  <2>4. UnavailableShowsNoStreams'
    <3> SUFFICES ASSUME ~available', NEW o \in Streams PROVE shown'[o] = Absent
      BY DEF UnavailableShowsNoStreams
    <3>1. CASE setAvailable
      BY <1>s, <3>1 DEF setAvailable, Due
    <3>2. CASE apply \/ removed
      <4>1. ~available /\ Head(posted).name # "ready"
        BY <3>2 DEF apply, removed, Due
      <4> QED
        BY <1>i, <2>1, <2>2, <4>1 DEF Sessions
    <3> QED
      BY <1>7, <3>1, <3>2 DEF Deliver
  <2> QED
    BY <2>1, <2>3, <2>4
<1>8. CASE UNCHANGED vars
  BY <1>8, <1>q DEF vars, wire, budget
<1> QED
  BY <1>1, <1>2, <1>3, <1>4, <1>5, <1>6, <1>7, <1>8
     DEF Next, Callback, Deliver, Commanded, Reads

-----------------------------------------------------------------------------
(* The names of the defaults.                                                *)

LEMMA PrevailsLonger ==
  ASSUME NEW S, NEW s \in Seq(S), NEW new \in SUBSET S, NEW t, Longer(s, t, new), NEW R, NEW W,
         new \cap W = {}
  PROVE  /\ Prevails(s, R, W) => Prevails(t, R, W)
         /\ Spared(s, W) => Spared(t, W)
         /\ new \cap R # {} => Prevails(t, R, W)
<1>1. CASE t = s /\ new = {}
  BY <1>1
<1>2. ASSUME NEW a \in new, new = {a}, t = Append(s, a)
      PROVE  /\ Prevails(s, R, W) => Prevails(t, R, W)
             /\ Spared(s, W) => Spared(t, W)
             /\ new \cap R # {} => Prevails(t, R, W)
  BY <1>2, PrevailsAppended
<1>3. ASSUME NEW a \in new, NEW b \in new, new = {a, b}, t = Append(Append(s, a), b)
      PROVE  /\ Prevails(s, R, W) => Prevails(t, R, W)
             /\ Spared(s, W) => Spared(t, W)
             /\ new \cap R # {} => Prevails(t, R, W)
  <2> DEFINE u == Append(s, a)
  <2>1. /\ u \in Seq(S) /\ t = Append(u, b) /\ b \in S /\ b \notin W
        /\ Prevails(s, R, W) => Prevails(u, R, W)
        /\ Spared(s, W) => Spared(u, W)
        /\ a \in R => Prevails(u, R, W)
    BY <1>3, PrevailsAppended
  <2> HIDE DEF u
  <2> QED
    BY <1>3, <2>1, PrevailsAppended
<1> QED
  BY <1>1, <1>2, <1>3 DEF Longer

LEMMA Joined ==
  ASSUME NEW S, NEW s \in Seq(S), NEW u \in Seq(S)
  PROVE  Range(s) \subseteq Range(s \o u) /\ Range(u) \subseteq Range(s \o u)
<1>1. ASSUME NEW k \in DOMAIN s PROVE k \in DOMAIN (s \o u) /\ (s \o u)[k] = s[k]
  OBVIOUS
<1>2. ASSUME NEW k \in DOMAIN u
      PROVE  Len(s) + k \in DOMAIN (s \o u) /\ (s \o u)[Len(s) + k] = u[k]
  OBVIOUS
<1> QED
  BY <1>1, <1>2 DEF Range

(* Where the requests and messages of a step come from.                      *)
LEMMA ReadsMembers ==
  ASSUME Types, Subscribed, Reads
  PROVE  /\ down \in Seq(Messages) /\ Head(down) \in Messages
         /\ Range(down) = {Head(down)} \cup Range(down')
         /\ Range(up) \subseteq Range(up')
         /\ Head(down).type = "changed" => Request("info", Head(down).items) \in Range(up')
         /\ Head(down).type = "serverChanged" => Request("server", {}) \in Range(up')
         /\ Head(down).type = "server" =>
              /\ names' = Head(down).items
              /\ \A o \in Objects : \E r \in Range(up') : r.op = "info" /\ o \in r.items
         /\ Head(down).type # "server" => names' = names
<1>t. up \in Seq(Requests) /\ down \in Seq(Messages) /\ down # <<>> /\ down' = Tail(down)
  BY ReadsPost DEF Types
<1>1. Head(down) \in Messages /\ Range(down) = {Head(down)} \cup Range(down')
  BY <1>t, Taken
<1>2. ASSUME NEW r \in Requests, up' = Append(up, r) PROVE Range(up') = Range(up) \cup {r}
  BY <1>t, <1>2, Appended
<1>3. CASE subscribeCallback
  <2>1. Head(down).type = "changed" => Head(down).items \subseteq Objects
    BY <1>1 DEF Messages
  <2>2. Head(down).type \in {"changed", "removed", "serverChanged"} /\ names' = names
    BY <1>3 DEF subscribeCallback, Received
  <2>3. CASE Head(down).type = "changed"
    <3>1. up' = Append(up, Request("info", Head(down).items))
      BY <1>3, <2>3 DEF subscribeCallback
    <3> QED
      BY <1>t, <1>1, <1>2, <2>1, <2>2, <2>3, <3>1, RequestsAre
  <2>4. CASE Head(down).type = "serverChanged"
    <3>1. up' = Append(up, Request("server", {}))
      BY <1>3, <2>4 DEF subscribeCallback
    <3> QED
      BY <1>t, <1>1, <1>2, <2>2, <2>4, <3>1, RequestsAre
  <2>5. CASE Head(down).type = "removed"
    <3>1. up' = up
      BY <1>3, <2>5 DEF subscribeCallback
    <3> QED
      BY <1>t, <1>1, <2>2, <2>5, <3>1
  <2> QED
    BY <2>2, <2>3, <2>4, <2>5
<1>4. CASE serverInfoCallback
  <2> DEFINE more == [k \in 1..4 |-> Request("info", Of(Kinds[k]))]
  <2>1. /\ Head(down).type = "server" /\ names' = Head(down).items
        /\ up' = up \o more
    BY <1>4 DEF serverInfoCallback, Received
  <2>2. more \in Seq(Requests) /\ DOMAIN more = 1..4 /\ \A k \in 1..4 : more[k] = Request("info", Of(Kinds[k]))
    BY RequestsAre, KindsAre
  <2> HIDE DEF more
  <2>4. Range(up) \subseteq Range(up') /\ Range(more) \subseteq Range(up')
    BY <1>t, <2>1, <2>2, Joined
  <2>5. \A k \in 1..4 : Request("info", Of(Kinds[k])) \in Range(up')
    BY <2>2, <2>4 DEF Range
  <2>6. \A o \in Objects : \E r \in Range(up') : r.op = "info" /\ o \in r.items
    BY <2>5, KindsAre, RequestsAre
  <2> QED
    BY <1>t, <1>1, <2>1, <2>4, <2>6
<1>5. CASE infoCallback
  BY <1>t, <1>1, <1>5 DEF infoCallback, Received
<1>6. CASE setVolumeCallback
  <2>1. Head(down).type = "channels" /\ names' = names /\ up' = Append(up, Request("set", Head(down).items))
    BY <1>6 DEF setVolumeCallback, Received
  <2>2. Head(down).items \in Targets \X Volumes
    BY <1>1, <2>1 DEF Messages
  <2> QED
    BY <1>t, <1>1, <1>2, <2>1, <2>2, RequestsAre
<1> QED
  BY <1>3, <1>4, <1>5, <1>6 DEF Reads

(* What the server answers, as it lengthens the stream of messages.          *)
LEMMA ServeMembers ==
  ASSUME Types, Subscribed, Serve
  PROVE  /\ Head(up) \in Requests /\ Range(up) = {Head(up)} \cup Range(up')
         /\ \E new \in SUBSET Messages :
              /\ Longer(down, down', new)
              /\ Announced(new) \/ UNCHANGED server
              /\ \A m \in new : m.type = "removed" => \A o \in m.items : world'[o] = "gone"
              /\ \A m \in new : m.type = "server" => m.items = default'
              /\ \A m \in new : m.type = "info" =>
                   m.items = {<<o, world[o]>> : o \in {x \in Head(up).items : world[x] # "gone"}}
              /\ Head(up).op = "server" => \E m \in new : m.type = "server"
              /\ Head(up).op = "info" => \E m \in new : m.type = "info"
              /\ ~subscribed => UNCHANGED server /\ new = {}
<1>t. up \in Seq(Requests) /\ up # <<>> /\ Head(up) \in Requests /\ up' = Tail(up) /\ connected
  BY ServeIs
<1>1. Range(up) = {Head(up)} \cup Range(up')
  BY <1>t, Taken
<1>2. CASE Head(up).op \in {"channels", "set", "setDefault"} /\ Obey(Head(up)) /\ subscribed' = subscribed
  <2>1. PICK new \in SUBSET Messages : Announced(new)
    BY <1>2, <1>t, ObeyAnnounced
  <2>2. subscribed
    BY <1>2, ServeIs DEF Types
  <2> QED
    BY <1>t, <1>1, <1>2, <2>1, <2>2 DEF Announced
<1>3. CASE /\ Head(up).op \in {"subscribe", "server", "info"}
           /\ down' = down \o Answer(Head(up)) /\ UNCHANGED server
  <2>1. PICK new \in SUBSET Messages :
           /\ Longer(down, down \o Answer(Head(up)), new)
           /\ Head(up).op = "subscribe" => new = {}
           /\ Head(up).op = "server" => new = {Message("server", default)}
           /\ Head(up).op = "info" =>
                new = {Message("info", {<<o, world[o]>> : o \in {x \in Head(up).items : world[x] # "gone"}})}
    BY <1>3, <1>t, AnswersAre
  <2>2. ~subscribed => Head(up).op = "subscribe"
    BY ServeIs
  <2>3. CASE Head(up).op = "subscribe"
    BY <1>t, <1>1, <1>3, <2>1, <2>2, <2>3
  <2>4. CASE Head(up).op = "server"
    BY <1>t, <1>1, <1>3, <2>1, <2>2, <2>4, MessagesAre DEF server
  <2>5. CASE Head(up).op = "info"
    <3> DEFINE items == {<<o, world[o]>> : o \in {x \in Head(up).items : world[x] # "gone"}}
               m == Message("info", items)
    <3>1. Longer(down, down', new) /\ new = {m} /\ m \in Messages
      BY <1>3, <2>1, <2>5
    <3>2. m.type = "info" /\ m.items = items
      BY MessagesAre
    <3>3. subscribed /\ UNCHANGED server
      BY <1>3, <2>2, <2>5
    <3> HIDE DEF m, items
    <3>4. /\ \A n \in new : n.type # "removed" /\ n.type # "server" /\ n.items = items
          /\ \E n \in new : n.type = "info"
      BY <3>1, <3>2
    <3> QED
      BY <1>t, <1>1, <2>5, <3>1, <3>3, <3>4 DEF items
  <2> QED
    BY <1>3, <2>3, <2>4, <2>5
<1> QED
  BY <1>2, <1>3, ServeIs

(* What the server does in a step, and what it says of it.                   *)
Told(new) ==
  /\ Longer(down, down', new)
  /\ \A m \in new :
       /\ m.type = "removed" => \A o \in m.items : world'[o] = "gone"
       /\ m.type = "server" => m.items = default'
       /\ m.type = "info" => UNCHANGED server /\ Serve /\
            m.items = {<<o, world[o]>> : o \in {x \in Head(up).items : world[x] # "gone"}}
  /\ subscribed =>
       /\ default' # default => \E m \in new : m.type = "serverChanged"
       /\ \A o \in Objects : world'[o] # world[o] =>
            IF world'[o] = "gone" THEN \E m \in new : m \in Removals(o)
            ELSE \E m \in new : m.type = "changed" /\ o \in m.items
  /\ Serve /\ Head(up).op = "server" => \E m \in new : m.type = "server"
  /\ Serve /\ Head(up).op = "info" => \E m \in new : m.type = "info"
  /\ ~subscribed => new = {} /\ (Serve => UNCHANGED server)

LEMMA ServerStep ==
  ASSUME Types, Subscribed, Serve \/ \E x \in Objects : Change(x)
  PROVE  /\ UNCHANGED <<connected, names, posted, view, losses>>
         /\ up \in Seq(Requests)
         /\ \/ up' = up
            \/ Serve /\ Head(up) \in Requests /\ Range(up) = {Head(up)} \cup Range(up')
         /\ \E new \in SUBSET Messages : Told(new)
<1>t. up \in Seq(Requests) /\ down \in Seq(Messages)
  BY DEF Types
<1>1. CASE Serve
  <2>1. UNCHANGED <<connected, names, posted, view, losses>>
    BY <1>1, ServeIs DEF budget
  <2>2. PICK new \in SUBSET Messages :
              /\ Longer(down, down', new)
              /\ Announced(new) \/ UNCHANGED server
              /\ \A m \in new : m.type = "removed" => \A o \in m.items : world'[o] = "gone"
              /\ \A m \in new : m.type = "server" => m.items = default'
              /\ \A m \in new : m.type = "info" =>
                   m.items = {<<o, world[o]>> : o \in {x \in Head(up).items : world[x] # "gone"}}
              /\ Head(up).op = "server" => \E m \in new : m.type = "server"
              /\ Head(up).op = "info" => \E m \in new : m.type = "info"
              /\ ~subscribed => UNCHANGED server /\ new = {}
    BY <1>1, ServeMembers
  <2>3. Announced(new) => \A m \in new : m.type # "info"
    BY DEF Announced
  <2>4. subscribed =>
       /\ default' # default => \E m \in new : m.type = "serverChanged"
       /\ \A o \in Objects : world'[o] # world[o] =>
            IF world'[o] = "gone" THEN \E m \in new : m \in Removals(o)
            ELSE \E m \in new : m.type = "changed" /\ o \in m.items
    BY <2>2 DEF Announced, server
  <2>5. Told(new)
    BY <1>1, <2>2, <2>3, <2>4 DEF Told
  <2> QED
    BY <1>t, <1>1, <2>1, <2>5, ServeMembers
<1>2. ASSUME NEW x \in Objects, Change(x), ~Serve
      PROVE  /\ UNCHANGED <<connected, names, posted, view, losses>> /\ up' = up
             /\ \E new \in SUBSET Messages : Told(new)
  <2>1. UNCHANGED <<connected, names, posted, view, losses>> /\ up' = up
    BY <1>2 DEF Change
  <2>2. CASE ~subscribed
    <3>1. Longer(down, down', {})
      BY <1>2, <2>2, ChangeAnnounced DEF Longer
    <3>2. Told({})
      BY <1>2, <2>2, <3>1 DEF Told
    <3> QED
      BY <2>1, <3>2
  <2>3. CASE subscribed
    <3>1. PICK new \in SUBSET Messages : Announced(new)
      BY <1>2, ChangeAnnounced
    <3>2. \A m \in new : m.type \in {"changed", "removed", "serverChanged", "channels"}
      BY <3>1 DEF Announced
    <3>3. Told(new)
      BY <1>2, <2>3, <3>1, <3>2 DEF Announced, Told
    <3> QED
      BY <2>1, <3>3
  <2> QED
    BY <2>2, <2>3 DEF Types
<1> QED
  BY <1>t, <1>1, <1>2

(* A step is the server's, starts a connection, ends it, reads from it, or   *)
(* is the GUI thread's; those that do nothing on the connection count as its *)
(* commands.                                                                 *)
Ignored ==
  /\ UNCHANGED <<server, connected, subscribed, down, names, posted, view, losses>>
  /\ Range(up) \subseteq Range(up')

LEMMA Steps ==
  ASSUME Types, [Next]_vars
  PROVE  \/ Serve \/ \E x \in Objects : Change(x)
         \/ contextReady \/ contextLost \/ Reads \/ Ignored \/ Deliver
<1>1. CASE Commanded
  <2>1. PICK r \in Requests : Command(r)
    BY <1>1, CommandsAre
  <2>2. UNCHANGED <<server, connected, subscribed, down, names, posted, view, losses>> /\ up' = Append(up, r)
    BY <2>1 DEF Command
  <2>3. Range(up') = Range(up) \cup {r}
    BY <2>2, Appended DEF Types
  <2> QED
    BY <2>2, <2>3 DEF Ignored
<1>2. CASE UNCHANGED vars
  BY <1>2 DEF vars, wire, budget, Ignored
<1> QED
  BY <1>1, <1>2 DEF Next, Callback, Commanded, Reads

(* The server's names are asked for, or on their way.                        *)
AskedNames ==
  \/ \E r \in Range(up) : r.op = "server"
  \/ \E m \in Range(down) : m.type \in {"server", "serverChanged"}

LEMMA NamesAre == NamesCurrent /\ ~AskedNames => names = default
BY DEF NamesCurrent, AskedNames, Prevails, ServerMessages, Range

(* What was to be read again still is, unless the server has just answered;  *)
(* what changes will be.                                                     *)
LEMMA RereadKept ==
  ASSUME Types, Subscribed, [Next]_vars, connected, connected'
  PROVE  /\ AskedNames => \A o \in Objects : Reread(o)'
         /\ \A o \in Objects : Reread(o) =>
              Reread(o)' \/ (Serve /\ Head(up).op = "info" /\ o \in Head(up).items)
         /\ default' # default => \A o \in Objects : Reread(o)'
         /\ \A o \in Objects : world'[o] # world[o] /\ world'[o] # "gone" => Reread(o)'
<1> DEFINE Goal ==
       /\ AskedNames => \A o \in Objects : Reread(o)'
       /\ \A o \in Objects : Reread(o) =>
            Reread(o)' \/ (Serve /\ Head(up).op = "info" /\ o \in Head(up).items)
       /\ default' # default => \A o \in Objects : Reread(o)'
       /\ \A o \in Objects : world'[o] # world[o] /\ world'[o] # "gone" => Reread(o)'
<1>r. \A o \in Objects : Reread(o)' <=>
        (\E r \in Range(up') : AsksFor(r, o)) \/ (\E m \in Range(down') : LeadsTo(m, o))
  BY DEF Reread
<1>t. up \in Seq(Requests) /\ down \in Seq(Messages)
  BY DEF Types
<1>1. CASE Serve \/ \E x \in Objects : Change(x)
  <2>1. PICK new \in SUBSET Messages : Told(new)
    BY <1>1, ServerStep
  <2>2. Range(down') = Range(down) \cup new
    BY <1>t, <2>1, LongerTyped DEF Told
  <2>3. \/ up' = up
        \/ Serve /\ Head(up) \in Requests /\ Range(up) = {Head(up)} \cup Range(up')
    BY <1>1, ServerStep
  <2>4. \A r \in Range(up) : r \in Range(up') \/ (Serve /\ r = Head(up))
    BY <2>3
  <2>5. Serve /\ Head(up).op = "server" => \E m \in Range(down') : m.type = "server"
    BY <2>1, <2>2 DEF Told
  <2>6. AskedNames => \A o \in Objects : Reread(o)'
    BY <1>r, <2>2, <2>4, <2>5 DEF AskedNames, AsksFor, LeadsTo
  <2>7. \A o \in Objects : Reread(o) =>
            Reread(o)' \/ (Serve /\ Head(up).op = "info" /\ o \in Head(up).items)
    BY <1>r, <2>2, <2>4, <2>5 DEF Reread, AsksFor, LeadsTo
  <2>8. CASE subscribed
    <3>1. default' # default => \E m \in Range(down') : m.type = "serverChanged"
      BY <2>1, <2>2, <2>8 DEF Told
    <3>2. \A o \in Objects : world'[o] # world[o] /\ world'[o] # "gone" =>
            \E m \in Range(down') : m.type = "changed" /\ o \in m.items
      BY <2>1, <2>2, <2>8 DEF Told
    <3> QED
      BY <1>r, <2>6, <2>7, <3>1, <3>2 DEF LeadsTo
  <2>9. CASE ~subscribed
    <3>1. Serve => UNCHANGED server
      BY <2>1, <2>9 DEF Told
    <3>2. \E r \in Range(up) : r.op = "server"
      <4>1. Len(up) >= 2 /\ up[2].op = "server" /\ Len(up) \in Nat
        BY <1>t, <2>9 DEF Subscribed
      <4>2. 2 \in DOMAIN up
        BY <1>t, <4>1
      <4> QED
        BY <4>1, <4>2 DEF Range
    <3>3. up' = up => \A o \in Objects : Reread(o)'
      BY <1>r, <3>2 DEF AsksFor
    <3> QED
      BY <2>3, <2>6, <2>7, <3>1, <3>3 DEF server
  <2> QED
    BY <2>8, <2>9 DEF Types
<1>2. CASE contextReady \/ contextLost
  BY <1>2 DEF contextReady, contextLost
<1>3. CASE Reads
  <2>1. /\ Head(down) \in Messages /\ Range(down) = {Head(down)} \cup Range(down')
        /\ Range(up) \subseteq Range(up')
        /\ Head(down).type = "changed" => Request("info", Head(down).items) \in Range(up')
        /\ Head(down).type = "serverChanged" => Request("server", {}) \in Range(up')
        /\ Head(down).type = "server" =>
             \A o \in Objects : \E r \in Range(up') : r.op = "info" /\ o \in r.items
    BY <1>3, ReadsMembers
  <2>2. UNCHANGED server
    BY <1>3, ReadsPost
  <2>3. \A o \in Objects : LeadsTo(Head(down), o) => \E r \in Range(up') : AsksFor(r, o)
    BY <2>1, RequestsAre DEF LeadsTo, AsksFor
  <2>4. \A o \in Objects : Reread(o) => Reread(o)'
    BY <1>r, <2>1, <2>3 DEF Reread
  <2>5. AskedNames => \A o \in Objects : Reread(o)
    BY DEF AskedNames, Reread, AsksFor, LeadsTo
  <2> QED
    BY <2>2, <2>4, <2>5 DEF server
<1>4. CASE Ignored \/ Deliver
  <2>1. UNCHANGED <<server, down>> /\ Range(up) \subseteq Range(up')
    BY <1>4 DEF Ignored, Deliver, apply, removed, setAvailable, wire
  <2>2. \A o \in Objects : Reread(o) => Reread(o)'
    BY <1>r, <2>1 DEF Reread
  <2>3. AskedNames => \A o \in Objects : Reread(o)
    BY DEF AskedNames, Reread, AsksFor, LeadsTo
  <2> QED
    BY <2>1, <2>2, <2>3 DEF server
<1> QED
  BY <1>1, <1>2, <1>3, <1>4, Steps

LEMMA NamesKept ==
  ASSUME SessionInv, connected => NamesCurrent, [Next]_vars, connected'
  PROVE  NamesCurrent'
<1>i. Types /\ Subscribed
  BY DEF SessionInv
<1>t. up \in Seq(Requests) /\ down \in Seq(Messages)
  BY <1>i DEF Types
<1> DEFINE R == ServerMessages({default})
           W == ServerMessages((SUBSET Objects) \ {default})
           R1 == ServerMessages({default'})
           W1 == ServerMessages((SUBSET Objects) \ {default'})
<1>n. NamesCurrent' <=>
        \/ \E r \in Range(up') : r.op = "server"
        \/ \E m \in Range(down') : m.type = "serverChanged"
        \/ Prevails(down', R1, W1)
        \/ Spared(down', W1) /\ names' = default'
  BY DEF NamesCurrent, ServerMessages
<1>1. CASE Serve \/ \E x \in Objects : Change(x)
  <2>1. PICK new \in SUBSET Messages : Told(new)
    BY <1>1, <1>i, ServerStep
  <2>2. /\ connected /\ names' = names
        /\ \/ up' = up
           \/ Serve /\ Head(up) \in Requests /\ Range(up) = {Head(up)} \cup Range(up')
    BY <1>1, <1>i, ServerStep
  <2>3. Range(down') = Range(down) \cup new /\ Longer(down, down', new)
    BY <1>t, <2>1, LongerTyped DEF Told
  <2>4. new \cap W1 = {}
    BY <2>1 DEF Told, ServerMessages
  <2>5. \A m \in new : m.type = "server" => m \in R1
    BY <2>1 DEF Told, ServerMessages
  <2> HIDE DEF R, W, R1, W1
  <2>6. /\ Prevails(down, R1, W1) => Prevails(down', R1, W1)
        /\ Spared(down, W1) => Spared(down', W1)
        /\ new \cap R1 # {} => Prevails(down', R1, W1)
    BY <1>t, <2>3, <2>4, PrevailsLonger
  <2>7. Serve /\ Head(up).op = "server" => NamesCurrent'
    BY <1>n, <2>1, <2>5, <2>6 DEF Told
  <2>8. (\E r \in Range(up) : r.op = "server") => NamesCurrent'
    BY <1>n, <2>2, <2>7
  <2>9. CASE default' = default
    BY <1>n, <2>2, <2>3, <2>6, <2>8, <2>9 DEF NamesCurrent, R, W, R1, W1
  <2>10. CASE default' # default
    <3>1. CASE subscribed
      BY <1>n, <2>1, <2>3, <2>10, <3>1 DEF Told
    <3>2. CASE ~subscribed
      <4>1. Len(up) >= 2 /\ up[2].op = "server" /\ Len(up) \in Nat
        BY <1>i, <1>t, <2>2, <3>2 DEF Subscribed
      <4>2. 2 \in DOMAIN up
        BY <1>t, <4>1
      <4> QED
        BY <2>8, <4>1, <4>2 DEF Range
    <3> QED
      BY <1>i, <3>1, <3>2 DEF Types
  <2> QED
    BY <2>9, <2>10
<1>2. CASE contextReady
  <2>1. up' = <<Request("subscribe", {}), Request("server", {})>>
    BY <1>2 DEF contextReady
  <2>2. 2 \in DOMAIN up' /\ up'[2] = Request("server", {})
    BY <2>1
  <2>3. up'[2] \in Range(up') /\ up'[2].op = "server"
    BY <2>2, RequestsAre DEF Range
  <2> QED
    BY <1>n, <2>3
<1>3. CASE contextLost
  BY <1>3 DEF contextLost
<1>4. CASE Reads
  <2>1. /\ Head(down) \in Messages /\ Range(down) = {Head(down)} \cup Range(down')
        /\ Range(up) \subseteq Range(up')
        /\ Head(down).type = "serverChanged" => Request("server", {}) \in Range(up')
        /\ Head(down).type = "server" => names' = Head(down).items
        /\ Head(down).type # "server" => names' = names
    BY <1>4, <1>i, ReadsMembers
  <2>2. connected /\ default' = default /\ down # <<>> /\ down' = Tail(down)
    BY <1>4, <1>i, ReadsPost DEF server
  <2>3. Head(down) \in R => names' = default
    BY <2>1 DEF ServerMessages
  <2>4. Head(down) \notin W /\ names = default => names' = default
    <3>1. Head(down).type = "server" => Head(down).items \in SUBSET Objects
      BY <2>1 DEF Messages
    <3> QED
      BY <2>1, <3>1 DEF ServerMessages
  <2>5. R1 = R /\ W1 = W
    BY <2>2
  <2> HIDE DEF R, W, R1, W1
  <2>6. /\ Prevails(down, R, W) => Prevails(down', R, W) \/ (Head(down) \in R /\ Spared(down', W))
        /\ Spared(down, W) => Head(down) \notin W /\ Spared(down', W)
    BY <1>t, <2>2, PrevailsTaken
  <2>7. Prevails(down, R, W) \/ (Spared(down, W) /\ names = default) => NamesCurrent'
    BY <1>n, <2>2, <2>3, <2>4, <2>5, <2>6
  <2>8. (\E m \in Range(down) : m.type = "serverChanged") => NamesCurrent'
    BY <1>n, <2>1, RequestsAre
  <2>9. (\E r \in Range(up) : r.op = "server") => NamesCurrent'
    BY <1>n, <2>1
  <2> QED
    BY <2>2, <2>7, <2>8, <2>9 DEF NamesCurrent, R, W
<1>5. CASE Ignored \/ Deliver
  <2>1. UNCHANGED <<server, connected, down, names>> /\ Range(up) \subseteq Range(up')
    BY <1>5 DEF Ignored, Deliver, apply, removed, setAvailable, wire
  <2> QED
    BY <1>n, <2>1 DEF NamesCurrent, server
<1> QED
  BY <1>1, <1>2, <1>3, <1>4, <1>5, <1>i, Steps

-----------------------------------------------------------------------------
(* The last words.                                                           *)

(* A callback takes a message and posts the call it becomes.                 *)
LEMMA EndsRead ==
  ASSUME Types, Subscribed, Reads, NEW now, NEW goal, Ends(down, posted, now, goal),
         Head(down) \in goal.read \cup goal.misread => Head(down).type \in {"info", "removed"},
         Head(down).type = "info" /\ Kept(Head(down).items) = {} => Head(down) \notin goal.read,
         \A c \in Calls :
           \/ Head(down).type = "removed" /\ c = Call("removed", Head(down).items)
           \/ Head(down).type = "info" /\ c = Call("apply", Converted(Head(down).items))
           => /\ Head(down) \in goal.read => c \in goal.set
              /\ Head(down) \notin goal.misread => c \notin goal.reset
  PROVE  Ends(down', posted', now, goal)
<1>t. down \in Seq(Messages) /\ posted \in Seq(Calls)
  BY DEF Types
<1>1. down # <<>> /\ down' = Tail(down) /\ Head(down) \in Messages
  BY ReadsPost, ReadsMembers
<1>2. Head(down) \notin goal.read => Ends(Tail(down), posted, now, goal)
  BY <1>t, <1>1, EndsKept
<1>3. \A c \in Calls :
        /\ Head(down) \in goal.read => c \in goal.set
        /\ Head(down) \notin goal.misread => c \notin goal.reset
        => Ends(Tail(down), Append(posted, c), now, goal)
  BY <1>t, <1>1, EndsKept
<1>4. CASE subscribeCallback
  <2>1. Head(down).type \in {"changed", "removed", "serverChanged"}
    BY <1>4 DEF subscribeCallback, Received
  <2>2. CASE Head(down).type = "removed"
    <3> DEFINE c == Call("removed", Head(down).items)
    <3>1. Head(down).items \subseteq Objects
      BY <1>1, <2>2 DEF Messages
    <3>2. c \in Calls
      BY <3>1, CallsAre
    <3>3. posted' = Append(posted, c)
      BY <1>4, <2>2 DEF subscribeCallback
    <3>4. Ends(Tail(down), Append(posted, c), now, goal)
      BY <1>3, <2>2, <3>2
    <3> QED
      BY <1>1, <3>3, <3>4
  <2>3. CASE Head(down).type # "removed"
    <3>1. posted' = posted
      BY <1>4, <2>3 DEF subscribeCallback
    <3> QED
      BY <1>1, <1>2, <2>1, <2>3, <3>1
  <2> QED
    BY <2>2, <2>3
<1>5. CASE infoCallback
  <2> DEFINE c == Call("apply", Converted(Head(down).items))
  <2>1. Head(down).type = "info"
    BY <1>5 DEF infoCallback, Received
  <2>2. c \in Calls
    BY <1>5, InfoCallback, CallsAre
  <2>3. \/ Kept(Head(down).items) = {} /\ posted' = posted
        \/ posted' = Append(posted, c)
    BY <1>5, InfoCallback
  <2>4. Ends(Tail(down), Append(posted, c), now, goal)
    BY <1>3, <2>1, <2>2
  <2> QED
    BY <1>1, <1>2, <2>1, <2>3, <2>4
<1>6. CASE serverInfoCallback \/ setVolumeCallback
  <2>1. Head(down).type \in {"server", "channels"} /\ posted' = posted
    BY <1>6 DEF serverInfoCallback, setVolumeCallback, Received
  <2> QED
    BY <1>1, <1>2, <2>1
<1> QED
  BY <1>4, <1>5, <1>6 DEF Reads

(* What a conversion makes of the items about some objects.                  *)
LEMMA ConvertedItems ==
  ASSUME NEW items \in SUBSET (Objects \X Volumes), NEW objects
  PROVE  /\ \A i \in Items(Converted(items), objects) :
              \E j \in Items(items, objects) : i = <<j[1], Entry(j[1], j[2])>>
         /\ objects \cap Monitors = {} =>
              \A j \in Items(items, objects) : <<j[1], Entry(j[1], j[2])>> \in Items(Converted(items), objects)
BY DEF Items, Converted, Kept

(* An entry read under the server's names is the row.                        *)
LEMMA EntryIsRow ==
  ASSUME Types, names = default, NEW o \in Objects
  PROVE  Entry(o, world[o]) = Row(o)
<1>1. default \subseteq Devices
  BY DefaultsAre DEF Types
<1>2. CASE o \in Streams
  <2>1. Entry(o, world[o]) = [volume |-> world[o], default |-> FALSE]
    BY <1>2 DEF Entry, toStream
  <2>2. (o \in default) = FALSE
    BY <1>1, <1>2, KindsAre
  <2> QED
    BY <2>1, <2>2 DEF Row
<1>3. CASE o \notin Streams
  BY <1>3 DEF Entry, Row, toDevice
<1> QED
  BY <1>2, <1>3

LEMMA RowRead ==
  ASSUME Types, Subscribed, Reads, names = default, NEW o \in Objects \ Monitors,
         Ends(down, posted, shown[o], RowGoal(o))
  PROVE  Ends(down', posted', shown[o], RowGoal(o))
<1>m. Head(down) \in Messages
  BY ReadsMembers
<1> DEFINE goal == RowGoal(o)
<1>1. Head(down) \in goal.read \cup goal.misread => Head(down).type \in {"info", "removed"}
  BY DEF RowGoal, Say, Gainsay, Infos, Removals
<1>2. Kept(Head(down).items) = {} => Head(down) \notin goal.read
  BY DEF RowGoal, Say, Items, Kept
<1>3. ASSUME NEW c \in Calls, Head(down).type = "removed", c = Call("removed", Head(down).items)
      PROVE  /\ Head(down) \in goal.read => c \in goal.set
             /\ Head(down) \notin goal.misread => c \notin goal.reset
  <2>1. c.name = "removed" /\ c.items = Head(down).items
    BY <1>3, CallsAre
  <2> QED
    BY <1>m, <1>3, <2>1 DEF RowGoal, Say, Gainsay, Infos, Applies, Removals, RemoveCalls
<1>4. ASSUME NEW c \in Calls, Head(down).type = "info", c = Call("apply", Converted(Head(down).items))
      PROVE  /\ Head(down) \in goal.read => c \in goal.set
             /\ Head(down) \notin goal.misread => c \notin goal.reset
  <2> DEFINE items == Head(down).items
  <2>1. c.name = "apply" /\ c.items = Converted(items)
    BY <1>4, CallsAre
  <2>2. items \in SUBSET (Objects \X Volumes)
    BY <1>m, <1>4 DEF Messages
  <2>3. /\ \A i \in Items(Converted(items), {o}) :
              \E j \in Items(items, {o}) : i = <<j[1], Entry(j[1], j[2])>>
        /\ \A j \in Items(items, {o}) : <<j[1], Entry(j[1], j[2])>> \in Items(Converted(items), {o})
    BY <2>2, ConvertedItems
  <2> HIDE DEF items
  <2>e. \A j : j = <<o, world[o]>> => <<j[1], Entry(j[1], j[2])>> = <<o, Row(o)>>
    BY EntryIsRow
  <2>4. ASSUME Items(items, {o}) = {<<o, world[o]>>} PROVE Items(Converted(items), {o}) = {<<o, Row(o)>>}
    <3>1. \A i \in Items(Converted(items), {o}) : i = <<o, Row(o)>>
      BY <2>3, <2>4, <2>e
    <3>2. <<o, world[o]>> \in Items(items, {o})
      BY <2>4
    <3>3. <<o, Row(o)>> \in Items(Converted(items), {o})
      BY <2>3, <2>e, <3>2
    <3> QED
      BY <3>1, <3>3
  <2>5. Items(items, {o}) \subseteq {<<o, world[o]>>} => Items(Converted(items), {o}) \subseteq {<<o, Row(o)>>}
    BY <2>3, <2>e
  <2>6. Head(down) \in goal.read => c \in goal.set
    BY <2>1, <2>4 DEF RowGoal, Say, Applies, items
  <2>7. Head(down) \notin goal.misread => c \notin goal.reset
    BY <1>m, <1>4, <2>1, <2>5 DEF RowGoal, Gainsay, Infos, Applies, RemoveCalls, items
  <2> QED
    BY <2>6, <2>7
<1>5. Ends(down, posted, shown[o], goal)
  OBVIOUS
<1> HIDE DEF goal
<1>6. Ends(down', posted', shown[o], goal)
  BY <1>1, <1>2, <1>3, <1>4, <1>5, EndsRead
<1> QED
  BY <1>6 DEF goal

LEMMA GoneRead ==
  ASSUME Types, Subscribed, Reads, NEW o \in Objects,
         Ends(down, posted, shown[o], GoneGoal(o))
  PROVE  Ends(down', posted', shown[o], GoneGoal(o))
<1>m. Head(down) \in Messages
  BY ReadsMembers
<1> DEFINE goal == GoneGoal(o)
<1>1. Head(down) \in goal.read \cup goal.misread => Head(down).type \in {"info", "removed"}
  BY DEF GoneGoal, Gainsay, Infos, Removals
<1>2. Head(down).type = "info" => Head(down) \notin goal.read
  BY DEF GoneGoal, Removals
<1>3. ASSUME NEW c \in Calls, Head(down).type = "removed", c = Call("removed", Head(down).items)
      PROVE  /\ Head(down) \in goal.read => c \in goal.set
             /\ Head(down) \notin goal.misread => c \notin goal.reset
  <2>1. c.name = "removed" /\ c.items = Head(down).items
    BY <1>3, CallsAre
  <2> QED
    BY <1>m, <1>3, <2>1 DEF GoneGoal, Gainsay, Infos, Applies, Removals, RemoveCalls
<1>4. ASSUME NEW c \in Calls, Head(down).type = "info", c = Call("apply", Converted(Head(down).items))
      PROVE  /\ Head(down) \in goal.read => c \in goal.set
             /\ Head(down) \notin goal.misread => c \notin goal.reset
  <2> DEFINE items == Head(down).items
  <2>1. c.name = "apply" /\ c.items = Converted(items)
    BY <1>4, CallsAre
  <2>2. items \in SUBSET (Objects \X Volumes)
    BY <1>m, <1>4 DEF Messages
  <2>3. Items(items, {o}) = {} => Items(Converted(items), {o}) = {}
    BY <2>2, ConvertedItems
  <2> HIDE DEF items
  <2>4. Head(down) \notin goal.read
    BY <1>4 DEF GoneGoal, Removals
  <2>5. Head(down) \notin goal.misread => c \notin goal.reset
    BY <1>m, <1>4, <2>1, <2>3 DEF GoneGoal, Gainsay, Infos, Applies, items
  <2> QED
    BY <2>4, <2>5
<1>5. Ends(down, posted, shown[o], goal)
  OBVIOUS
<1> HIDE DEF goal
<1>6. Ends(down', posted', shown[o], goal)
  BY <1>1, <1>2, <1>3, <1>4, <1>5, EndsRead
<1> QED
  BY <1>6 DEF goal

LEMMA OutputRead ==
  ASSUME Types, Subscribed, Reads, names = default, NEW d \in default \cap Of("sink"),
         Ends(down, posted, <<default_output, volume>>, OutputGoal(d))
  PROVE  Ends(down', posted', <<default_output, volume>>, OutputGoal(d))
<1>m. Head(down) \in Messages
  BY ReadsMembers
<1>d. d \in Objects /\ Of("sink") \cap names = {d} /\ Of("sink") \cap Monitors = {}
  BY KindsAre, DefaultsAre, ObjectsAssumption DEF Types
<1>e. \A x \in Of("sink") : \A v : Entry(x, v).default <=> x \in names
  BY KindsAre DEF Entry, toDevice
<1> DEFINE goal == OutputGoal(d)
<1>1. Head(down) \in goal.read \cup goal.misread => Head(down).type \in {"info", "removed"}
  BY DEF OutputGoal, Say, Gainsay, Infos, Removals
<1>2. Kept(Head(down).items) = {} => Head(down) \notin goal.read
  BY <1>d DEF OutputGoal, Say, Items, Kept
<1>3. ASSUME NEW c \in Calls, Head(down).type = "removed", c = Call("removed", Head(down).items)
      PROVE  /\ Head(down) \in goal.read => c \in goal.set
             /\ Head(down) \notin goal.misread => c \notin goal.reset
  <2>1. c.name = "removed" /\ c.items = Head(down).items
    BY <1>3, CallsAre
  <2> QED
    BY <1>m, <1>3, <2>1 DEF OutputGoal, Say, Gainsay, Infos, Applies, Removals, RemoveCalls
<1>4. ASSUME NEW c \in Calls, Head(down).type = "info", c = Call("apply", Converted(Head(down).items))
      PROVE  /\ Head(down) \in goal.read => c \in goal.set
             /\ Head(down) \notin goal.misread => c \notin goal.reset
  <2> DEFINE items == Head(down).items
             S == Of("sink") \cap names
  <2>1. c.name = "apply" /\ c.items = Converted(items)
    BY <1>4, CallsAre
  <2>2. items \in SUBSET (Objects \X Volumes)
    BY <1>m, <1>4 DEF Messages
  <2> HIDE DEF items
  <2>3. /\ \A i \in Flagged(Converted(items)) :
              \E j \in Items(items, S) : i = <<j[1], Entry(j[1], j[2])>>
        /\ \A j \in Items(items, S) : <<j[1], Entry(j[1], j[2])>> \in Flagged(Converted(items))
    BY <2>2, <1>d, <1>e DEF Flagged, Converted, Kept, Items
  <2>e. \A j : j = <<d, world[d]>> => <<j[1], Entry(j[1], j[2])>> = <<d, Row(d)>>
    BY <1>d, EntryIsRow
  <2>4. ASSUME Items(items, S) = {<<d, world[d]>>} PROVE Flagged(Converted(items)) = {<<d, Row(d)>>}
    <3>1. \A i \in Flagged(Converted(items)) : i = <<d, Row(d)>>
      BY <2>3, <2>4, <2>e
    <3>2. <<d, world[d]>> \in Items(items, S)
      BY <2>4
    <3>3. <<d, Row(d)>> \in Flagged(Converted(items))
      BY <2>3, <2>e, <3>2
    <3> QED
      BY <3>1, <3>3
  <2>5. Items(items, S) \subseteq {<<d, world[d]>>} => Flagged(Converted(items)) \subseteq {<<d, Row(d)>>}
    BY <2>3, <2>e
  <2>6. Head(down) \in goal.read => c \in goal.set
    BY <2>1, <2>4 DEF OutputGoal, Say, Applies, items
  <2>7. Head(down) \notin goal.misread => c \notin goal.reset
    BY <1>m, <1>4, <2>1, <2>5 DEF OutputGoal, Gainsay, Infos, Applies, RemoveCalls, items
  <2> QED
    BY <2>6, <2>7
<1>5. Ends(down, posted, <<default_output, volume>>, goal)
  OBVIOUS
<1> HIDE DEF goal
<1>6. Ends(down', posted', <<default_output, volume>>, goal)
  BY <1>1, <1>2, <1>3, <1>4, <1>5, EndsRead
<1> QED
  BY <1>6 DEF goal

(* A row that is not about to be read again is unchanged on the server, and  *)
(* the names are known.                                                      *)
LEMMA Unchanging ==
  ASSUME SessionInv, connected => NamesCurrent, [Next]_vars, connected',
         NEW o \in Objects, ~Reread(o)', world'[o] # "gone"
  PROVE  /\ connected /\ ~contextReady /\ ~contextLost
         /\ default' = default /\ world'[o] = world[o] /\ names = default
         /\ RowGoal(o)' = RowGoal(o)
         /\ Reread(o) => Serve /\ Head(up).op = "info" /\ o \in Head(up).items
<1>i. Types /\ Subscribed
  BY DEF SessionInv
<1>1. ~contextReady
  <2> SUFFICES ASSUME contextReady PROVE FALSE
    OBVIOUS
  <2>1. up' = <<Request("subscribe", {}), Request("server", {})>>
    BY DEF contextReady
  <2>2. 2 \in DOMAIN up' /\ up'[2] = Request("server", {})
    BY <2>1
  <2>3. up'[2] \in Range(up') /\ AsksFor(up'[2], o)
    BY <2>2, RequestsAre DEF Range, AsksFor
  <2> QED
    BY <2>3 DEF Reread
<1>2. ~contextLost
  BY DEF contextLost
<1>3. connected
  <2>1. Serve \/ (\E x \in Objects : Change(x)) => connected' = connected
    BY <1>i, ServerStep
  <2>2. Reads \/ Ignored \/ Deliver => connected' = connected
    BY <1>i, ReadsPost DEF Ignored, Deliver, apply, removed, setAvailable, wire
  <2> QED
    BY <1>1, <1>2, <1>i, <2>1, <2>2, Steps
<1>4. default' = default /\ world'[o] = world[o] /\ ~AskedNames
  BY <1>3, <1>i, RereadKept
<1>5. names = default
  BY <1>3, <1>4, NamesAre
<1>6. RowGoal(o)' = RowGoal(o)
  BY <1>4 DEF RowGoal, Row
<1>7. Reread(o) => Serve /\ Head(up).op = "info" /\ o \in Head(up).items
  BY <1>3, <1>i, RereadKept
<1> QED
  BY <1>1, <1>2, <1>3, <1>4, <1>5, <1>6, <1>7

(* What the head of the GUI thread's calls does to a row.                    *)
LEMMA RowDelivered ==
  ASSUME SessionInv, DistinctStreams, connected, Deliver, NEW o \in Objects,
         Ends(down, posted, shown[o], RowGoal(o))
  PROVE  Ends(down', posted', shown'[o], RowGoal(o))
<1>t. /\ down \in Seq(Messages) /\ posted \in Seq(Calls) /\ shown \in [Objects -> Entries]
      /\ Streams \subseteq Objects
  BY KindsAre DEF SessionInv, Types
<1>1. posted # <<>> /\ posted' = Tail(posted) /\ down' = down
  BY DEF Deliver, apply, removed, setAvailable, Due, wire
<1>2. Head(posted) \in Calls /\ Head(posted) = posted[1] /\ 1 \in DOMAIN posted
  BY <1>t, <1>1, Taken
<1>3. Head(posted).name # "lost"
  BY <1>2 DEF SessionInv, Sessions
<1> DEFINE goal == RowGoal(o)
           items == Head(posted).items
<1>w. goal.wanted = Row(o)
  BY DEF RowGoal
<1>4. CASE apply
  <2>1. Head(posted) \in Applies /\ items \in SUBSET (Objects \X Entries)
    BY <1>2, <1>4 DEF apply, Due, Applies, Calls
  <2>2. shown'[o] = IF \E i \in items : i[1] = o THEN (CHOOSE i \in items : i[1] = o)[2] ELSE shown[o]
    BY <1>4 DEF apply, Rows
  <2>3. Items(items, {o}) = {i \in items : i[1] = o}
    BY DEF Items
  <2>4. Head(posted) \in goal.set => Items(items, {o}) = {<<o, Row(o)>>}
    BY DEF RowGoal, Say
  <2>5. Head(posted) \notin goal.reset => Items(items, {o}) \subseteq {<<o, Row(o)>>}
    BY <2>1 DEF RowGoal, Gainsay
  <2> HIDE DEF items, goal
  <2>6. (\E i \in items : i[1] = o) => (CHOOSE i \in items : i[1] = o) \in Items(items, {o})
    BY <2>3
  <2>7. \A i : i = <<o, Row(o)>> => i[1] = o /\ i[2] = Row(o)
    OBVIOUS
  <2>8. Head(posted) \in goal.set => shown'[o] = Row(o)
    BY <2>2, <2>3, <2>4, <2>6, <2>7
  <2>9. Head(posted) \notin goal.reset /\ shown[o] = Row(o) => shown'[o] = Row(o)
    BY <2>2, <2>5, <2>6, <2>7
  <2> QED
    BY <1>t, <1>1, <1>w, <2>8, <2>9, EndsKept DEF goal
<1>5. CASE removed
  <2>1. Head(posted).name = "removed" /\ items \subseteq Objects
    BY <1>2, <1>5 DEF removed, Due, Calls
  <2>2. shown'[o] = shown[o] \/ o \in items
    BY <1>5, <1>t DEF removed, DistinctStreams
  <2>3. Head(posted) \notin goal.set
    BY <2>1 DEF RowGoal, Say, Applies
  <2>4. o \in items => Head(posted) \in goal.reset
    BY <1>2, <2>1 DEF RowGoal, RemoveCalls
  <2> HIDE DEF items, goal
  <2> QED
    BY <1>t, <1>1, <1>w, <2>2, <2>3, <2>4, EndsKept DEF goal
<1>6. CASE setAvailable
  <2>1. shown'[o] = shown[o] /\ Head(posted).name = "ready"
    BY <1>3, <1>6 DEF setAvailable, Due
  <2>2. Head(posted) \notin goal.set
    BY <2>1 DEF RowGoal, Say, Applies
  <2> HIDE DEF goal
  <2> QED
    BY <1>t, <1>1, <1>w, <2>1, <2>2, EndsKept DEF goal
<1> QED
  BY <1>4, <1>5, <1>6 DEF Deliver

LEMMA RowsKept ==
  ASSUME SessionInv, connected => NamesCurrent, connected => RowsCurrent, DistinctStreams,
         [Next]_vars, connected'
  PROVE  RowsCurrent'
<1> SUFFICES ASSUME NEW o \in Objects \ Monitors, world'[o] # "gone", ~Reread(o)'
             PROVE  Ends(down', posted', shown'[o], RowGoal(o)')
  BY DEF RowsCurrent
<1>i. Types /\ Subscribed
  BY DEF SessionInv
<1>t. down \in Seq(Messages) /\ posted \in Seq(Calls)
  BY <1>i DEF Types
<1>1. /\ connected /\ ~contextReady /\ ~contextLost
      /\ default' = default /\ world'[o] = world[o] /\ names = default
      /\ RowGoal(o)' = RowGoal(o)
      /\ Reread(o) => Serve /\ Head(up).op = "info" /\ o \in Head(up).items
  BY Unchanging
<1>2. ~Reread(o) => Ends(down, posted, shown[o], RowGoal(o))
  BY <1>1 DEF RowsCurrent
<1> SUFFICES Ends(down', posted', shown'[o], RowGoal(o))
  BY <1>1
<1>3. CASE Serve \/ \E x \in Objects : Change(x)
  <2> DEFINE goal == RowGoal(o)
  <2>1. PICK new \in SUBSET Messages : Told(new)
    BY <1>3, <1>i, ServerStep
  <2>2. posted' = posted /\ shown' = shown
    BY <1>3, <1>i, ServerStep DEF view
  <2>3. ASSUME NEW m \in new PROVE m \notin Removals(o)
    BY <1>1, <2>1 DEF Told, Removals
  <2>4. ASSUME NEW m \in new, m.type = "info"
        PROVE  /\ Items(m.items, {o}) \subseteq {<<o, world[o]>>}
               /\ o \in Head(up).items => Items(m.items, {o}) = {<<o, world[o]>>}
    <3>1. m.items = {<<p, world[p]>> : p \in {x \in Head(up).items : world[x] # "gone"}}
      BY <2>1, <2>4 DEF Told
    <3> QED
      BY <1>1, <3>1 DEF Items
  <2>5. \A m \in new : m \notin goal.misread
    BY <2>3, <2>4 DEF RowGoal, Gainsay, Infos
  <2>6. Reread(o) => \E m \in new : m \in goal.read
    <3> SUFFICES ASSUME Reread(o) PROVE \E m \in new : m \in goal.read
      OBVIOUS
    <3>1. PICK m \in new : m.type = "info"
      BY <1>1, <2>1 DEF Told
    <3>2. Items(m.items, {o}) = {<<o, world[o]>>}
      BY <1>1, <2>4, <3>1
    <3> QED
      BY <3>1, <3>2 DEF RowGoal, Say, Infos
  <2> HIDE DEF goal
  <2>7. Ends(down', posted, shown[o], goal)
    BY <1>t, <1>2, <2>1, <2>5, <2>6, EndsLonger DEF Told, goal
  <2> QED
    BY <2>2, <2>7 DEF goal
<1>4. CASE Reads
  <2>1. Ends(down, posted, shown[o], RowGoal(o)) => Ends(down', posted', shown'[o], RowGoal(o))
    BY <1>1, <1>4, <1>i, RowRead, ReadsPost DEF view
  <2> QED
    BY <1>1, <1>2, <1>3, <2>1
<1>5. CASE Ignored
  BY <1>1, <1>2, <1>3, <1>5 DEF Ignored, view
<1>6. CASE Deliver
  <2>1. Ends(down, posted, shown[o], RowGoal(o)) => Ends(down', posted', shown'[o], RowGoal(o))
    BY <1>1, <1>6, RowDelivered
  <2> QED
    BY <1>1, <1>2, <1>3, <2>1
<1> QED
  BY <1>1, <1>3, <1>4, <1>5, <1>6, <1>i, Steps

(* A row that is gone: nothing has been read yet, or its removal is the last *)
(* word.                                                                     *)
LEMMA GoneUnread ==
  ASSUME NEW p, \A k \in DOMAIN p : p[k].name = "ready", NEW o
  PROVE  Ends(<<>>, p, Absent, GoneGoal(o))
<1>1. Spared(<<>>, GoneGoal(o).misread)
  BY DEF Spared, Range
<1>2. Spared(p, GoneGoal(o).reset)
  BY DEF Spared, Range, GoneGoal, Gainsay, Applies
<1>3. GoneGoal(o).wanted = Absent
  BY DEF GoneGoal
<1> QED
  BY <1>1, <1>2, <1>3 DEF Ends

LEMMA GoneDelivered ==
  ASSUME SessionInv, Deliver, NEW o \in Objects, Ends(down, posted, shown[o], GoneGoal(o))
  PROVE  Ends(down', posted', shown'[o], GoneGoal(o))
<1>t. /\ down \in Seq(Messages) /\ posted \in Seq(Calls) /\ shown \in [Objects -> Entries]
  BY DEF SessionInv, Types
<1>1. posted # <<>> /\ posted' = Tail(posted) /\ down' = down
  BY DEF Deliver, apply, removed, setAvailable, Due, wire
<1>2. Head(posted) \in Calls
  BY <1>t, <1>1, Taken
<1> DEFINE goal == GoneGoal(o)
           items == Head(posted).items
<1>w. goal.wanted = Absent
  BY DEF GoneGoal
<1>4. CASE apply
  <2>1. Head(posted) \in Applies
    BY <1>2, <1>4 DEF apply, Due, Applies
  <2>2. shown'[o] = IF \E i \in items : i[1] = o THEN (CHOOSE i \in items : i[1] = o)[2] ELSE shown[o]
    BY <1>4 DEF apply, Rows
  <2>3. Head(posted) \notin goal.reset => ~ \E i \in items : i[1] = o
    BY <2>1 DEF GoneGoal, Gainsay, Items
  <2>4. Head(posted) \notin goal.set
    BY <2>1 DEF GoneGoal, RemoveCalls, Applies
  <2> HIDE DEF items, goal
  <2> QED
    BY <1>t, <1>1, <1>w, <2>2, <2>3, <2>4, EndsKept DEF goal
<1>5. CASE removed
  <2>1. shown'[o] = shown[o] \/ shown'[o] = Absent
    BY <1>5 DEF removed
  <2>2. Head(posted) \in goal.set => shown'[o] = Absent
    BY <1>5 DEF removed, GoneGoal, RemoveCalls
  <2> HIDE DEF items, goal
  <2> QED
    BY <1>t, <1>1, <1>w, <2>1, <2>2, EndsKept DEF goal
<1>6. CASE setAvailable
  <2>1. shown'[o] = shown[o] \/ shown'[o] = Absent
    BY <1>6 DEF setAvailable
  <2>2. Head(posted) \notin goal.set
    BY <1>6 DEF GoneGoal, RemoveCalls, setAvailable, Due
  <2> HIDE DEF items, goal
  <2> QED
    BY <1>t, <1>1, <1>w, <2>1, <2>2, EndsKept DEF goal
<1> QED
  BY <1>4, <1>5, <1>6 DEF Deliver

LEMMA GoneKept ==
  ASSUME SessionInv, connected => GoneCurrent, [Next]_vars, connected'
  PROVE  GoneCurrent'
<1> SUFFICES ASSUME NEW o \in Objects, world'[o] = "gone", o \in Streams \/ losses' = 0
             PROVE  Ends(down', posted', shown'[o], GoneGoal(o))
  BY DEF GoneCurrent, GoneGoal, Gainsay, Removals, RemoveCalls
<1>i. Types /\ Subscribed /\ SessionInv'
  BY SessionKept DEF SessionInv
<1>t. down \in Seq(Messages) /\ posted \in Seq(Calls) /\ losses \in Nat
  BY <1>i DEF Types
<1>u. CASE ~subscribed'
  <2>1. down' = <<>> /\ \A k \in DOMAIN posted' : posted'[k].name = "ready"
    BY <1>i, <1>u DEF SessionInv, Subscribed
  <2>2. shown'[o] = Absent
    BY <1>i, <1>u DEF SessionInv, Subscribed, Unread
  <2> QED
    BY <2>1, <2>2, GoneUnread
<1>s. CASE subscribed'
  <2>0. connected /\ losses' = losses /\ ~contextReady /\ ~contextLost
    <3>1. ~contextReady
      BY <1>i, <1>s DEF contextReady, SessionInv, Subscribed
    <3>2. ~contextLost
      BY DEF contextLost
    <3>3. Serve \/ (\E x \in Objects : Change(x)) => connected' = connected /\ losses' = losses
      BY <1>i, ServerStep
    <3>4. Reads \/ Ignored \/ Deliver => connected' = connected /\ losses' = losses
      BY <1>i, ReadsPost DEF Ignored, Deliver, apply, removed, setAvailable, wire, budget
    <3> QED
      BY <1>i, <3>1, <3>2, <3>3, <3>4, Steps
  <2>e. world[o] = "gone" => Ends(down, posted, shown[o], GoneGoal(o))
    BY <2>0 DEF GoneCurrent
  <2>3. CASE Serve \/ \E x \in Objects : Change(x)
    <3> DEFINE goal == GoneGoal(o)
    <3>1. PICK new \in SUBSET Messages : Told(new)
      BY <2>3, <1>i, ServerStep
    <3>2. posted' = posted /\ shown' = shown
      BY <2>3, <1>i, ServerStep DEF view
    <3>3. ASSUME NEW m \in new PROVE m \notin goal.misread
      <4>1. CASE m.type = "info"
        <5>1. /\ UNCHANGED server
              /\ m.items = {<<p, world[p]>> : p \in {x \in Head(up).items : world[x] # "gone"}}
          BY <3>1, <4>1 DEF Told
        <5>2. Items(m.items, {o}) = {}
          BY <5>1 DEF Items, server
        <5> QED
          BY <5>2 DEF GoneGoal, Gainsay
      <4>2. CASE m.type # "info"
        BY <4>2 DEF GoneGoal, Gainsay, Infos
      <4> QED
        BY <4>1, <4>2
    <3>4. world[o] # "gone" => \E m \in new : m \in goal.read
      <4>1. subscribed => (world[o] # "gone" => \E m \in new : m \in Removals(o))
        BY <3>1 DEF Told
      <4>2. ~subscribed => world[o] = "gone" \/ ~Serve
        BY <3>1 DEF Told, server
      <4>3. (\E x \in Objects : Change(x)) => subscribed' = subscribed
        BY DEF Change
      <4> QED
        BY <1>i, <1>s, <2>3, <4>1, <4>2, <4>3 DEF GoneGoal, Types
    <3> HIDE DEF goal
    <3>5. Ends(down, posted, shown[o], goal) \/ \E m \in new : m \in goal.read
      BY <2>e, <3>4 DEF goal
    <3>6. Ends(down', posted, shown[o], goal)
      BY <1>t, <3>1, <3>3, <3>5, EndsLonger DEF Told
    <3> QED
      BY <3>2, <3>6 DEF goal
  <2>4. CASE Reads
    BY <1>i, <2>4, <2>e, GoneRead, ReadsPost DEF server, view
  <2>5. CASE Ignored
    BY <2>5, <2>e DEF Ignored, server, view
  <2>6. CASE Deliver
    <3>1. world' = world
      BY <2>6 DEF Deliver, apply, removed, setAvailable, server
    <3> QED
      BY <2>6, <2>e, <3>1, GoneDelivered
  <2> QED
    BY <1>i, <2>0, <2>3, <2>4, <2>5, <2>6, Steps
<1> QED
  BY <1>i, <1>u, <1>s

(* The output that is controlled.                                            *)
LEMMA OutputDelivered ==
  ASSUME SessionInv, Deliver, NEW d \in Of("sink"),
         Ends(down, posted, <<default_output, volume>>, OutputGoal(d))
  PROVE  Ends(down', posted', <<default_output', volume'>>, OutputGoal(d))
<1>t. down \in Seq(Messages) /\ posted \in Seq(Calls) /\ d \in Objects
  BY KindsAre DEF SessionInv, Types
<1>1. posted # <<>> /\ posted' = Tail(posted) /\ down' = down
  BY DEF Deliver, apply, removed, setAvailable, Due, wire
<1>2. Head(posted) \in Calls
  BY <1>t, <1>1, Taken
<1> DEFINE goal == OutputGoal(d)
           items == Head(posted).items
           now == <<default_output, volume>>
           after == <<default_output', volume'>>
<1>w. goal.wanted = <<{d}, world[d]>>
  BY DEF OutputGoal
<1>4. CASE apply
  <2>1. Head(posted) \in Applies
    BY <1>2, <1>4 DEF apply, Due, Applies
  <2>2. IF Flagged(items) = {} THEN UNCHANGED <<default_output, volume>>
        ELSE \E i \in Flagged(items) : default_output' = {i[1]} /\ volume' = i[2].volume
    BY <1>4 DEF apply, applyDefaultDeviceState, Flagged
  <2>3. Head(posted) \in goal.set => Flagged(items) = {<<d, Row(d)>>}
    BY DEF OutputGoal
  <2>4. Head(posted) \notin goal.reset => Flagged(items) \subseteq {<<d, Row(d)>>}
    BY <2>1 DEF OutputGoal
  <2>5. \A i : i = <<d, Row(d)>> => i[1] = d /\ i[2].volume = world[d]
    BY DEF Row
  <2> HIDE DEF items
  <2>6. Head(posted) \in goal.set => default_output' = {d} /\ volume' = world[d]
    BY <2>2, <2>3, <2>5
  <2>7. Head(posted) \notin goal.reset =>
          UNCHANGED <<default_output, volume>> \/ (default_output' = {d} /\ volume' = world[d])
    BY <2>2, <2>4, <2>5
  <2>8. /\ Head(posted) \in goal.set => after = goal.wanted
        /\ Head(posted) \notin goal.reset /\ now = goal.wanted => after = goal.wanted
    BY <1>w, <2>6, <2>7
  <2> HIDE DEF goal, now, after
  <2>9. Ends(down, Tail(posted), after, goal)
    BY <1>t, <1>1, <2>8, EndsKept DEF now, goal
  <2> QED
    BY <1>1, <2>9 DEF goal, after
<1>5. CASE removed \/ setAvailable
  <2>1. /\ volume' = volume
        /\ default_output' = default_output
           \/ (Head(posted).name = "removed" /\ default_output' = default_output \ items)
    BY <1>5 DEF removed, setAvailable, Due
  <2>2. Head(posted).name # "apply"
    BY <1>5 DEF removed, setAvailable, Due
  <2>3. Head(posted) \notin goal.set
    BY <2>2 DEF OutputGoal, Applies
  <2>4. Head(posted) \notin goal.reset => Head(posted).name # "removed" \/ d \notin items
    BY <1>2 DEF OutputGoal, RemoveCalls
  <2>5. Head(posted) \notin goal.reset /\ now = goal.wanted => after = goal.wanted
    BY <1>w, <2>1, <2>4
  <2> HIDE DEF goal, now, after
  <2>6. Ends(down, Tail(posted), after, goal)
    BY <1>t, <1>1, <2>3, <2>5, EndsKept DEF now, goal
  <2> QED
    BY <1>1, <2>6 DEF goal, after
<1> QED
  BY <1>4, <1>5 DEF Deliver

LEMMA OutputKept ==
  ASSUME SessionInv, connected => NamesCurrent, connected => OutputCurrent, [Next]_vars, connected'
  PROVE  OutputCurrent'
<1> SUFFICES ASSUME NEW d \in default' \cap Of("sink"), ~Reread(d)'
             PROVE  Ends(down', posted', <<default_output', volume'>>, OutputGoal(d)')
  BY DEF OutputCurrent, Of
<1>i. Types /\ Subscribed /\ Types'
  BY SessionKept DEF SessionInv
<1>t. down \in Seq(Messages) /\ posted \in Seq(Calls)
  BY <1>i DEF Types
<1>d. d \in Objects /\ world'[d] # "gone"
  <2>1. default' \in Defaults(world')
    BY <1>i DEF Types
  <2> QED
    BY <2>1, DefaultsAre, KindsAre
<1>1. /\ connected /\ ~contextReady /\ ~contextLost
      /\ default' = default /\ world'[d] = world[d] /\ names = default
      /\ Reread(d) => Serve /\ Head(up).op = "info" /\ d \in Head(up).items
  BY <1>d, Unchanging
<1>2. ~Reread(d) => Ends(down, posted, <<default_output, volume>>, OutputGoal(d))
  BY <1>1 DEF OutputCurrent
<1>3. names' = names
  <2>1. Serve \/ (\E x \in Objects : Change(x)) \/ Ignored \/ Deliver => names' = names
    BY <1>i, ServerStep DEF Ignored, Deliver, apply, removed, setAvailable
  <2>2. ASSUME Reads PROVE names' = names
    <3>1. Head(down).type = "server" => \E r \in Range(up') : AsksFor(r, d)
      BY <1>d, <1>i, <2>2, ReadsMembers DEF AsksFor
    <3>2. Head(down).type # "server"
      BY <3>1 DEF Reread
    <3> QED
      BY <1>i, <2>2, <3>2, ReadsMembers
  <2> QED
    BY <1>1, <1>i, <2>1, <2>2, Steps
<1>4. OutputGoal(d)' = OutputGoal(d)
  BY <1>1, <1>3 DEF OutputGoal, Row, Removals, RemoveCalls
<1> SUFFICES Ends(down', posted', <<default_output', volume'>>, OutputGoal(d))
  BY <1>4
<1>n. Of("sink") \cap names = {d}
  BY <1>1, <1>i, DefaultsAre DEF Types
<1>5. CASE Serve \/ \E x \in Objects : Change(x)
  <2> DEFINE goal == OutputGoal(d)
             now == <<default_output, volume>>
  <2>1. PICK new \in SUBSET Messages : Told(new)
    BY <1>5, <1>i, ServerStep
  <2>2. posted' = posted /\ default_output' = default_output /\ volume' = volume
    BY <1>5, <1>i, ServerStep DEF view
  <2>3. ASSUME NEW m \in new PROVE m \notin Removals(d)
    BY <1>d, <2>1 DEF Told, Removals
  <2>4. ASSUME NEW m \in new, m.type = "info"
        PROVE  /\ Items(m.items, {d}) \subseteq {<<d, world[d]>>}
               /\ d \in Head(up).items => Items(m.items, {d}) = {<<d, world[d]>>}
    <3>1. m.items = {<<p, world[p]>> : p \in {x \in Head(up).items : world[x] # "gone"}}
      BY <2>1, <2>4 DEF Told
    <3> QED
      BY <1>1, <1>d, <3>1 DEF Items
  <2>5. \A m \in new : m \notin goal.misread
    BY <1>n, <2>3, <2>4 DEF OutputGoal, Gainsay, Infos
  <2>6. Reread(d) => \E m \in new : m \in goal.read
    <3> SUFFICES ASSUME Reread(d) PROVE \E m \in new : m \in goal.read
      OBVIOUS
    <3>1. PICK m \in new : m.type = "info"
      BY <1>1, <2>1 DEF Told
    <3>2. Items(m.items, {d}) = {<<d, world[d]>>}
      BY <1>1, <2>4, <3>1
    <3> QED
      BY <1>n, <3>1, <3>2 DEF OutputGoal, Say, Infos
  <2>7. Ends(down, posted, now, goal) \/ \E m \in new : m \in goal.read
    BY <1>2, <2>6
  <2> HIDE DEF goal, now
  <2>8. Ends(down', posted, now, goal)
    BY <1>t, <2>1, <2>5, <2>7, EndsLonger DEF Told
  <2> QED
    BY <2>2, <2>8 DEF goal, now
<1>6. CASE Reads
  <2>1. Ends(down, posted, <<default_output, volume>>, OutputGoal(d)) =>
          Ends(down', posted', <<default_output', volume'>>, OutputGoal(d))
    BY <1>1, <1>6, <1>i, OutputRead, ReadsPost DEF view
  <2> QED
    BY <1>1, <1>2, <1>5, <2>1
<1>7. CASE Ignored
  BY <1>1, <1>2, <1>5, <1>7 DEF Ignored, view
<1>8. CASE Deliver
  <2>1. Ends(down, posted, <<default_output, volume>>, OutputGoal(d)) =>
          Ends(down', posted', <<default_output', volume'>>, OutputGoal(d))
    BY <1>8, OutputDelivered
  <2> QED
    BY <1>1, <1>2, <1>5, <2>1
<1> QED
  BY <1>1, <1>5, <1>6, <1>7, <1>8, <1>i, Steps

-----------------------------------------------------------------------------
(* What the controller and its models promise.                               *)

LEMMA SettledEnds ==
  ASSUME NEW now, NEW goal, Ends(<<>>, <<>>, now, goal)
  PROVE  now = goal.wanted
BY DEF Ends, Prevails

LEMMA SettledReread == up = <<>> /\ down = <<>> => \A o : ~Reread(o)
BY DEF Reread, Range

(* Whatever travels, the calls posted to the GUI thread are those of one     *)
(* connection, begun by its announcement and ended by its loss; nothing is   *)
(* told before the server knows of the subscription (PulseAudioBackend's     *)
(* contextReady and contextLost, AudioController's setAvailable).          *)
THEOREM OneSession == Spec => []SessionInv
<1>1. Init => SessionInv
  BY InitSession
<1>2. SessionInv /\ [Next]_vars => SessionInv'
  BY SessionKept
<1> QED
  BY <1>1, <1>2, PTL DEF Spec

(* No stream outlives the connection it was read from, including streams     *)
(* whose answers were already queued when the connection was lost.           *)
THEOREM StreamsNeedServer == Spec => []UnavailableShowsNoStreams
<1>1. SessionInv => UnavailableShowsNoStreams
  BY DEF SessionInv
<1> QED
  BY <1>1, OneSession, PTL

LEMMA OutputInvKept == SessionInv /\ OutputInv /\ [Next]_vars => OutputInv'
BY NamesKept, OutputKept DEF OutputInv

(* The output the controller's setVolume acts on is the server's default     *)
(* sink and the volume it shows is that sink's, whenever nothing is on its   *)
(* way (applyDefaultDeviceState, onSinkRemoved, serverInfoCallback).         *)
THEOREM ControlledIsDefault == Spec => []ControlsDefault
<1>1. Init => OutputInv
  BY DEF Init, OutputInv
<1>2. SessionInv /\ OutputInv => ControlsDefault
  <2> SUFFICES ASSUME SessionInv, OutputInv, Settled, Alive(world, Of("sink")) # {}
               PROVE  /\ default_output = default \cap Of("sink")
                      /\ \A o \in default_output : volume = world[o]
    BY DEF ControlsDefault
  <2>1. default \in Defaults(world)
    BY DEF SessionInv, Types
  <2>2. PICK d \in default : default \cap Of("sink") = {d}
    BY <2>1, DefaultsAre
  <2>3. Ends(<<>>, <<>>, <<default_output, volume>>, OutputGoal(d))
    BY <2>2, SettledReread DEF OutputInv, OutputCurrent, Settled
  <2>4. <<default_output, volume>> = <<{d}, world[d]>>
    BY <2>3, SettledEnds DEF OutputGoal
  <2> QED
    BY <2>2, <2>4
<1> QED
  BY <1>1, <1>2, OutputInvKept, OneSession, PTL DEF Spec

(* The models end up equal to the server, whatever changed while they were   *)
(* being filled and after any number of lost connections, when streams have  *)
(* distinct indexes (the list and changed callbacks, onDeviceAdded and its   *)
(* siblings, setAvailable).                                                  *)
THEOREM ModelsAreServer == ASSUME DistinctStreams PROVE Spec => []ModelsConverge
<1> DEFINE RowInv == OutputInv /\ RowsInv
<1>1. Init => RowInv
  BY DEF Init, OutputInv, RowsInv
<1>2. SessionInv /\ RowInv /\ [Next]_vars => RowInv'
  BY OutputInvKept, RowsKept, GoneKept DEF OutputInv, RowsInv
<1>3. SessionInv /\ RowInv => ModelsConverge
  <2> SUFFICES ASSUME SessionInv, RowInv, Settled
               PROVE  /\ Mirrored(Streams \cup Alive(world, Devices \ Monitors))
                      /\ losses = 0 => Mirrored(Objects \ Monitors)
    BY DEF ModelsConverge
  <2>1. default \subseteq Objects /\ \A o \in default : world[o] # "gone"
    BY DefaultsAre, KindsAre DEF SessionInv, Types
  <2>2. ASSUME NEW o \in Objects \ Monitors, world[o] # "gone" PROVE shown[o] = Row(o)
    <3>1. Ends(<<>>, <<>>, shown[o], RowGoal(o))
      BY <2>2, SettledReread DEF RowsInv, RowsCurrent, Settled
    <3> QED
      BY <3>1, SettledEnds DEF RowGoal
  <2>3. ASSUME NEW o \in Objects, world[o] = "gone", o \in Streams \/ losses = 0
        PROVE  shown[o] = Row(o)
    <3>1. Ends(<<>>, <<>>, shown[o], GoneGoal(o))
      BY <2>3 DEF RowsInv, GoneCurrent, Settled
    <3>2. shown[o] = Absent
      BY <3>1, SettledEnds DEF GoneGoal
    <3>3. (o \in default) = FALSE
      BY <2>1, <2>3
    <3> QED
      BY <2>3, <3>2, <3>3 DEF Row, Absent
  <2>4. Streams \cap Monitors = {}
    BY KindsAre, ObjectsAssumption
  <2> QED
    BY <2>2, <2>3, <2>4, KindsAre DEF Mirrored, Row, Alive
<1> QED
  BY <1>1, <1>2, <1>3, OneSession, PTL DEF Spec

-------------------------------------------------------------------------------
(* PulseAudioBackend: the context, its timer and the level meter. *)

QueuedCalls == {"ready", "lost", "silence", "level", "retry"}

TypeOK ==
    /\ started \in BOOLEAN /\ mainloop \in {"none", "created", "running"}
    /\ context \in Connection \cup {"none"}
    /\ timer \in BOOLEAN /\ ahead \in Nat /\ attempt \in 0..kMaxReconnectAttempts
    /\ health \in {"Connected", "Reconnecting", "Failed"}
    /\ requested \in BOOLEAN /\ retries \in 0..kMaximumLevelStreamRetries
    /\ stream \in {"none", "live", "failed"}
    /\ queued \in Seq(QueuedCalls)
    /\ service_available \in BOOLEAN /\ users \in 0..MaxUsers /\ level \in {0, 1}
    /\ stops \in 0..MaxStops /\ connects \in Nat

(* A context needs a mainloop that runs, and a stream a context and a request. *)
ConnectionsSound ==
    /\ mainloop # "none" => started
    /\ context # "none" => mainloop = "running"
    /\ MicrophoneOnlyOnRequest

(* What an attempt is paid with: one for each in "attempt" and each stop(),  *)
(* and one for the first start(); a running timer and a client that is not   *)
(* started each hold one back.                                               *)
Unspent == (IF timer THEN 1 ELSE 0) + (IF started THEN 0 ELSE 1)
Paid == connects + Unspent <= attempt + stops + 1

(* The level "l" and the calls "q" still queued leave the meter at zero.     *)
SettlesTo(q, l) ==
    /\ l # 0 => \E j \in 1..Len(q) : q[j] = "silence"
    /\ \A i \in 1..Len(q) : q[i] = "level" => \E j \in (i + 1)..Len(q) : q[j] = "silence"

Meter ==
    FirstLife =>
      /\ users = 0 => SettlesTo(queued, level)
      /\ mainloop = "none" => queued = <<>> /\ level = 0
      /\ requested => users > 0

IInv == TypeOK /\ ConnectionsSound /\ Paid /\ Meter

-----------------------------------------------------------------------------
(* The queue: a call that comes last disturbs nothing unless it is a level,   *)
(* and one that is taken has its say.                                         *)

LEMMA SettlesAppended ==
  ASSUME NEW q \in Seq(QueuedCalls), NEW l, NEW call \in QueuedCalls \ {"level"}, SettlesTo(q, l)
  PROVE  SettlesTo(Append(q, call), l)
<1> DEFINE r == Append(q, call)
<1>1. Len(r) = Len(q) + 1 /\ \A i \in 1..Len(q) : r[i] = q[i]
  OBVIOUS
<1>2. r[Len(q) + 1] = call /\ Len(q) \in Nat
  OBVIOUS
<1> HIDE DEF r
<1>3. l # 0 => \E j \in 1..Len(r) : r[j] = "silence"
  BY <1>1, <1>2 DEF SettlesTo
<1>4. ASSUME NEW i \in 1..Len(r), r[i] = "level"
      PROVE  \E j \in (i + 1)..Len(r) : r[j] = "silence"
  <2>1. i \in 1..Len(q)
    BY <1>1, <1>2, <1>4
  <2>2. PICK j \in (i + 1)..Len(q) : q[j] = "silence"
    BY <1>1, <1>4, <2>1 DEF SettlesTo
  <2> QED
    BY <1>1, <1>2, <2>1, <2>2
<1> QED
  BY <1>3, <1>4 DEF SettlesTo, r

(* After silence, whatever came before it.                                    *)
LEMMA SettlesSilenced ==
  ASSUME NEW q \in Seq(QueuedCalls), NEW l
  PROVE  SettlesTo(Append(q, "silence"), l)
<1> DEFINE r == Append(q, "silence")
<1>1. /\ Len(r) = Len(q) + 1 /\ Len(q) \in Nat
      /\ r[Len(r)] = "silence"
  OBVIOUS
<1> HIDE DEF r
<1>2. ASSUME NEW i \in 1..Len(r), r[i] = "level"
      PROVE  Len(r) \in (i + 1)..Len(r)
  BY <1>1, <1>2
<1> QED
  BY <1>1, <1>2 DEF SettlesTo, r

LEMMA SettlesTaken ==
  ASSUME NEW q \in Seq(QueuedCalls), q # <<>>, NEW l, SettlesTo(q, l), NEW k,
         k = IF Head(q) = "level" THEN 1 ELSE IF Head(q) = "silence" THEN 0 ELSE l
  PROVE  SettlesTo(Tail(q), k)
<1> DEFINE r == Tail(q)
<1>1. /\ Len(q) \in Nat \ {0} /\ Len(r) = Len(q) - 1
      /\ Head(q) = q[1] /\ \A i \in 1..Len(r) : r[i] = q[i + 1]
  OBVIOUS
<1> HIDE DEF r
<1>2. ASSUME NEW i \in 1..Len(q), NEW j \in (i + 1)..Len(q), q[j] = "silence"
      PROVE  \E n \in i..Len(r) : r[n] = "silence"
  <2>1. j - 1 \in i..Len(r) /\ j - 1 \in 1..Len(r) /\ (j - 1) + 1 = j
    BY <1>1
  <2> QED
    BY <1>1, <1>2, <2>1
<1>3. k # 0 => \E n \in 1..Len(r) : r[n] = "silence"
  <2> SUFFICES ASSUME k # 0 PROVE \E n \in 1..Len(r) : r[n] = "silence"
    OBVIOUS
  <2>1. CASE q[1] = "level"
    <3>1. PICK j \in (1 + 1)..Len(q) : q[j] = "silence"
      BY <1>1, <2>1 DEF SettlesTo
    <3> QED
      BY <1>1, <1>2, <3>1
  <2>2. CASE q[1] # "level"
    <3>1. l # 0 /\ q[1] # "silence"
      BY <1>1, <2>2
    <3>2. PICK j \in 1..Len(q) : q[j] = "silence"
      BY <3>1 DEF SettlesTo
    <3>3. j \in (1 + 1)..Len(q)
      BY <1>1, <3>1, <3>2
    <3> QED
      BY <1>1, <1>2, <3>2, <3>3
  <2> QED
    BY <2>1, <2>2
<1>4. ASSUME NEW i \in 1..Len(r), r[i] = "level"
      PROVE  \E n \in (i + 1)..Len(r) : r[n] = "silence"
  <2>1. i + 1 \in 1..Len(q) /\ q[i + 1] = "level"
    BY <1>1, <1>4
  <2>2. PICK j \in ((i + 1) + 1)..Len(q) : q[j] = "silence"
    BY <2>1 DEF SettlesTo
  <2> QED
    BY <1>2, <2>1, <2>2
<1> QED
  BY <1>3, <1>4 DEF SettlesTo, r

-----------------------------------------------------------------------------
(* The types.                                                                 *)

(* A loss starts the timer and counts an attempt, or ends the reconnecting.   *)
LEMMA Losing ==
  ASSUME TypeOK, onContextLost
  PROVE  \/ /\ timer' = FALSE /\ ahead' = 0 /\ attempt' = attempt
            /\ health' = "Failed"
         \/ /\ timer' = TRUE /\ ahead' = Len(queued') /\ health' = "Reconnecting"
            /\ attempt < kMaxReconnectAttempts /\ attempt' = attempt + 1
<1>1. attempt >= kMaxReconnectAttempts \/ attempt < kMaxReconnectAttempts
  BY BoundsAssumption DEF TypeOK
<1> QED
  BY <1>1 DEF onContextLost, scheduleReconnect, Start, Stop

LEMMA LossTypes ==
  ASSUME TypeOK, onContextLost, queued' \in Seq(QueuedCalls)
  PROVE  /\ timer' \in BOOLEAN /\ ahead' \in Nat /\ attempt' \in 0..kMaxReconnectAttempts
         /\ health' \in {"Connected", "Reconnecting", "Failed"}
<1>1. Len(queued') \in Nat
  OBVIOUS
<1>2. /\ attempt \in 0..kMaxReconnectAttempts
      /\ attempt < kMaxReconnectAttempts => attempt + 1 \in 0..kMaxReconnectAttempts
  BY BoundsAssumption DEF TypeOK
<1>3. attempt' \in 0..kMaxReconnectAttempts
  BY <1>2, Losing
<1>4. timer' \in BOOLEAN
  BY Losing, Zenon
<1>5. ahead' = 0 \/ ahead' = Len(queued')
  BY Losing, Zenon
<1>6. health' \in {"Connected", "Reconnecting", "Failed"}
  BY Losing
<1> QED
  BY <1>3, <1>4, <1>5, <1>6

LEMMA ConnectTypes ==
  ASSUME TypeOK, NEW outcome \in Outcomes, connectNewContext(outcome)
  PROVE  /\ context' \in Connection \cup {"none"} /\ queued' \in Seq(QueuedCalls) /\ connects' \in Nat
         /\ connects' = connects + 1
         /\ queued' = queued \/ queued' = Append(queued, "lost")
BY DEF TypeOK, connectNewContext, Outcomes, Connection, QueuedCalls

LEMMA TakenTypes ==
  ASSUME TypeOK, queued # <<>>
  PROVE  Tail(queued) \in Seq(QueuedCalls) /\ Overtaken \in Nat
BY DEF TypeOK, Overtaken

LEMMA PulseTypesKept == TypeOK /\ [PulseNext]_pulseVars => TypeOK'
<1> SUFFICES ASSUME TypeOK, [PulseNext]_pulseVars PROVE TypeOK'
  OBVIOUS
<1>1. CASE start
  <2>1. CASE /\ mainloop' \in {"none", "created"}
             /\ UNCHANGED <<context, reconnect, queued, connects>>
    BY <1>1, <2>1 DEF start, TypeOK, reconnect, monitor, client
  <2>2. ASSUME mainloop' = "running", NEW outcome \in Outcomes, connectNewContext(outcome),
               IF outcome = "connecting" \/ timer THEN UNCHANGED reconnect ELSE onContextLost
        PROVE  TypeOK'
    <3>1. /\ timer' \in BOOLEAN /\ ahead' \in Nat /\ attempt' \in 0..kMaxReconnectAttempts
          /\ health' \in {"Connected", "Reconnecting", "Failed"}
      BY <2>2, LossTypes, ConnectTypes DEF TypeOK, reconnect
    <3> QED
      BY <1>1, <2>2, <3>1, ConnectTypes DEF start, TypeOK, monitor, client
  <2> QED
    BY <1>1, <2>1, <2>2 DEF start
<1>2. CASE stop
  <2>1. /\ started' \in BOOLEAN /\ mainloop' \in {"none", "created", "running"}
        /\ context' \in Connection \cup {"none"} /\ stream' \in {"none", "live", "failed"}
    BY <1>2 DEF stop, stopLevelStream, TypeOK, session
  <2>2. /\ timer' = FALSE /\ ahead' = 0 /\ requested' = FALSE /\ retries' = 0
        /\ stops' \in 0..MaxStops
        /\ UNCHANGED <<attempt, health, queued, service_available, users, level, connects>>
    BY <1>2, BoundsAssumption DEF stop, Stop, TypeOK, client
  <2>3. retries' \in 0..kMaximumLevelStreamRetries
    BY <2>2, BoundsAssumption
  <2> QED
    BY <2>1, <2>2, <2>3 DEF TypeOK
<1>3. CASE attemptReconnect
  <2>1. PICK outcome \in Outcomes :
          /\ connectNewContext(outcome)
          /\ IF outcome = "connecting" THEN Stop /\ UNCHANGED <<attempt, health>>
             ELSE onContextLost
    BY <1>3 DEF attemptReconnect
  <2>2. /\ timer' \in BOOLEAN /\ ahead' \in Nat /\ attempt' \in 0..kMaxReconnectAttempts
        /\ health' \in {"Connected", "Reconnecting", "Failed"}
    <3>1. CASE outcome = "connecting"
      <4>1. timer' = FALSE /\ ahead' = 0 /\ UNCHANGED <<attempt, health>>
        BY <2>1, <3>1 DEF Stop
      <4> QED
        BY <4>1 DEF TypeOK
    <3>2. CASE outcome # "connecting"
      BY <2>1, <3>2, LossTypes, ConnectTypes
    <3> QED
      BY <3>1, <3>2
  <2> QED
    BY <1>3, <2>1, <2>2, ConnectTypes
       DEF attemptReconnect, teardownContext, stopLevelStream, TypeOK, client
<1>4. CASE startInputLevelMonitoring
  <2>1. queued' \in Seq(QueuedCalls)
    BY <1>4 DEF startInputLevelMonitoring, RetryUnless, TypeOK, QueuedCalls
  <2>2. users' \in 0..MaxUsers
    BY <1>4, BoundsAssumption DEF startInputLevelMonitoring, TypeOK
  <2>3. requested' \in BOOLEAN /\ retries' = retries /\ stream' \in {"none", "live", "failed"}
    BY <1>4 DEF startInputLevelMonitoring, startLevelStream, TypeOK, monitor
  <2> QED
    BY <1>4, <2>1, <2>2, <2>3 DEF startInputLevelMonitoring, TypeOK, session, reconnect
<1>5. CASE stopInputLevelMonitoring
  <2>1. queued' \in Seq(QueuedCalls)
    BY <1>5 DEF stopInputLevelMonitoring, TypeOK, QueuedCalls
  <2>2. users' \in 0..MaxUsers
    BY <1>5, BoundsAssumption DEF stopInputLevelMonitoring, TypeOK
  <2>3. /\ requested' \in BOOLEAN /\ retries' \in 0..kMaximumLevelStreamRetries
        /\ stream' \in {"none", "live", "failed"}
    <3>1. CASE users = 1
      <4>1. requested' = FALSE /\ retries' = 0 /\ stream' \in {stream, "none"}
        BY <1>5, <3>1 DEF stopInputLevelMonitoring, stopLevelStream
      <4>2. retries' \in 0..kMaximumLevelStreamRetries
        BY <4>1, BoundsAssumption
      <4>3. stream' \in {"none", "live", "failed"}
        BY <4>1 DEF TypeOK
      <4> QED
        BY <4>1, <4>2, <4>3, Zenon
    <3>2. CASE users # 1
      BY <1>5, <3>2 DEF stopInputLevelMonitoring, TypeOK, monitor
    <3> QED
      BY <3>1, <3>2
  <2> QED
    BY <1>5, <2>1, <2>2, <2>3 DEF stopInputLevelMonitoring, TypeOK, session, reconnect
<1>6. CASE HandleReady
  <2>1. queued # <<>> /\ queued' = Tail(queued)
    BY <1>6 DEF HandleReady, Queued
  <2>2. /\ service_available' = TRUE /\ attempt' = 0 /\ health' = "Connected" /\ timer' = FALSE
        /\ ahead' = 0 /\ connects' = 0
        /\ UNCHANGED <<started, mainloop, context, requested, retries, stream, users, level, stops>>
    BY <1>6 DEF HandleReady, onReconnectSucceeded, Stop, session, monitor
  <2>3. attempt' \in 0..kMaxReconnectAttempts
    BY <2>2, BoundsAssumption
  <2> QED
    BY <2>1, <2>2, <2>3, TakenTypes DEF TypeOK
<1>7. CASE HandleLost
  <2>1. queued # <<>> /\ queued' = Tail(queued)
    BY <1>7 DEF HandleLost, Queued
  <2>2. /\ timer' \in BOOLEAN /\ ahead' \in Nat /\ attempt' \in 0..kMaxReconnectAttempts
        /\ health' \in {"Connected", "Reconnecting", "Failed"}
    BY <1>7, <2>1, TakenTypes, LossTypes DEF HandleLost, TypeOK
  <2> QED
    BY <1>7, <2>1, <2>2, TakenTypes DEF HandleLost, TypeOK, session, monitor
<1>8. CASE HandleLevel
  <2>1. queued # <<>> /\ queued' = Tail(queued)
    BY <1>8 DEF HandleLevel, Queued
  <2> QED
    BY <1>8, <2>1, TakenTypes DEF HandleLevel, TypeOK, session, monitor
<1>9. CASE HandleRetry
  <2>1. queued # <<>>
    BY <1>9 DEF HandleRetry, Queued
  <2>2. queued' = Tail(queued) \/ queued' = Append(Tail(queued), "retry")
    BY <1>9 DEF HandleRetry, retryInputLevelMonitor, RetryUnless
  <2>3. queued' \in Seq(QueuedCalls)
    BY <2>1, <2>2, TakenTypes DEF QueuedCalls
  <2>4. /\ retries' \in 0..kMaximumLevelStreamRetries /\ stream' \in {"none", "live", "failed"}
        /\ requested' = requested
    BY <1>9, BoundsAssumption
       DEF HandleRetry, retryInputLevelMonitor, startLevelStream, TypeOK, monitor
  <2> QED
    BY <1>9, <2>1, <2>3, <2>4, TakenTypes DEF HandleRetry, TypeOK, session, client
<1>10. CASE MainloopCallback
  <2>1. queued' \in Seq(QueuedCalls)
    <3>1. \/ queued' = queued \/ \E call \in QueuedCalls : queued' = Append(queued, call)
          \/ queued' = queued \o <<"lost", "silence", "retry">>
          \/ queued' = queued \o <<"silence", "retry">>
      BY <1>10 DEF MainloopCallback, onContextReady, contextFailed, levelStreamFailed,
         levelStreamReadCallback, defaultSourceChanged, QueuedCalls
    <3>2. <<"lost", "silence", "retry">> \in Seq(QueuedCalls) /\ <<"silence", "retry">> \in Seq(QueuedCalls)
      BY DEF QueuedCalls
    <3>3. \A q \in Seq(QueuedCalls) : queued \o q \in Seq(QueuedCalls)
      BY DEF TypeOK
    <3>4. \A call \in QueuedCalls : Append(queued, call) \in Seq(QueuedCalls)
      BY DEF TypeOK
    <3> QED
      BY <3>1, <3>2, <3>3, <3>4 DEF TypeOK
  <2>2. context' \in Connection \cup {"none"} /\ stream' \in {"none", "live", "failed"}
    BY <1>10 DEF MainloopCallback, onContextReady, contextFailed, levelStreamFailed,
       levelStreamReadCallback, defaultSourceChanged, startLevelStream, session, monitor, TypeOK,
       Connection
  <2>3. UNCHANGED <<started, mainloop, reconnect, requested, retries, client, stops, connects>>
    BY <1>10 DEF MainloopCallback, onContextReady, contextFailed, levelStreamFailed,
       levelStreamReadCallback, defaultSourceChanged, session, monitor
  <2> QED
    BY <2>1, <2>2, <2>3 DEF TypeOK, reconnect, client
<1>11. CASE UNCHANGED pulseVars
  BY <1>11 DEF TypeOK, pulseVars, session, reconnect, monitor, client
<1> QED
  BY <1>1, <1>2, <1>3, <1>4, <1>5, <1>6, <1>7, <1>8, <1>9, <1>10, <1>11 DEF PulseNext, HandleQueued

-----------------------------------------------------------------------------
(* The microphone.                                                            *)

LEMMA ConnectionsKept == TypeOK /\ ConnectionsSound /\ [PulseNext]_pulseVars => ConnectionsSound'
<1> USE DEF ConnectionsSound, MicrophoneOnlyOnRequest
<1> SUFFICES ASSUME TypeOK, ConnectionsSound, [PulseNext]_pulseVars PROVE ConnectionsSound'
  OBVIOUS
<1>1. CASE start
  <2>1. mainloop = "none" /\ context = "none" /\ stream = "none" /\ started' = TRUE
    BY <1>1 DEF start
  <2>2. stream' = "none" /\ (context' # "none" => mainloop' = "running")
    BY <1>1, <2>1 DEF start, monitor
  <2> QED
    BY <2>1, <2>2
<1>2. CASE stop
  BY <1>2 DEF stop, stopLevelStream, session
<1>3. CASE attemptReconnect
  BY <1>3 DEF attemptReconnect, teardownContext, stopLevelStream
<1>4. CASE startInputLevelMonitoring
  BY <1>4 DEF startInputLevelMonitoring, startLevelStream, session, monitor
<1>5. CASE stopInputLevelMonitoring
  BY <1>5 DEF stopInputLevelMonitoring, stopLevelStream, session, monitor
<1>6. CASE HandleReady \/ HandleLost \/ HandleLevel
  BY <1>6 DEF HandleReady, HandleLost, HandleLevel, session, monitor
<1>7. CASE HandleRetry
  BY <1>7 DEF HandleRetry, retryInputLevelMonitor, startLevelStream, session, monitor
<1>8. CASE onContextReady \/ contextFailed \/ levelStreamFailed \/ levelStreamReadCallback
  BY <1>8 DEF onContextReady, contextFailed, levelStreamFailed, levelStreamReadCallback, session,
     monitor
<1>9. CASE defaultSourceChanged
  BY <1>9 DEF defaultSourceChanged, startLevelStream, session
<1>10. CASE UNCHANGED pulseVars
  BY <1>10 DEF pulseVars, session, monitor
<1> QED
  BY <1>1, <1>2, <1>3, <1>4, <1>5, <1>6, <1>7, <1>8, <1>9, <1>10 DEF PulseNext, HandleQueued, MainloopCallback

-----------------------------------------------------------------------------
(* Connection attempts.                                                       *)

LEMMA PaidKept == TypeOK /\ ConnectionsSound /\ Paid /\ [PulseNext]_pulseVars => Paid'
<1> SUFFICES ASSUME TypeOK, ConnectionsSound, Paid, [PulseNext]_pulseVars PROVE Paid'
  OBVIOUS
<1>a. attempt \in Nat /\ stops \in Nat /\ connects \in Nat
  BY BoundsAssumption DEF TypeOK
(* A loss with no timer running pays for the timer it starts. *)
<1>b. ASSUME onContextLost
      PROVE  attempt' - (IF timer' THEN 1 ELSE 0) = attempt /\ attempt' \in Nat
  <2>1. \/ ~timer' /\ attempt' = attempt
        \/ timer' /\ attempt' = attempt + 1
    BY <1>b, Losing, Zenon
  <2> QED
    BY <1>a, <2>1
<1>1. CASE start
  <2>1. ~started /\ started' /\ stops' = stops
    BY <1>1 DEF start
  <2>2. CASE UNCHANGED <<reconnect, connects>>
    <3>1. UNCHANGED <<timer, attempt, connects>>
      BY <2>2 DEF reconnect
    <3> QED
      BY <1>a, <2>1, <3>1 DEF Paid, Unspent
  <2>3. CASE timer /\ connects' = connects + 1 /\ UNCHANGED reconnect
    <3>1. UNCHANGED <<timer, attempt>>
      BY <2>3 DEF reconnect
    <3> QED
      BY <1>a, <2>1, <2>3, <3>1 DEF Paid, Unspent
  <2>4. CASE ~timer /\ connects' = connects + 1 /\ UNCHANGED reconnect
    <3>1. UNCHANGED <<timer, attempt>>
      BY <2>4 DEF reconnect
    <3> QED
      BY <1>a, <2>1, <2>4, <3>1 DEF Paid, Unspent
  <2>5. CASE ~timer /\ connects' = connects + 1 /\ onContextLost
    BY <1>a, <1>b, <2>1, <2>5 DEF Paid, Unspent
  <2> QED
    BY <1>1, <2>2, <2>3, <2>4, <2>5 DEF start, connectNewContext
<1>2. CASE stop
  <2>1. ~timer' /\ stops' = stops + 1 /\ UNCHANGED <<attempt, connects>>
    BY <1>2 DEF stop, Stop
  <2> QED
    BY <1>a, <2>1 DEF Paid, Unspent
<1>3. CASE attemptReconnect
  <2>1. timer /\ connects' = connects + 1 /\ UNCHANGED <<started, stops>>
    BY <1>3 DEF attemptReconnect, connectNewContext
  <2>2. CASE onContextLost
    BY <1>a, <1>b, <2>1, <2>2 DEF Paid, Unspent
  <2>3. CASE Stop /\ UNCHANGED attempt
    BY <1>a, <2>1, <2>3 DEF Stop, Paid, Unspent
  <2> QED
    BY <1>3, <2>2, <2>3 DEF attemptReconnect
<1>4. CASE HandleReady
  <2>1. ~timer' /\ attempt' = 0 /\ connects' = 0 /\ UNCHANGED <<started, stops>>
    BY <1>4 DEF HandleReady, onReconnectSucceeded, Stop, session
  <2> QED
    BY <1>a, <2>1 DEF Paid, Unspent
<1>5. CASE HandleLost
  <2>1. UNCHANGED <<started, stops, connects>>
    BY <1>5 DEF HandleLost, session
  <2>2. CASE UNCHANGED <<timer, attempt>>
    BY <2>1, <2>2 DEF Paid, Unspent
  <2>3. CASE ~timer /\ onContextLost
    BY <1>a, <1>b, <2>1, <2>3 DEF Paid, Unspent
  <2> QED
    BY <1>5, <2>2, <2>3 DEF HandleLost
<1>6. CASE \/ startInputLevelMonitoring \/ stopInputLevelMonitoring \/ HandleLevel \/ HandleRetry
           \/ MainloopCallback \/ UNCHANGED pulseVars
  <2>1. UNCHANGED <<started, timer, attempt, stops, connects>>
    BY <1>6 DEF startInputLevelMonitoring, stopInputLevelMonitoring, HandleLevel, HandleRetry,
       MainloopCallback, onContextReady, contextFailed, levelStreamFailed, levelStreamReadCallback,
       defaultSourceChanged, session, reconnect, pulseVars
  <2> QED
    BY <2>1 DEF Paid, Unspent
<1> QED
  BY <1>1, <1>2, <1>3, <1>4, <1>5, <1>6 DEF PulseNext, HandleQueued

-----------------------------------------------------------------------------
(* The level meter.                                                           *)

LEMMA MeterKept == TypeOK /\ ConnectionsSound /\ Meter /\ [PulseNext]_pulseVars => Meter'
<1> SUFFICES ASSUME TypeOK, ConnectionsSound, Meter, [PulseNext]_pulseVars, FirstLife'
             PROVE  /\ users' = 0 => SettlesTo(queued', level')
                    /\ mainloop' = "none" => queued' = <<>> /\ level' = 0
                    /\ requested' => users' > 0
  BY DEF Meter
<1>a. queued \in Seq(QueuedCalls) /\ users \in Nat /\ stops \in Nat
  BY BoundsAssumption DEF TypeOK
<1>b. FirstLife
  BY <1>a DEF FirstLife, PulseNext, stop, start, attemptReconnect, startInputLevelMonitoring,
     stopInputLevelMonitoring, HandleQueued, HandleReady, HandleLost, HandleLevel, HandleRetry,
     MainloopCallback, onContextReady, contextFailed, levelStreamFailed, levelStreamReadCallback,
     defaultSourceChanged, pulseVars
<1>c. /\ users = 0 => SettlesTo(queued, level)
      /\ mainloop = "none" => queued = <<>> /\ level = 0
      /\ requested => users > 0
  BY <1>b DEF Meter
<1>d. stream # "none" => users > 0 /\ mainloop # "none"
  BY <1>c DEF ConnectionsSound, MicrophoneOnlyOnRequest
<1>e. ASSUME NEW call \in QueuedCalls \ {"level"}, queued' = Append(queued, call), level' = level,
             users = 0
      PROVE  SettlesTo(queued', level')
  BY <1>a, <1>c, <1>e, SettlesAppended
<1>1. CASE start
  <2>1. mainloop = "none" /\ UNCHANGED <<requested, users, level>>
    BY <1>1 DEF start, ConnectionsSound, monitor, client
  <2>2. CASE queued' = queued
    BY <1>c, <2>1, <2>2
  <2>3. CASE queued' = Append(queued, "lost") /\ mainloop' = "running"
    BY <1>c, <1>e, <2>1, <2>3 DEF QueuedCalls
  <2> QED
    BY <1>1, <2>2, <2>3 DEF start, connectNewContext
<1>2. CASE stop
  BY <1>2, <1>a DEF stop, FirstLife
<1>3. CASE attemptReconnect
  <2>1. /\ mainloop' = "running" /\ UNCHANGED <<requested, users, level>>
        /\ queued' = queued \/ queued' = Append(queued, "lost")
    BY <1>3 DEF attemptReconnect, connectNewContext, client
  <2> QED
    BY <1>c, <1>e, <2>1 DEF QueuedCalls
<1>4. CASE startInputLevelMonitoring
  <2>1. users' = users + 1 /\ UNCHANGED <<mainloop, level>>
    BY <1>4 DEF startInputLevelMonitoring, session
  <2>2. mainloop = "none" => queued' = queued
    BY <1>4 DEF startInputLevelMonitoring
  <2> QED
    BY <1>a, <1>c, <2>1, <2>2
<1>5. CASE stopInputLevelMonitoring
  <2>1. users > 0 /\ users' = users - 1 /\ UNCHANGED <<mainloop, level>>
    BY <1>5 DEF stopInputLevelMonitoring, session
  <2>2. CASE users = 1 /\ mainloop = "none"
    <3>1. queued' = queued /\ ~requested'
      BY <1>5, <2>2 DEF stopInputLevelMonitoring
    <3>2. SettlesTo(<<>>, 0)
      BY DEF SettlesTo
    <3> QED
      BY <1>c, <2>1, <2>2, <3>1, <3>2
  <2>3. CASE users = 1 /\ mainloop # "none"
    <3>1. queued' = Append(queued, "silence") /\ ~requested'
      BY <1>5, <2>3 DEF stopInputLevelMonitoring
    <3> QED
      BY <1>a, <2>1, <2>3, <3>1, SettlesSilenced
  <2>4. CASE users # 1
    <3>1. UNCHANGED <<queued, requested>>
      BY <1>5, <2>4 DEF stopInputLevelMonitoring, monitor
    <3> QED
      BY <1>a, <1>c, <2>1, <2>4, <3>1
  <2> QED
    BY <2>2, <2>3, <2>4
<1>6. CASE HandleReady \/ HandleLost \/ HandleLevel
  <2>1. /\ queued # <<>> /\ queued' = Tail(queued) /\ UNCHANGED <<mainloop, requested, users>>
        /\ level' = IF Head(queued) = "level" THEN 1
                    ELSE IF Head(queued) = "silence" THEN 0 ELSE level
    BY <1>6 DEF HandleReady, HandleLost, HandleLevel, Queued, session, monitor
  <2>2. users = 0 => SettlesTo(queued', level')
    BY <1>a, <1>c, <2>1, SettlesTaken
  <2> QED
    BY <1>c, <2>1, <2>2
<1>7. CASE HandleRetry
  <2>1. /\ queued # <<>> /\ Head(queued) = "retry" /\ UNCHANGED <<mainloop, users, level>>
        /\ requested' = requested
        /\ queued' = Tail(queued) \/ queued' = Append(Tail(queued), "retry")
    BY <1>7 DEF HandleRetry, Queued, retryInputLevelMonitor, RetryUnless, session, client, monitor
  <2>2. users = 0 => SettlesTo(Tail(queued), level) /\ Tail(queued) \in Seq(QueuedCalls)
    BY <1>a, <1>c, <2>1, SettlesTaken
  <2>3. users = 0 => SettlesTo(queued', level')
    BY <2>1, <2>2, SettlesAppended DEF QueuedCalls
  <2> QED
    BY <1>c, <2>1, <2>3
<1>8. CASE onContextReady
  <2>1. /\ mainloop # "none" /\ UNCHANGED <<mainloop, requested, users, level>>
        /\ queued' = Append(queued, "ready")
    BY <1>8 DEF onContextReady, ConnectionsSound, monitor, client
  <2> QED
    BY <1>c, <1>e, <2>1 DEF QueuedCalls
<1>9. CASE contextFailed
  <2>1. mainloop # "none" /\ UNCHANGED <<mainloop, requested, users, level>>
    BY <1>9 DEF contextFailed, ConnectionsSound, client
  <2>2. users = 0 => queued' = Append(queued, "lost")
    BY <1>9, <1>d, <1>a DEF contextFailed
  <2> QED
    BY <1>c, <1>e, <2>1, <2>2 DEF QueuedCalls
<1>10. CASE levelStreamFailed \/ levelStreamReadCallback
  <2>1. stream # "none" /\ UNCHANGED <<mainloop, requested, users, level>>
    BY <1>10 DEF levelStreamFailed, levelStreamReadCallback, session, monitor, client
  <2> QED
    BY <1>a, <1>c, <1>d, <2>1
<1>11. CASE defaultSourceChanged
  BY <1>11, <1>c DEF defaultSourceChanged, session, client
<1>12. CASE UNCHANGED pulseVars
  BY <1>12, <1>c DEF pulseVars, session, monitor, client
<1> QED
  BY <1>1, <1>2, <1>3, <1>4, <1>5, <1>6, <1>7, <1>8, <1>9, <1>10, <1>11, <1>12
     DEF PulseNext, HandleQueued, MainloopCallback

-----------------------------------------------------------------------------
(* However the two threads interleave, and whatever calls are queued between  *)
(* them, the invariant holds.                                                 *)
THEOREM PulseInvariant == PulseSpec => []IInv
<1>1. PulseInit => IInv
  <2> SUFFICES ASSUME PulseInit PROVE IInv
    OBVIOUS
  <2>1. TypeOK
    <3>1. /\ 0 \in 0..kMaxReconnectAttempts /\ 0 \in 0..kMaximumLevelStreamRetries
          /\ 0 \in 0..MaxUsers /\ 0 \in 0..MaxStops /\ 0 \in Nat
      BY BoundsAssumption
    <3>2. <<>> \in Seq(QueuedCalls)
      OBVIOUS
    <3> QED
      BY <3>1, <3>2 DEF PulseInit, TypeOK
  <2>2. ConnectionsSound
    BY DEF PulseInit, ConnectionsSound, MicrophoneOnlyOnRequest
  <2>3. Paid
    BY DEF PulseInit, Paid, Unspent
  <2>4. Meter
    BY DEF PulseInit, Meter, SettlesTo
  <2> QED
    BY <2>1, <2>2, <2>3, <2>4 DEF IInv
<1>2. IInv /\ [PulseNext]_pulseVars => IInv'
  BY PulseTypesKept, ConnectionsKept, PaidKept, MeterKept DEF IInv
<1> QED
  BY <1>1, <1>2, PTL DEF PulseSpec

(* Every variable of the connection and of the meter keeps to its values.     *)
THEOREM TypeCorrect == PulseSpec => []TypeOK
BY PulseInvariant, PTL DEF IInv

(* The microphone is recorded only while somebody asks for the level, and     *)
(* through a context in place (retryInputLevelMonitor(),                      *)
(* stopInputLevelMonitoring()).                                               *)
THEOREM NobodyIsRecordedUnasked == PulseSpec => []MicrophoneOnlyOnRequest
BY PulseInvariant, PTL DEF IInv, ConnectionsSound

(* One outage costs at most one connection attempt per start() and the retry  *)
(* ceiling, however its losses are announced (scheduleReconnect()).           *)
THEOREM AttemptsAreBounded == PulseSpec => []RetriesBounded
<1>1. IInv => RetriesBounded
  <2> SUFFICES ASSUME IInv PROVE connects <= kMaxReconnectAttempts + 1 + stops
    BY DEF RetriesBounded
  <2>1. /\ attempt \in Nat /\ attempt <= kMaxReconnectAttempts /\ stops \in Nat
        /\ connects \in Nat /\ Unspent \in Nat /\ kMaxReconnectAttempts \in Nat
    BY BoundsAssumption DEF IInv, TypeOK, Unspent
  <2>2. connects + Unspent <= attempt + stops + 1
    BY DEF IInv, Paid
  <2> QED
    BY <2>1, <2>2
<1> QED
  BY <1>1, PulseInvariant, PTL

(* A level queued by the stream just before it stopped does not stick: when   *)
(* nobody uses the meter and nothing is queued it shows zero.                 *)
THEOREM MeterReturnsToZero == PulseSpec => []LevelSettles
<1>1. IInv => LevelSettles
  BY DEF IInv, Meter, LevelSettles, SettlesTo
<1> QED
  BY <1>1, PulseInvariant, PTL
===============================================================================
