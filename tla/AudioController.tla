--------------------------- MODULE AudioController ---------------------------
(***************************************************************************)
(* How src/audio/AudioController.cpp and its models follow the sound       *)
(* server through src/audio/PulseAudioBackend.cpp.                         *)
(*                                                                         *)
(* The server answers requests ("up") and reports changes in one stream    *)
(* ("down").  The mainloop thread takes that stream: a change report makes *)
(* it ask for the object, an answer is converted with the default names    *)
(* known at that moment and queued for the GUI thread ("posted"), which    *)
(* applies it to the models.  A server is not faster than its clients: any *)
(* number of changes may happen while a question is on its way.            *)
(*                                                                         *)
(* A device or stream is <<kind, index>>; its volume stands for all of its *)
(* attributes, and being one of the default devices is known by name.      *)
(* When the connection is lost and regained is PulseAudioBackend's matter. *)
(***************************************************************************)
EXTENDS Naturals, Sequences

CONSTANTS
    Objects,       \* the <<kind, index>> that may exist
    Monitors,      \* the sources among them that are the loopback of a sink
    MaxEvents      \* bound: changes on the server, lost connections and
                   \* volume commands

Kinds == <<"sink", "source", "playback", "recording">>
Volumes == {"low", "high"}
Of(kind) == {o \in Objects : o[1] = kind}
Devices == Of("sink") \cup Of("source")
Streams == Objects \ Devices

ASSUME ObjectsAssumption ==
    /\ Objects \subseteq {Kinds[k] : k \in 1..4} \X Nat
    /\ Monitors \subseteq Of("source")
    /\ MaxEvents \in Nat

VARIABLES
    world,          \* the server: each object's volume, or "gone"
    default,        \* the server: its default sink and source
    connected,      \* the context is ready
    subscribed,     \* the server has seen the subscription
    up, down,       \* the connection, each way
    names,          \* default_sink_name and default_source_name
    posted,         \* calls queued for the GUI thread
    shown,          \* the four models: each object's entry
    default_output, \* default_output_id_, as a set of at most one sink
    volume,         \* volume_
    available,      \* available_
    changes, losses, commands

server == <<world, default>>
wire == <<connected, subscribed, up, down>>
view == <<shown, default_output, volume, available>>
budget == <<changes, losses, commands>>
Budget == changes + losses + commands < MaxEvents
vars == <<server, wire, names, posted, view, budget>>

Absent == [volume |-> "gone", default |-> FALSE]
Alive(w, objects) == {o \in objects : w[o] # "gone"}
\* A server has a default device of each kind it has devices of; the default
\* source may be a monitor.
Defaults(w) ==
    {d \in SUBSET Alive(w, Devices) : \A kind \in {"sink", "source"} :
        Alive(w, Of(kind)) # {} => \E o \in d : d \cap Of(kind) = {o}}

Init ==
    /\ world \in [Objects -> {"gone", "low"}]
    /\ default \in Defaults(world)
    /\ connected = FALSE /\ subscribed = FALSE /\ up = <<>> /\ down = <<>>
    /\ names = {} /\ posted = <<>>
    /\ shown = [o \in Objects |-> Absent]
    /\ default_output = {} /\ volume = "low" /\ available = FALSE
    /\ changes = 0 /\ losses = 0 /\ commands = 0

Request(op, items) == [op |-> op, items |-> items]
Message(type, items) == [type |-> type, items |-> items]
Call(name, items) == [name |-> name, items |-> items]

------------------------------------------------------------------------------
(* The sound server (external).                                             *)

(* One object appears, changes or goes, and the defaults follow; every      *)
(* subscriber hears of both, in either order.                               *)
Change(o) ==
    /\ Budget
    /\ changes' = changes + 1
    /\ \E v \in Volumes \cup {"gone"} :
          /\ v # world[o]
          /\ world' = [world EXCEPT ![o] = v]
    /\ default' \in Defaults(world')
    /\ LET object == Message(IF world'[o] = "gone" THEN "removed" ELSE "changed", {o})
           defaults == Message("serverChanged", {})
       IN IF ~subscribed THEN UNCHANGED down
          ELSE IF default' = default THEN down' = Append(down, object)
          ELSE down' \in {down \o <<object, defaults>>, down \o <<defaults, object>>}
    /\ UNCHANGED <<connected, subscribed, up, names, posted, view, losses, commands>>

Answer(request) ==
    LET present == {o \in request.items : world[o] # "gone"} IN
    CASE request.op = "server" -> <<Message("server", default)>>
      [] request.op = "info" -> <<Message("info", {<<o, world[o]>> : o \in present})>>
      [] OTHER -> <<>>

\* A subscriber hears of what another request has changed.
Announce(changed, message) ==
    down' = IF changed /\ subscribed THEN Append(down, message) ELSE down

\* A command about an object that is gone does nothing.
Obey(request) ==
    LET o == request.items[1] v == request.items[2] IN
    IF o \notin Alive(world, Objects) THEN UNCHANGED <<server, down>>
    ELSE CASE request.op = "channels" ->
                /\ down' = Append(down, Message("channels", request.items))
                /\ UNCHANGED server
           [] request.op = "set" ->
                /\ world' = [world EXCEPT ![o] = v]
                /\ Announce(v # world[o], Message("changed", {o}))
                /\ UNCHANGED default
           [] request.op = "setDefault" ->
                /\ default' = (default \ Of(o[1])) \cup {o}
                /\ Announce(o \notin default, Message("serverChanged", {}))
                /\ UNCHANGED world

(* The server takes the oldest request. *)
Serve ==
    /\ up # <<>>
    /\ up' = Tail(up)
    /\ LET request == Head(up) IN
       IF request.op \in {"channels", "set", "setDefault"}
       THEN Obey(request) /\ UNCHANGED subscribed
       ELSE /\ subscribed' = (subscribed \/ request.op = "subscribe")
            /\ down' = down \o Answer(request)
            /\ UNCHANGED server
    /\ UNCHANGED <<connected, names, posted, view, budget>>

------------------------------------------------------------------------------
(* The mainloop thread.                                                     *)

\* Mutant: the server is asked before the subscription is made.
contextReady_queriesFirst ==
    /\ ~connected
    /\ \A k \in DOMAIN posted : posted[k].name # "lost"
    /\ connected' = TRUE
    /\ up' = <<Request("server", {}), Request("subscribe", {})>>
    /\ posted' = Append(posted, Call("ready", {}))
    /\ UNCHANGED <<server, subscribed, down, names, view, budget>>

\* The reconnect timer starts when the GUI thread has handled the loss.
contextReady ==
    /\ ~connected
    /\ \A k \in DOMAIN posted : posted[k].name # "lost"
    /\ connected' = TRUE
    /\ up' = <<Request("subscribe", {}), Request("server", {})>>
    /\ posted' = Append(posted, Call("ready", {}))
    /\ UNCHANGED <<server, subscribed, down, names, view, budget>>

contextLost ==
    /\ connected /\ Budget
    /\ losses' = losses + 1
    /\ connected' = FALSE /\ subscribed' = FALSE /\ up' = <<>> /\ down' = <<>>
    /\ posted' = Append(posted, Call("lost", {}))
    /\ UNCHANGED <<server, names, view, changes, commands>>

Received(type) == down # <<>> /\ Head(down).type = type

\* Mutant: a change of the server's defaults is not asked about.
subscribeCallback_serverIgnored ==
    /\ Received("changed") \/ Received("removed") \/ Received("serverChanged")
    /\ down' = Tail(down)
    /\ LET message == Head(down) IN
       IF message.type = "changed"
       THEN up' = Append(up, Request("info", message.items)) /\ UNCHANGED posted
       ELSE IF message.type = "removed"
       THEN posted' = Append(posted, Call("removed", message.items)) /\ UNCHANGED up
       ELSE UNCHANGED <<up, posted>>
    /\ UNCHANGED <<server, connected, subscribed, names, view, budget>>

\* handleSinkEvent and its three siblings: news and changes are asked about,
\* removals are passed on.
subscribeCallback ==
    /\ Received("changed") \/ Received("removed") \/ Received("serverChanged")
    /\ down' = Tail(down)
    /\ LET message == Head(down) IN
       IF message.type = "changed"
       THEN up' = Append(up, Request("info", message.items)) /\ UNCHANGED posted
       ELSE IF message.type = "removed"
       THEN posted' = Append(posted, Call("removed", message.items)) /\ UNCHANGED up
       ELSE up' = Append(up, Request("server", {})) /\ UNCHANGED posted
    /\ UNCHANGED <<server, connected, subscribed, names, view, budget>>

\* A change of the defaults re-reads everything, so each device is converted
\* again under the new names.
serverInfoCallback ==
    /\ Received("server")
    /\ down' = Tail(down)
    /\ names' = Head(down).items
    /\ up' = up \o [k \in 1..4 |-> Request("info", Of(Kinds[k]))]
    /\ UNCHANGED <<server, connected, subscribed, posted, view, budget>>

\* sinkToDevice and sourceToDevice: a device is the default one when it has
\* the default name known now.
toDevice(o, v) == [volume |-> v, default |-> o \in names]

\* sinkInputToStream and sourceOutputToStream.
toStream(v) == [volume |-> v, default |-> FALSE]

(* The list and changed callbacks of all four kinds: monitors are skipped,  *)
(* the rest is converted and a deviceAdded, streamChanged, ... queued per   *)
(* object (one call here: the GUI thread applies them without anything in   *)
(* between).                                                                *)
infoCallback ==
    /\ Received("info")
    /\ down' = Tail(down)
    /\ LET entry(o, v) == IF o \in Streams THEN toStream(v) ELSE toDevice(o, v)
           kept == {item \in Head(down).items : item[1] \notin Monitors}
           items == {<<item[1], entry(item[1], item[2])>> : item \in kept}
       IN posted' = IF items = {} THEN posted ELSE Append(posted, Call("apply", items))
    /\ UNCHANGED <<server, connected, subscribed, up, names, view, budget>>

\* setSinkVolumeCallback, setSourceVolumeCallback, setSinkInputVolumeCallback:
\* the object is there, with so many channels; the volume goes out.
setVolumeCallback ==
    /\ Received("channels")
    /\ down' = Tail(down)
    /\ up' = Append(up, Request("set", Head(down).items))
    /\ UNCHANGED <<server, connected, subscribed, names, posted, view, budget>>

Callback ==
    \/ contextReady
    \/ contextLost
    \/ subscribeCallback
    \/ serverInfoCallback
    \/ infoCallback
    \/ setVolumeCallback

------------------------------------------------------------------------------
(* The GUI thread.                                                          *)

Command(request) ==
    /\ Budget
    /\ connected
    /\ commands' = commands + 1
    /\ up' = Append(up, request)
    /\ UNCHANGED <<server, connected, subscribed, down, names, posted, view, changes, losses>>

\* The volume goes to the output that is controlled.
setVolume == \E o \in default_output, v \in Volumes : Command(Request("channels", <<o, v>>))

\* setDeviceVolume and setInputDeviceVolume of a device that is listed: the
\* object is asked for first, for its channels.
setDeviceVolume ==
    \E o \in Devices, v \in Volumes :
        /\ shown[o] # Absent
        /\ Command(Request("channels", <<o, v>>))

\* Whatever a stream is listed as, its index is sent as that of a playback
\* stream: setStreamVolume, setStreamMuted, moveStreamToDevice.
sinkInput(stream) == <<"playback", stream[2]>>

setStreamVolume ==
    \E o \in Streams, v \in Volumes :
        /\ shown[o] # Absent
        /\ Command(Request("channels", <<sinkInput(o), v>>))

\* Muting a device, muting or moving a stream: one request that sets it.
setDeviceMuted ==
    \E o \in Devices, v \in Volumes :
        /\ shown[o] # Absent
        /\ Command(Request("set", <<o, v>>))

setStreamMuted ==
    \E o \in Streams, v \in Volumes :
        /\ shown[o] # Absent
        /\ Command(Request("set", <<sinkInput(o), v>>))

\* setDefaultOutput and setDefaultInput take a device that is listed.
setDefault ==
    \E o \in Devices :
        /\ shown[o] # Absent
        /\ Command(Request("setDefault", <<o, "none">>))

Due(name) == posted # <<>> /\ Head(posted).name = name

\* applyAdd and applyChange of the models: a row is replaced or appended.
Rows(items) ==
    [o \in Objects |-> IF \E item \in items : item[1] = o
                       THEN (CHOOSE item \in items : item[1] = o)[2]
                       ELSE shown[o]]

\* The default sink is followed.
applyDefaultDeviceState(items) ==
    LET followed == {item \in items : item[1] \in Of("sink") /\ item[2].default} IN
    IF followed = {}
    THEN UNCHANGED <<default_output, volume>>
    ELSE \E item \in followed : default_output' = {item[1]} /\ volume' = item[2].volume

\* onDeviceAdded, onDeviceChanged, onStreamAdded and onStreamChanged.
apply ==
    /\ Due("apply")
    /\ posted' = Tail(posted)
    /\ shown' = Rows(Head(posted).items)
    /\ applyDefaultDeviceState(Head(posted).items)
    /\ UNCHANGED <<server, wire, names, available, budget>>

\* onSinkRemoved and onSourceRemoved take the row of that kind;
\* onStreamRemoved, told only the index, takes it from both stream models.
removed ==
    /\ Due("removed")
    /\ posted' = Tail(posted)
    /\ LET gone == Head(posted).items
           emptied == IF gone \subseteq Streams
                      THEN {o \in Streams : \E g \in gone : g[2] = o[2]}
                      ELSE gone
       IN /\ shown' = [o \in Objects |-> IF o \in emptied THEN Absent ELSE shown[o]]
          /\ default_output' = default_output \ gone
    /\ UNCHANGED <<server, wire, names, volume, available, budget>>

\* Mutant: the stream models survive the lost connection.
setAvailable_keepsStreams ==
    /\ Due("ready") \/ Due("lost")
    /\ posted' = Tail(posted)
    /\ available' = Due("ready")
    /\ UNCHANGED <<server, wire, names, shown, default_output, volume, budget>>

\* Losing the server empties the stream models; the device models stay.
setAvailable ==
    /\ Due("ready") \/ Due("lost")
    /\ posted' = Tail(posted)
    /\ available' = Due("ready")
    /\ shown' = [o \in Objects |->
           IF Due("lost") /\ o \in Streams THEN Absent ELSE shown[o]]
    /\ UNCHANGED <<server, wire, names, default_output, volume, budget>>

Deliver == apply \/ removed \/ setAvailable

Next ==
    \/ \E o \in Objects : Change(o)
    \/ Serve
    \/ Callback
    \/ setVolume \/ setDeviceVolume \/ setStreamVolume
    \/ setDeviceMuted \/ setStreamMuted
    \/ setDefault
    \/ Deliver

Spec == Init /\ [][Next]_vars

------------------------------------------------------------------------------
(* Properties.                                                              *)

\* Connected, and nothing on its way between the server and the models.
Settled == connected /\ up = <<>> /\ down = <<>> /\ posted = <<>>

Mirrored(objects) ==
    \A o \in objects : shown[o] = [volume |-> world[o], default |-> o \in default]

\* The models end up equal to the server, whatever changed while they were being
\* filled and after any number of lost connections: every object that exists is
\* listed with its volume and default flag, and so is no stream that does not;
\* nor is a device, within the first connection.  Monitors are left out.  (For
\* streams of distinct indexes.)
ModelsConverge ==
    Settled => /\ Mirrored(Streams \cup Alive(world, Devices \ Monitors))
               /\ losses = 0 => Mirrored(Objects \ Monitors)

\* The output the controller's setVolume acts on is the server's default sink
\* and the volume it shows is that sink's, also when the default sink goes
\* away while its replacement is still being read.
ControlsDefault ==
    Settled /\ Alive(world, Of("sink")) # {} =>
        /\ default_output = default \cap Of("sink")
        /\ \A o \in default_output : volume = world[o]

\* No stream outlives the connection it was read from, including streams whose
\* answers were already queued when the connection was lost.
UnavailableShowsNoStreams ==
    ~available => \A o \in Streams : shown[o] = Absent

\* Independent clients converge: every stream the server has is listed.
StreamsListed ==
    Settled => \A o \in Streams : world[o] # "gone" => shown[o] # Absent
==============================================================================
