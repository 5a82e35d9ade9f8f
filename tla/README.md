# holonight-system-services in TLA+

The library gives a desktop shell four services: removable storage (UDisks2
over D-Bus), Bluetooth (BlueZ over D-Bus), compositor workspaces and windows
(Hyprland, Sway and Wayland protocols) and audio (PulseAudio). Each is a
*controller* with Qt models on the GUI thread over a *backend* that talks to a
daemon the library does not own. What is hard is the same everywhere: the
daemon changes, answers late, crashes and comes back, and the program must keep
what it shows, what it is asked to do and what it has asked for in step.

The modules below are translations of `src/src/**` (paths are given in
`PROJECT.json`, definition by definition). Daemons, buses and sockets are the
environment, modelled from how the code uses them.

Contents: [parts](#parts-of-the-system), [modules](#modules),
[runs](#runs), [bounds](#bounds), [fairness](#fairness),
[proofs](#proofs), [disagreements found](#disagreements-found),
[limits](#what-is-not-modelled), [plan](#plan).

## Parts of the system

| Part | State it keeps | Operations | Talks to |
|---|---|---|---|
| `StorageController` | open requests with their reserved scope, remaining unmounts and current step; the two models | mount, unmount, eject, power-off with a confirmed scope; snapshot, result and disconnection slots | its backend, by `execute()` and three direct signals |
| `UDisks2Backend` | owner of the UDisks name, generation, revision, refresh flag, opaque ids, results waiting for a refresh | start, stop, execute; slots for owner changes, signals and replies | UDisks2, by asynchronous D-Bus calls |
| `BluetoothController` | open requests with their targets, listed ids | twenty requests by id; snapshot and result slots | its backend, the same way |
| `BlueZBackend` | owner, generation, revision, ids, discovery sessions owned or being started | start, stop, execute; slots | BlueZ |
| `BlueZAgent` | device ids it was given, open interactions | Agent1 methods, responses, cancellation | BlueZ (it is called), the backend |
| `HyprlandBackend` | phase of the command in progress, dirty flag, scheduled refresh, one queued workspace and one queued window activation | events, command results, activations | its transport |
| `HyprlandIpcClient` | event socket, its reconnect timer and delay, one command socket with its timeout | connect, run a command, socket slots | two Unix sockets |
| `SwayBackend`, `SwayIpc` | phase, dirty flag, refresh and reconnect timers, one queued workspace and one queued window activation, for Sway's framed protocol | events, answers, activations | a request and a subscription socket |
| `GenericBackend` | whether the session has finished, workspace handles with their order, groups with their members | events of ext-workspace-v1, activation | a Wayland connection |
| `LabwcBackend` | pending and committed state of each toplevel, order of activation, a scheduled publication | events of wlr-foreign-toplevel-management, window commands | a Wayland connection, and a `GenericBackend` it owns |
| `WindowActivation` | none | which listed window a request means | the Hyprland and Sway backends |
| `PulseAudioBackend` | mainloop, context, reconnect timer and attempts, level stream and its retries | start, stop, commands; callbacks on the mainloop thread that post to the GUI thread | libpulse |
| `AudioController` | four models, default devices, controlled output, users of the level meter | commands; slots | its backend, by queued calls |

How they interact: within a service everything but libpulse runs on one thread.
A signal of a backend is a direct call into its controller, which may call
`execute()` again before the signal returns; `QTimer::singleShot(0)` defers what
must not happen inside a call. Between process and daemon there are only
messages: replies and signals of one D-Bus connection arrive in the order in
which they were sent, but a reply may have been computed long before it was
sent, and calls may be handled in another order than they were made. The
PulseAudio mainloop is a thread of its own that posts to the GUI thread.

What makes each part correct, in the words the properties use:

- **Storage controller.** Requests whose devices overlap do not run at the same
  time. A removal unmounts everything first, stops at the first failure and
  never acts on a scope other than the confirmed one. Every request is answered
  once, after a disconnection too.
- **UDisks2 backend.** An id never names two devices. A snapshot that changes
  overtook is never shown for good, and a refresh is never lost. A result is
  reported only after a snapshot that contains its effect.
- **Bluetooth.** The client never leaves a discovery session behind. Ids, open
  requests and interactions end with their devices.
- **Hyprland.** Coalescing refreshes loses no event. What is shown was read in
  the present session. Nothing waits for an answer that cannot come.
- **Sway.** The same, over two sockets that are answered independently, for as
  long as the session lasts; no queued activation is forgotten.
- **Wayland.** A snapshot is what the compositor has declared done, never half a
  batch. An id never names two workspaces. The active window is the one with
  the focus. What one protocol loses does not disturb the other.
- **Audio.** A lost server is pursued for a bounded number of attempts. The
  models end up equal to the server. The microphone is open only while somebody
  watches the meter.

`PROJECT.json` lists the hazards behind these, each with its line and the
properties that would catch it.

## Modules

| Module | Models | Notes |
|---|---|---|
| `StorageReservation` | the promise of the controller | requests hold disjoint scopes while they work |
| `StorageController` | `StorageController.cpp` | against a backend that may answer, withdraw or forget anything |
| `StorageControllerProofs` | | theorems about it |
| `UDisks2Backend` | `UDisks2Backend.cpp` | with bus and daemon |
| `UDisks2BackendProofs` | | theorems about it |
| `StorageService` | both together | signals as synchronous calls |
| `StorageServiceProofs` | | theorems about the composition |
| `BlueZBackend` | `BlueZBackend.cpp`, `BlueZAgent.cpp` | with bus and daemon |
| `BluetoothController` | `BluetoothController.cpp` | EXTENDS the backend: the component as it runs |
| `BluetoothControllerProofs` | | theorems about the component |
| `HyprlandBackend` | `HyprlandBackend.cpp` | over the transport's contract |
| `HyprlandIpcClient` | `HyprlandIpcClient.cpp` | over `QLocalSocket` |
| `HyprlandProofs` | | theorems about both |
| `SwayBackend` | `SwayBackend.cpp` | over two `QLocalSocket`s, with Sway |
| `SwayBackendProofs` | | theorems about it |
| `WindowActivation` | `WindowActivation.cpp` | operators, with a reference definition |
| `GenericBackend` | `GenericBackend.cpp`, `GenericWorkspaceState.h` | with a compositor that has ext-workspace-v1 |
| `LabwcBackend` | `LabwcBackend.cpp`, `ForeignToplevelState.h` | EXTENDS `GenericBackend`: the component as it runs |
| `WaylandBackendProofs` | | theorems about both; those of the workspaces are carried over to the whole |
| `PulseAudioBackend` | connection and level meter of `PulseAudioBackend.cpp` | two threads and the queue between them |
| `AudioController` | subscription, queries and models: the rest of `PulseAudioBackend.cpp` and `AudioController.cpp` | with the sound server |
| `AudioProofs` | | theorems about both |

The `MC*` modules give the constants values for TLC. A definition whose comment
starts with "Mutant:" is the mistake that the property named in `PROJECT.json`
finds; nothing else uses it.

**StorageController.** `pending` and `request` are `requests_`; `scope`,
`unmounts`, `step` and `final` are the fields of a request; `timers` are its
deferred calls. `Begin` is `begin()`, with `Refusal` for its early returns and
`removalScope` for the drives and volumes that a removal takes along. `Timer`,
`Reply`, `Snapshot` and `Disconnect` are the slots, and `Advance` is the
sequence of unmounts that ends in the final step. `asked`, `steps` and `outcome`
are history. The devices and their attributes come from an arbitrary set
`Topologies`: the controller must be right for any backend.

**StorageReservation.** A request is accepted with a scope that no other
request holds, works, and succeeds or fails, giving the scope up. The refinement
maps `held[r]` to the scope of an open request and `phase[r]` to what the timers
and the outcome say of it.

**UDisks2Backend.** One action per slot or completion lambda. `wire` is what the
bus delivers, in order. `sent` holds calls nobody has handled, and `held` what
the daemon has computed and not yet sent, which is how a snapshot comes to be
older than the signal before it. `generation`, `revision`, `refreshing`,
`completions` and `ids` are the members of the same names; a device is an
incarnation of an object path, an id is a path with a number. What a handler
emits is left in `emitted`.

**StorageService.** While `emitted` is not empty the only step is that the
controller receives its head; calls that this adds become `execute()` in the
same step. That is what direct connections do. The backend is not stopped: only
the controller's destructor does that.

**BlueZBackend and BluetoothController.** The same idea; a handler is an
operator from a state (the record `backend` with what it calls and emits) to a
state, because the handlers call each other. The daemon keeps the discovery
sessions (`scanning`) of this client. The agent is part of the backend record.

**HyprlandBackend.** `phase` is the member of that name; `running` and `stream`
are what the transport answers. Hyprland itself is a version number, and a
snapshot is the version at the time the refresh *began*, which is the oldest
that any of its three queries can have read.

**HyprlandIpcClient.** The event socket with its states, the timers of attempts
(each attempt leaves one, the code does not cancel them) and the timer of each
command with the socket it would destroy.

**SwayBackend.** The request socket takes turns (`phase`, with the command and
its answer on `wire`); the subscription socket is asked, answered and ready
before the first of its `events` is read. Sway is a version number, and an
answer carries the version at which Sway gave it, so that a refresh may read
workspaces and windows at two versions. `disconnectSession` is one operator,
because every lost session ends in it. The failed write of an activation loses
none: `drainWork` goes on to what waits behind it, and so does `activateWorkspace`
when its own write fails (`NotSent` counts the failed writes of a step).

**WindowActivation.** The resolver folds over the candidates as the code loops
over them. `ResolvesTheWindowMeant` says what the answer has to be without a
loop, and `MCSwayBackend` assumes it of every request with up to three processes
and every list of up to three windows; TLC evaluates the assumption before the run.

**GenericBackend.** The compositor keeps what there is (`actual`) and what it has
sent to this client (`told`). Each event of a handle is an action that brings
`told` one step nearer to `actual` and applies the handler; `done` may come when
they are equal. Handles are pointers, which the allocator gives out again. Qt
binds a global some time after it has appeared; the protocol object may have been
replaced by then, and its predecessor forgotten (`Forgotten`). A withdrawn global
sends nothing more on the objects made through it.

**LabwcBackend.** The same for toplevels, with a `done` for each handle, beside an
unchanged `GenericBackend`: `LabwcNext` takes a step of one or of the other, and a
snapshot of the workspaces schedules a publication as in the constructor.
`connectToplevels` binds at once, because the code calls `bind()` itself.

**PulseAudioBackend.** `queued` is the queue to the GUI thread. A callback of
the mainloop thread and a slot of the GUI thread interleave, except where the
code holds the mainloop lock. `ahead` says how many queued calls are older than
the reconnect timer: the event loop delivers those first, since the delay is at
least a second.

**AudioController.** Requests go `up`, answers and events come `down`, results
are `posted`. Answers contain what the server knew when it answered. Commands to
a device ask for it first where the code needs its channels; commands to a stream
are sent for a playback stream of that index whatever the stream is (`sinkInput`).
Sources in `Monitors` exist on the server, may be its default, and are skipped by
`infoCallback`.

## Runs

| Run | Question |
|---|---|
| `storage_controller` | Do two requests with any overlap stay isolated, confirmed, answered once and finished, while the topology changes between any two steps? Does the controller implement `StorageReservation`? |
| `udisks2_backend` | Are ids, snapshots and results right under hotplug, foreign mounts, late answers, failed calls and restarts? |
| `storage_service` | Does the composition keep what neither half can promise alone: one place for each call, calls on different drives, removals decided on fresh mounts? |
| `bluetooth` | Can a discovery session be orphaned? Do ids, requests and interactions end with what they are about, and does every request end? |
| `hyprland_backend` | Does the phase machine lose events, mix sessions or wait for ever? |
| `hyprland_ipc_client` | Does the client connect again, and finish each command once? |
| `sway_backend` | Is the snapshot as new as Sway in quiet, every event followed by one as new, and every queued activation sent or reported, whatever the order in which the two sockets are answered? Does the resolver find the window that is meant? |
| `labwc_backend` | Is what is shown what was declared done, do ids stay with their workspaces, is the active window the focused one, and does the desktop come back when either protocol does? |
| `pulse_audio` | Does an outage end, after a bounded number of attempts, and is the microphone closed in time, whatever the order of callbacks and queued calls? |
| `audio_controller` | Do the models converge to the server? |
| `sway_reconnect`, `audio_shared_index` | Documented promises that the code breaks, see below |

The properties are defined at the end of each module, each with a comment. The
ones that say most:

- `LiveCallsIsolated`, `OperationsIsolated`: no two unanswered calls touch a
  common drive. The first is about the controller alone; the second follows the
  calls to the bus, across retired ids, as long as their devices are listed.
- `RemovalsConfirmed`, `RemovalsSeeMounts`: the final call of a removal acts on
  the confirmed scope, with nothing mounted in a snapshot that is not older than
  the last unmount.
- `CompletionsFresh`, `Settled`, `QuietShowsWorld`, `QuietShowsSway`: nothing older
  than what the daemon has told is published or reported, and when no message is
  under way the consumer is shown the world.
- `NoOrphanScan`: with no discovery call under way, every session the daemon
  keeps for this client is one it knows of. The history variable `overlooked`
  holds the two exceptions, a call that `stop()` does not know of and a call that
  timed out (see [below](#disagreements-found)).
- `CoalescingLosesNothing`, `EventsRefresh`: the safety and the liveness side of
  the refresh flag.
- `QueuedActivationsServed`: an activation that waits is sent, gives way to a
  later one or is reported, over refreshes, renames and failed sends.
- `ShownIsDeclared`, `IdsAreStable`: handles are pointers that come again, in
  groups and sessions that remember the old ones.
- `FocusShown`: in the middle of a transfer of focus two windows may both say
  that they are active, and the later one is shown.
- `DesktopRecovers`: two protocols that come and go independently, each with its
  own timer, one of them racing with the return of the global.
- `RetriesBounded`: two threads announcing one outage twice do not double the
  attempts.

All runs set `CHECK_DEADLOCK FALSE`: once the bounds are spent and every request
has ended, nothing is left to happen.

## Bounds

`MaxEvents` counts what the environment does of its own accord: launching a
daemon, changing the world, failing a call, losing a connection. The effects of
the program's own requests are not counted, and crashes are not either: a daemon
must be launched to crash again.

| Run | Bounds | Why they are enough |
|---|---|---|
| `storage_controller` | 2 requests; 2 drives in one enclosure, 2 volumes; 5 topologies to change between at will | overlaps are pairwise; two volumes make a removal with two unmounts; the topologies unplug a drive, leave a volume without one, take capabilities away and mount foreign volumes |
| `udisks2_backend` | 1 drive, 1 volume; 1 start, 1 operation, 3 events | one launch and two of: another launch, a change, a failed call. Reusing an object path takes two changes, an overtaken snapshot one |
| `storage_service` | 1 drive, 1 volume, 2 requests of any kind, 2 events | a launch and a change, a failure, or another launch; the requests add their own changes. At most 3 ids per path are needed (`MaxIds`). With a third event (129 million states) the run finds no violation either, but not in five minutes |
| `bluetooth` | 1 adapter, 1 device, a daemon that runs at first, 2 events; 2 discovery requests while there was only ever the adapter, else 1 request of 9 kinds; after the second event no request, or 1 StartDiscovery on the adapter alone | an adapter or device that goes and comes back, a daemon that crashes, comes back and calls the agent, or a call that times out and one other event; discovery is where two requests meet |
| `hyprland_backend` | 2 workspaces, 2 windows; 2 changes, 2 disconnections, 1 failed command, 1 refused one, 3 requests | running, queued and refused request at once; a second session after the first |
| `hyprland_ipc_client` | delays 1, 2, 3 for 1 s to 30 s; 3 commands, 4 turns of the server, 6 attempts | the delay doubles and hits its limit; a connection, a loss and a full backlog in any order |
| `sway_backend` | 2 workspaces, one of which the other replaces, 1 slot, 2 windows; 3 versions; 1 loss, 1 refused connection, 1 bad answer, 1 failed send, 2 requests | a change before, during and after a refresh; a workspace and a window that wait together; a send that fails in each of the places where one may; a session after a lost one |
| `labwc_backend` | 2 pointers of workspaces, 1 group, 2 windows; for each protocol 2 edits, 1 loss, 1 return, 1 request; with both protocols present 2 of these | a pointer used again takes two edits, a transfer of focus one, a return after a loss two, also while the other protocol goes on; the protocols meet only in the merge |
| `pulse_audio` | the code's constants (8 attempts, 3 retries); 2 users, 1 stop, 4 queued calls | two lives; a queue as long as the calls that can overlap in one outage |
| `audio_controller` | 2 sinks, 1 monitor source, 1 playback stream, 2 events (changes, losses and commands) | two changes that overtake each other's answers, a change and a loss, or a command that meets a change; other sources and recording streams run through the same operators, except that only a sink is controlled |

`hyprland_ipc_client` and `audio_controller` count every event, so what happens
after more events is not checked there. `sway_reconnect` uses one workspace, one
window, one loss and one refused connection; `audio_shared_index` a sink, a
playback and a recording stream with the same index and one event: the shortest
histories that show the disagreement.

Bounds occur in guards of environment actions and of choices the environment
makes within a handler (a refused or failed call), never elsewhere in a handler.
`MCBluetoothController` and `MCLabwcBackend` share a budget between two parts by a
condition `Within` on the next state: it only leaves states out.

What takes more than these is left to the theorems, which have no bounds: in
Bluetooth an object that goes and comes back across a restart, and any other
request with two events; in Sway a direct send that fails while
another activation waits since an earlier failure; in UDisks2 a third change around
one snapshot; in Wayland, for safety, both protocols lost and returned in one run.
What is [left to TLC](#what-is-left-to-tlc) is known within the bounds only.

## Fairness

Only progress that the code or its environment really makes is assumed.

- *The event loop runs*: posted calls, expired timers and arrived messages are
  handled (weak fairness of `Timer`, `Received`, `Deliver`, `beginRefresh` and
  so on).
- *The bus delivers, and a running daemon answers what it receives* (a call may
  always be answered with an error). A daemon that is not running answers
  nothing, and nothing makes it start. D-Bus calls have a timeout, which has the
  same effect as an error for the client, while the daemon may still perform the
  call (`LocalError`).
- In `StorageController` the backend answers each call it was given, or
  withdraws its snapshot. `CallsInOnePlace` is the part of this that depends on
  the backend's code.
- In `HyprlandBackend` a command ends, because `HyprlandIpcClient` gives it two
  seconds (`CommandsFinishOnce` there), and a lost stream is connected again
  (`Reconnects` there, as long as the compositor accepts).
- In `SwayBackend` a connection that is not refused is made, Sway answers each
  request and accepts the subscription; whether a connection is refused is not
  decided by fairness.
- In `LabwcBackend` the compositor tells a client what there is and ends it with
  done, Qt binds the globals there are, and both timers expire. `DesktopRecovers`
  asks for no more than that the globals stay.
- In `PulseAudioBackend` a connecting context becomes ready or fails.

Nothing is assumed about the consumer, the daemon's own changes, or the choice
between success and failure. `EventsRefresh` and `QuietShowsWorld` are stated
for histories without failed calls: a failed refresh is not repeated before the
next event, and nothing in the repository promises that it is.

## Proofs

### StorageController

`StorageControllerProofs` proves, for every set of requests, drives, volumes and
topologies:

| Theorem | Statement |
|---|---|
| `Invariant` | `Spec => []IInv` |
| `TypeCorrect`, `Isolation`, `Wakeup`, `Earned` | the invariants of the run `storage_controller` |
| `Disjointness` | requests that work hold disjoint scopes: what `Isolation` and the refinement rest on |
| `NothingHeldWhenAway` | while the service is away no open request holds a device or awaits an answer |
| `Confirmed` | `Spec => RemovalsConfirmed`, an action property |
| `Implements` | `Spec => ImplementsReservation` |

The only assumption is `StorageConstants` (drives, volumes and siblings are
disjoint, `None` is none of them, topologies and confirmations are made of
them), which TLC evaluates in the run.

The argument. None of the properties is inductive alone: that two calls do not
overlap needs that a call stays inside the scope of its request and that
scopes are disjoint; that a scope is
given up needs to know who may still answer. `IInv` follows one request through
its life and adds what the properties leave out:

- `LifeInv`: what an open, unused or finished request looks like;
- `TimerInv`: a timer belongs to a request that has not made a call, one timer
  per request, and it carries a refusal exactly when the request reserves
  nothing;
- `CallInv`: the call of an open request is its current step, lies in its
  scope, and is the last one exactly as the request says;
- `WakeInv`: an open request has its timer or its call;
- `ScopeInv`: the scope contains target and unmounts, and is the confirmed one
  for a power-off;
- `StepInv`: no step of an open request has failed;
- `AwayInv`: without a service there is no topology and nothing is held;
- with `TypeOK`, `ScopesDisjoint` and `SuccessIsEarned`.

Three lemmas carry the proof: `FinishInv` (ending a set of requests),
`ExecuteInv` (issuing a step) and `AdvanceInv`, which combines them; each action
has a lemma that applies them (`BeginInv`, `TimerStepInv`, `ReplyInv`,
`SnapshotInv`, `DisconnectInv`, `ForgetInv`). For the refinement `FinishMaps`,
`ExecuteMaps` and `AdvanceMaps` play the same part: finishing is `Fail` or
`Succeed`, the first step is `Work`, further steps stutter.

### UDisks2Backend

`UDisks2BackendProofs` proves, for every set of drives and volumes, of any number
of instances, ids, calls and failures:

| Theorem | Statement |
|---|---|
| `UDisksInvariant`, `TypeCorrect` | `Spec => []IInv`, and the types of all that is kept and travels |
| `IdsAreNotReused` | `Spec => []OneDevicePerId` |
| `ResultsFollowTheirSnapshot`, `MountsAreListed` | `Spec => []CompletionsFresh`, `Spec => []MountedVolumeListed` |
| `QuietIsCurrent` | `Spec => []QuietShowsWorld` |

The assumption is `BackendConstants`, which says besides names that the objects
are finitely many, as what is unplugged is told in a sequence of signals. The first
three properties speak of the moment of publication, when an answer is taken for the truth
that was computed some time before. The invariant says why it may be:

- `Asked`: of the present connection at most one refresh is waited for, none that
  travels is newer, and no call is of a later connection or revision. So an answer
  that can still be published was asked for after everything told so far.
- `IdsStand`: the id of an object is that of the device which is there, or what
  retires it (a removal, a change of owner) is on the wire.
- `AnswersStand`: a publishable answer at place *k* of the wire agrees with the
  ids there are, and each device it lists is still there or its end is told after
  *k*. If something is told before *k* instead, the answer will be stale when it
  arrives.
- `Fresh`: a publishable answer was computed after each operation whose result
  waits for it.
- `Minted` and `Versions`: an id carries the number of ids its path has had;
  nothing comes from the future.

The proof turns on a few lemmas about queues (what taking the head and adding
at the end do to "told before" and "told after"): `EnvironmentKeeps` covers every
step of bus and daemon at once, `PassedKeeps` a message that is only dropped,
`RefreshAsked` a new request, `PublishKeeps` the publication, and `Outdated` that
nothing is publishable once the revision has moved on. That results follow their snapshot is
then a property of steps (`Emits`, `Published`).

`QuietShowsWorld` speaks of the moments at which nothing travels, so its invariant
(`QuietInv`) says where everything that is waited for is:

- `OwnerKnown`: the backend's owner is the daemon there is, or a change of owner is on
  the wire, or the call of `start()` is asked or answered;
- `RefreshRuns`: the refresh that is waited for is asked or answered, unless a change
  of owner will replace it;
- `Current`: an answer that would be published is the world as it is, unless news is on
  its way that makes it stale;
- `ShownCurrent`: with no refresh to come and no news, the world is shown;
- `LastWord`: behind the last change of owner, every answer names the daemon there is;
- `Bus`: only operations are refused, and nothing held back tells of an owner.

The parts that concern what is shown hold as long as no call has failed, since a
failed one is not repeated; the others hold always. `ViewEnvironment` covers
bus and daemon, and one lemma each what the backend may do: `SetOwnerQuiet`,
`ChangedQuiet`, `StaleQuiet`, `OverQuiet`, `PassedQuiet`.

### StorageService

`StorageServiceProofs` proves, for any drives, volumes, requests and bounds:

| Theorem | Statement |
|---|---|
| `ServiceInvariant` | `Spec => []IInv` |
| `EachCallOnce` | `Spec => []CallsInOnePlace` |
| `ServiceLists` | `Spec /\ []IdsSuffice => []SInv` |
| `RemovalsAreSeen` | `Spec /\ []IdsSuffice => RemovalsSeeMounts`, an action property |
| `ServiceIsController` | `Spec /\ []IdsSuffice => Controller!Spec` |

`ServiceConstants` assumes of the constants what `BackendConstants` does, and that
the empty string is not an id. `IdsSuffice` says that no path has been given more than
`MaxIds` ids, which is a bound for TLC (each id of the code is a new UUID); in the run
it is never reached. `ServiceIsController` says that this backend is one
of those `StorageController` is right over, so its theorems hold of the service.

`IInv` follows each call where `CallsInOnePlace` does not look: it is with a
watcher, among the completions that wait for a snapshot, deferred, or in a signal
that is being handled, and never in two of these (`Alone`). The call of an open
request stays in such a place, with the current connection, or a withdrawal is being
handled, which ends the request (`Kept`). That no new call equals one that waits rests on
calls being numbered within a request and on ids not being given to a second
request (`Numbered`). There is one lemma for each way in which the
backend moves calls (`WithdrawnKeeps`, `AnsweredKeeps`, `PublishedKeeps`,
`ReportedKeeps`), and `ControllerKeeps` for the handlers of the controller, with
`ExecutePlaces` for the call they may make.

`SInv` is about the mounts that a removal sees. `Travelling` and `Awaited` say that a
reply is no newer than the world, and that a refresh of the current
revision, if it can still be published, was computed after every result that waits: `operationReply`
makes a new revision, and no reply of that revision is on its way yet.
`Emitted` says that a snapshot is emitted first, is the one shown, and that the results behind it
are no newer; `MountsListed` that what is shown mounted is listed, on its drive,
in the controller. A removal is decided when no snapshot waits to be handled, and on
no mounted volume of its drive being listed (`Sensible`), so none is
shown mounted.

### Bluetooth

`BluetoothControllerProofs` proves, of the component as it runs:

| Theorem | Statement |
|---|---|
| `BluetoothInvariant` | `Spec => []IInv` |
| `IdsNameOneObject` | `Spec => []OneObjectPerId`, for ids the agent reserves as well |
| `SnapshotsSettle` | `Spec => []Settled` |
| `InteractionsAreListed` | `Spec => []InteractionsListed` |
| `NoScanIsOrphaned` | `Spec => []NoOrphanScan` |

The assumptions are `BlueZConstants` (the objects are finitely many, again) and
`ControllerConstants`. The argument is that of UDisks2, but BlueZ may answer out
of order and its signals name their sender, so that a message disturbs or retires
only on the connection it belongs to (`Disturbs`, `Retires`). The handlers of this
backend call each other and are modelled as operators from state to state; the
invariant is therefore stated of any pair of a state and a queue (`Sound(s, q)`,
`Fresh(s, q, h)`), not of the variables. Then each piece has its lemma
(`RefreshSound`, `ChangedSound`, `OwnerSound`, `WithdrawSound`, `PublishSound`),
each handler is composed of them (`RefreshAnswered`, `OperationAnswered`,
`RequestKeeps`, `ExecuteKeeps`, ...), and `StateKeeps` carries the result to the next
state. `HeadTaken` is the message that is delivered, `EnvironmentKeeps` everything
the daemon does. `Interacts` adds, for the agent, that with no refresh outstanding
it knows only ids in use; `Announced`, that a device which asks to be paired is
there, or its end is told behind it.

`NoOrphanScan` speaks of the moments at which no discovery call travels. Its
invariant (`ScanInv`) follows each StartDiscovery, which may be held, overtaken,
ended by a StopDiscovery or lost with the daemon:

- `Calling`: it is in one place (`sent`, `held` or answered on the wire), once, and
  its request has run, so that no later one is equal to it.
- `Linked`: a daemon that is launched is one nobody has heard of (`Numbered`); once
  the running one is known, nobody is told of another (`LastWord`, `Connected`).
- `Awaited`, `Serving`: while the backend is started, what the running daemon is
  asked or answers is of the present connection, with a watcher that waits for it
  unless it timed out and its adapter is overlooked.
- `Ended`: after `stop()`, each StartDiscovery that may still be performed is
  followed by its StopDiscovery, or is one of those overlooked.
- `Minded`: each session the daemon keeps will be ended by a StopDiscovery on its
  way, or is owned with nothing on the wire that drops it (`IsOwned`), or will be
  owned by an answer on the wire that nothing behind it undoes (`WillBeOwned`), or
  is overlooked.

That `Serving` holds sessions to powered adapters is why a snapshot never drops one
that lives on. A handler of the backend is shown to heed or to switch the
session (`Heeds`, `Switches`), `MessageScans` and `BeginScans` turn that into a step,
and `AddsScans` covers every step of bus and daemon but launch and crash
(`DaemonScans`).

### HyprlandBackend and HyprlandIpcClient

`HyprlandProofs` proves of the backend, for every set of workspaces and windows and
all bounds:

| Theorem | Statement |
|---|---|
| `HyprlandInvariant` | `Spec => []IInv` |
| `CurrentSession`, `NoEventLost` | the invariants of the run `hyprland_backend` |
| `WindowServed` | `Spec => QueuedWindowServed`, an action property |

`ShownIsCurrentSession` and `CoalescingLosesNothing` speak of what is shown, and
`CoalescingLosesNothing` of quiet moments only. The invariant says what must hold
in between: `Begun` (a refresh in progress belongs to the present session, and
unless the dirty flag is set it began after the last event), `LeftOver` (a command
that runs in phase Idle is left over from an earlier session, and the snapshot is
unavailable until a refresh), `Past` (no event is from the future) and the types.
`DrainInv`, `ContinueInv` and `ScheduledInv` are the three shapes in which a handler
ends.

Of the client it proves, for any number of commands and losses:

| Theorem | Statement |
|---|---|
| `EachCommandOnce` | `ClientSpec => []CommandsFinishOnce` |
| `NeverGivenUp` | as long as the client runs, the event socket is connected or connecting, or an attempt is planned |

The module extends backend and client, which share no name: the client's
specification is `ClientSpec`. A command finishes once because only the newest runs
and the timeout that is set is its own (`NewestRuns`), and because what is not issued
yet has not finished (`NotYet`). `NeverGivenUp` is the safety half of `Reconnects`.

### SwayBackend

`SwayBackendProofs` proves, for any workspaces, windows and bounds:

| Theorem | Statement |
|---|---|
| `SwayInvariant`, `TypeCorrect` | `Spec => []IInv` and its types |
| `QuietIsCurrent` | `Spec => []QuietShowsSway` |
| `QueueServed` | `Spec => QueuedActivationsServed`, an action property |

The two sockets are answered independently, so an answer may be older or newer
than an event. The heart of `IInv` is `Heard => Due`: once an event about the
present version of Sway has been read, a refresh is due (its timer runs, an
activation will be followed by one, or the dirty flag is set), or one is in
progress whose list of workspaces was not answered before that version, or the
snapshot has it. `Sessions` (a command and a snapshot belong to a connected
session) and `OneRefresh` are what `disconnectSession` and the timers need.

### GenericBackend and LabwcBackend

`WaylandBackendProofs` proves `IdsAreStable` (`StableIds`) and `ShownIsDeclared`
(`DeclaredIsShown`) for any number of pointers, groups, workspaces, sessions and
activations. The first invariant (`GenericInvariant`) follows the numbers: each
handle has an order number below the next one to be given, no two handles have the
same, a number that was once published stands for the workspace the handle was
made for, and what a handle was made for is what its pointer means to the
compositor as long as the handle lives. That the counter is not reset with a
session is what makes it inductive over `connectProtocol`. The second (`ShownInv`)
says that while the manager is bound the handles, with their flags, and the
groups, with their members, are the image of what was told, whatever order the
events of handle and group came in, and that nothing is shown otherwise.

Of the desktop, for any windows and bounds:

| Theorem | Statement |
|---|---|
| `LabwcInvariant` | `LabwcSpec => []LabwcInv` |
| `Committed`, `FocusIsShown` | `LabwcSpec => []ShownIsCommitted`, `LabwcSpec => []FocusShown` |
| `Composes` | `LabwcSpec => Spec` of `GenericBackend` |
| `WorkspacesKeepTheirPromises` | hence `IdsAreStable` and `ShownIsDeclared` of the desktop |

The assumption is `LabwcConstants`: `None` is no window. The handles are the image
of what the compositor told, pending of all of it and committed of what each done
closed (`WindowImage`); the window told last that it is active has a higher place in
the order than any other, in both states (`WindowOrder`), which is what makes
`active()` right while two windows claim the focus; and unless a publication is
scheduled, the snapshot is what would be published now (`Current`). `MergedKept`
shows that a publication depends on handles with a done alone.

### PulseAudioBackend

`AudioProofs` proves, for every ceiling on attempts and retries:

| Theorem | Statement |
|---|---|
| `PulseInvariant`, `TypeCorrect` | `Spec => []IInv` and its types |
| `AttemptsAreBounded` | `Spec => []RetriesBounded` |
| `NobodyIsRecordedUnasked` | `Spec => []MicrophoneOnlyOnRequest` |
| `MeterReturnsToZero` | `Spec => []LevelSettles` |

An attempt is paid for before it is made (`Paid`): by the attempt counted when the
timer was started, by the first start, or by the stop before this one; a running
timer and a client that is not started each hold one payment back. For the meter,
what is still queued when the last user leaves comes before the silence queued then
(`SettlesTo` of the queue and the level, `SettlesAppended` when a call is added).

### AudioController

`AudioProofs` proves, for any devices and streams and all bounds:

| Theorem | Statement |
|---|---|
| `OneSession` | `Spec => []SessionInv` |
| `StreamsNeedServer` | `Spec => []UnavailableShowsNoStreams` |
| `ControlledIsDefault` | `Spec => []ControlsDefault` |
| `ModelsAreServer` | `DistinctStreams` implies `Spec => []ModelsConverge` |

The last two speak of the moments at which nothing is on its way, and what is on
its way passes two queues, `down` and `posted`. The invariant therefore says of
each row that either it will be read again (`Reread`: a question is queued, or news
that will be asked about), or the last word about it is right: that in `down`, else
that in `posted`, else the row as it is (`Ends`). `RowsCurrent` says so of
what exists, with its volume and its default flag, `OutputCurrent` of the controlled output,
`NamesCurrent` of the remembered default names that the flags are computed from.
What is gone is never asked about again, so `GoneCurrent` demands that its removal
is the last word from the moment it is gone. `SessionInv` orders what the
connection posts: a `ready` comes first and a `lost` last, nothing is told before the
subscription, and no question is asked before it.

`PrevailsAppended` and `PrevailsTaken` say what adding to a queue and taking its
head do to the last word; `EndsLonger` and `EndsRead` lift that to both queues,
and `RowsKept`, `GoneKept` and `OutputKept` apply them to the steps.

`DistinctStreams` (no playback stream has the index of a recording stream) is a
hypothesis of `ModelsAreServer` and not an assumption of the module: the code needs it and
the server does not give it. Without it the theorem is false, as the run
`audio_shared_index` shows; the run `audio_controller` satisfies it.

### What is left to TLC

- Liveness and fairness (`EveryRequestEnds`, `EventsRefresh`, `Reconnects`,
  `Resolves`, `DesktopRecovers` and so on): out of the prover's reach, as is
  everything that needs ENABLED.
- `OperationsIsolated` of `StorageService`: the reservation is by id and the property
  by device, so its invariant has to follow which ids of drives and volumes have
  been listed together, through removals that are signalled one object at a time.
- What the folds of `WindowActivation` compute for every list is induction over
  data; TLC compares them with their definition on bounded lists.

No module declares a recursive operator.

## Disagreements found

- `sway_reconnect`: README.md:90 says "Backend events and reconnects refresh
  snapshots". After a loss the timer makes one attempt on both sockets. A
  connection that is refused was never made, so the socket emits `errorOccurred`
  and not `disconnected`, and nothing is connected to the former
  (`SwayBackend.cpp:18-27`): the backend stays unavailable, or half open, for good.
  `HyprlandIpcClient` handles the same error by another attempt.
- `audio_shared_index`: sink inputs and source outputs are numbered apart, but
  their removal is one signal with an index, which removes the row from both
  models (`AudioController.cpp:232`).

Other behaviours the models reach, listed as hazards and allowed for in the
properties' words:

- In `HyprlandBackend` a disconnection sets the phase to Idle but cannot stop the
  command that is running. If the stream is back before that command ends, the
  refresh is only noted, and the end of a command in phase Idle does not look at
  the note (`HyprlandBackend.cpp:140`, 155, 188): `EventsRefresh` is stated for the
  first session.
- Losing the sound server clears the stream models only, and reconnecting adds and
  updates devices, so a device that went away in between stays listed
  (`AudioController.cpp:184`): `ModelsConverge` speaks of such devices within the
  first connection only.
- The commands to a recording stream reach the playback stream of the same index
  (`AudioController.cpp:137`).
- A change between the first refresh and the acceptance of the subscription is not
  shown before the next event (`SwayBackend.cpp:284`), as `QuietShowsSway` says.
- The timeout of a command that failed inside `connectToServer()` is made
  afterwards, without a socket, and fails a later command
  (`HyprlandIpcClient.cpp:85`).
- An adapter that is removed while a StartDiscovery for it is unanswered is no longer
  in `discovery_pending_` (`BlueZBackend.cpp:153`), so a stop() that follows does not
  send StopDiscovery for it (`BlueZBackend.cpp:72`), and its answer is dropped.
  If the adapter is back before the daemon gets to the call, a session is left
  behind: `NoOrphanScan` excepts the adapters in `overlooked`.
- A StartDiscovery that times out is taken out of `discovery_pending_` and not into
  `discovery_owned_` (`BlueZBackend.cpp:387`, 394). If the daemon performs it after
  all, nobody ends the session before the adapter is switched off or the daemon or
  the connection is gone: a StopDiscovery that the user asks for is answered as
  done already (line 284), and stop() ends what is owned or pending. `overlooked`
  has these adapters too, until the owner of the name changes.
- The reservation of a storage request is by id (`busy()`), and a device that is
  unplugged loses its id. While a call to it is still unanswered, another device may take
  over its object path, and a request for that device is not held back: two calls
  for one path are then with the daemon. `OperationsIsolated` speaks of devices
  that are still listed.
- After a restart of BlueZ the agent shows a request under the id cached from the
  daemon before, until the first snapshot (`BlueZAgent.cpp:30`).

## What is not modelled

- The Qt list models: sequential, replaced as a whole by each snapshot. They are
  the sets and functions the controllers keep.
- Parsers of Hyprland and Sway messages and the choice of a backend in the
  factory: pure functions with table tests. Formatting of names, icons and errors.
- In the Wayland backends outputs, names and urgency, which travel like the members
  that are kept, the operations other than activation, which differ in the request
  sent, and workspaces with a protocol id, which keep it.
- The delay before Sway is tried again, which doubles from attempt to attempt:
  when the timer expires is left open.
- In `BlueZBackend` the single-call writes (alias, trust, block, disconnect,
  default agent), which take the path of `Connect`; input validation of the
  agent, and the progress of a displayed passkey.
- In `PulseAudioBackend` the samples of the level stream, the conversion of
  percentages, and memory. One attribute stands for volume, mute and device.
- Re-entrancy of a consumer that calls the controller from one of its signals:
  the controllers have updated their state at every emission, so such a call
  equals one made right after it.
- Build, scripts, protocol descriptions: no behaviour.

## Plan

Done, in this order: storage (controller, abstract promise, backend,
composition), Hyprland backend and client, audio, Bluetooth, Sway with the window
resolver, the Wayland backends, and proofs about the storage and
audio controllers, the storage service, the Hyprland client and the backends of storage, Bluetooth, Hyprland,
Sway, Wayland and PulseAudio.

Next theorem: `OperationsIsolated` of `StorageService`, from `ServiceInvariant` and,
through `ServiceIsController`, the disjoint scopes of the controller.

Further modelling that would pay: `HyprlandService`, the backend over the real
client, as `StorageService` does for storage, which would show that the contract
assumed of the transport is kept; the single-call writes of `BlueZBackend`.
