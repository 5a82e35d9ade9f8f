--------------------------- MODULE HyprlandBackend ---------------------------
(***************************************************************************)
(* The request sequencer of src/compositor/HyprlandBackend.cpp: snapshot   *)
(* refreshes (three queries in a row), workspace activations and window    *)
(* activations share a transport that runs one command at a time.          *)
(*                                                                         *)
(* The transport (HyprlandIpcTransport) is the environment: it runs a      *)
(* command or refuses it, finishes it with or without success, and follows *)
(* the event stream.  Hyprland is a version number that every change bumps *)
(* and that an event line announces later.  Special workspaces take the    *)
(* same path as numbered ones and are members of Workspaces.               *)
(***************************************************************************)
EXTENDS Naturals

CONSTANTS
  Workspaces, Windows, None,
  MaxChanges, MaxDrops, MaxFailures, MaxRefusals, MaxRequests \* bounds, for TLC

Activating == {"WorkspaceActivation", "LuaActivation",
               "WindowActivation", "LuaWindowActivation"}

ASSUME HyprlandConstants == None \notin Windows \cup Workspaces

VARIABLES
  phase, refresh_dirty, refresh_scheduled,
  pending_activation, pending_window_address,
  activation,   \* activation_id_ or window_activation_address_
  candidates,   \* activation_candidates_ and activation_addresses_
  view,         \* the last snapshot: whether connected, and what it shows
  \* the transport and Hyprland
  running,      \* hasRunningCommand()
  stream,       \* the event stream is connected
  world,        \* the version of Hyprland's state
  lines,        \* versions announced by event lines not read yet
  refusals, spent, \* what the bounds count
  \* history
  began,        \* world and session when the refresh in progress began
  heard,        \* the newest version an event has announced in this session
  session       \* how often the stream was lost

vars == <<phase, refresh_dirty, refresh_scheduled, pending_activation,
          pending_window_address, activation, candidates, view, running, stream,
          world, lines, refusals, spent, began, heard, session>>
queueVars == <<pending_activation, pending_window_address>>
worldVars == <<stream, world, lines>>
historyVars == <<began, heard, session>>

Unavailable == [connected |-> FALSE, world |-> 0, session |-> 0]

Shown == [connected |-> TRUE, world |-> began.world, session |-> began.session]

Busy == phase # "Idle" \/ running

-----------------------------------------------------------------------------
(* The transport runs one command at a time, and may refuse one (it has no  *)
(* socket path): "then" is what follows.                                    *)
Accepted(next) == phase' = next /\ running' = TRUE /\ UNCHANGED refusals

Refused ==
  /\ refusals < MaxRefusals
  /\ refusals' = refusals + 1
  /\ phase' = "Idle" /\ running' = FALSE

(* The next command of a sequence; fail() when it cannot be run. *)
Continue(next) ==
  /\ \/ Accepted(next) /\ UNCHANGED view
     \/ Refused /\ view' = Unavailable
  /\ UNCHANGED <<refresh_dirty, refresh_scheduled, candidates, queueVars, activation>>

(* Mutant: a refresh that is owed waits for the next event. *)
drainWork_lazy(owed, shown) ==
  /\ phase' = "Idle" /\ running' = FALSE
  /\ refresh_dirty' = owed
  /\ view' = shown
  /\ UNCHANGED <<refresh_scheduled, queueVars, activation, refusals>>

(* drainWork(), with refresh_dirty_ = owed and after the snapshot "shown":  *)
(* the queued window first, then the queued workspace, then a refresh.      *)
drainWork(owed, shown) ==
  \/ /\ pending_window_address # None
     /\ pending_window_address' = None
     /\ activation' = pending_window_address
     /\ \/ /\ Accepted("WindowActivation")
           /\ refresh_dirty' = owed /\ view' = shown
           /\ UNCHANGED refresh_scheduled
        \/ /\ Refused
           /\ refresh_dirty' = TRUE /\ view' = Unavailable
           /\ refresh_scheduled' = TRUE
     /\ UNCHANGED pending_activation
  \/ /\ pending_window_address = None /\ pending_activation # None
     /\ pending_activation' = None
     /\ activation' = pending_activation
     /\ \/ Accepted("WorkspaceActivation") /\ view' = shown
        \/ Refused /\ view' = Unavailable
     /\ refresh_dirty' = owed
     /\ UNCHANGED <<refresh_scheduled, pending_window_address>>
  \/ /\ pending_window_address = None /\ pending_activation = None
     /\ phase' = "Idle" /\ running' = FALSE
     /\ refresh_dirty' = owed
     /\ refresh_scheduled' = (refresh_scheduled \/ owed)
     /\ view' = shown
     /\ UNCHANGED <<queueVars, activation, refusals>>

(* Mutant: an event during a command is taken to be covered by it. *)
scheduleRefresh_covered ==
  /\ refresh_scheduled' = (refresh_scheduled \/ ~Busy)
  /\ UNCHANGED refresh_dirty

(* scheduleRefresh(): the singleShot(0) at most once, later when busy. *)
scheduleRefresh ==
  /\ refresh_dirty' = (refresh_dirty \/ Busy)
  /\ refresh_scheduled' = (refresh_scheduled \/ ~Busy)

-----------------------------------------------------------------------------
(* Handlers of the transport's signals and of the timer.                    *)

(* The singleShot(0): beginRefresh(). *)
beginRefresh ==
  /\ refresh_scheduled
  /\ refresh_scheduled' = FALSE
  /\ \/ /\ Busy
        /\ refresh_dirty' = TRUE
        /\ UNCHANGED <<phase, running, view, refusals, began>>
     \/ /\ ~Busy
        /\ refresh_dirty' = FALSE
        /\ began' = [world |-> world, session |-> session]
        /\ \/ Accepted("Monitors") /\ UNCHANGED view
           \/ Refused /\ view' = Unavailable
  /\ UNCHANGED <<queueVars, activation, candidates, worldVars, spent, heard, session>>

eventStreamConnected ==
  /\ ~stream
  /\ stream' = TRUE /\ lines' = {} /\ heard' = world
  /\ scheduleRefresh
  /\ UNCHANGED <<phase, queueVars, activation, candidates, view, running, world, refusals, spent,
                 began, session>>

(* Mutant: the sequence in progress goes on. *)
eventStreamDisconnected_continues ==
  /\ stream /\ session < MaxDrops
  /\ stream' = FALSE /\ lines' = {} /\ session' = session + 1
  /\ pending_activation' = None /\ pending_window_address' = None
  /\ candidates' = {}
  /\ view' = Unavailable
  /\ UNCHANGED <<phase, refresh_dirty, refresh_scheduled, activation, running, world, refusals, spent,
                 began, heard>>

(* The queue is dropped and the sequence in progress abandoned, but not the *)
(* command that is running.                                                 *)
eventStreamDisconnected ==
  /\ stream /\ session < MaxDrops
  /\ stream' = FALSE /\ lines' = {} /\ session' = session + 1
  /\ pending_activation' = None /\ pending_window_address' = None
  /\ candidates' = {}
  /\ phase' = "Idle" /\ view' = Unavailable
  /\ UNCHANGED <<refresh_dirty, refresh_scheduled, activation, running, world, refusals, spent,
                 began, heard>>

handleEvent(line) ==
  /\ lines' = lines \ {line}
  /\ heard' = IF line > heard THEN line ELSE heard
  /\ scheduleRefresh
  /\ UNCHANGED <<phase, queueVars, activation, candidates, view, running, stream, world,
                 refusals, spent, began, session>>

Failed ==
  /\ spent.failures < MaxFailures
  /\ spent' = [spent EXCEPT !.failures = @ + 1]

(* handleCommand(response, true); "bad" is an error response to a dispatch, *)
(* or a snapshot that does not parse.                                       *)
commandSucceeded(bad) ==
  /\ running
  /\ IF bad /\ phase = "Clients" THEN Failed ELSE UNCHANGED spent
  /\ CASE phase = "Idle" ->
            /\ running' = FALSE
            /\ UNCHANGED <<phase, refresh_dirty, refresh_scheduled, queueVars, activation,
                           candidates, view, refusals>>
       [] phase = "Monitors" -> Continue("Workspaces")
       [] phase = "Workspaces" -> Continue("Clients")
       [] phase = "Clients" ->
            /\ drainWork(refresh_dirty, IF bad THEN Unavailable ELSE Shown)
            /\ candidates' = IF bad THEN candidates ELSE Windows
       [] phase = "WorkspaceActivation" /\ bad -> Continue("LuaActivation")
       [] phase = "WindowActivation" /\ bad -> Continue("LuaWindowActivation")
       [] OTHER ->
            /\ drainWork(TRUE, IF bad THEN Unavailable ELSE view)
            /\ UNCHANGED candidates
  /\ UNCHANGED <<worldVars, historyVars>>

(* handleCommand(response, false).  The transport may also report a failure *)
(* when nothing runs: the timeout of a command that failed to connect.      *)
commandFailed ==
  /\ Failed
  /\ drainWork(refresh_dirty \/ phase \in Activating, Unavailable)
  /\ UNCHANGED <<candidates, worldVars, historyVars>>

-----------------------------------------------------------------------------
(* What a consumer calls.                                                   *)

Requested ==
  /\ spent.requests < MaxRequests
  /\ spent' = [spent EXCEPT !.requests = @ + 1]

(* activateWorkspace() and activateSpecialWorkspace() take a listed one,    *)
(* activateNumberedSlot() any; then dispatchWorkspace(), the latest wins.   *)
activateWorkspace(workspace) ==
  /\ Requested
  /\ \/ /\ Busy
        /\ pending_activation' = workspace
        /\ UNCHANGED <<phase, running, activation, view, refusals>>
     \/ /\ ~Busy
        /\ activation' = workspace
        /\ \/ Accepted("WorkspaceActivation") /\ UNCHANGED view
           \/ Refused /\ view' = Unavailable
        /\ UNCHANGED pending_activation
  /\ UNCHANGED <<refresh_dirty, refresh_scheduled, pending_window_address, candidates,
                 worldVars, historyVars>>

(* Mutant: a second request takes the place of the queued one. *)
requestWindowActivation_latest(window) ==
  /\ Requested
  /\ window \in candidates
  /\ Busy
  /\ pending_window_address' = window
  /\ UNCHANGED <<phase, running, activation, view, refusals, refresh_dirty,
                 refresh_scheduled, pending_activation, candidates, worldVars, historyVars>>

(* requestWindowActivation(), resolved to a known window: one may wait, and *)
(* the next is told Busy.                                                   *)
requestWindowActivation(window) ==
  /\ Requested
  /\ window \in candidates
  /\ \/ /\ Busy /\ pending_window_address = None
        /\ pending_window_address' = window
        /\ UNCHANGED <<phase, running, activation, view, refusals, refresh_scheduled>>
     \/ /\ ~Busy
        /\ activation' = window
        /\ \/ Accepted("WindowActivation") /\ UNCHANGED <<view, refresh_scheduled>>
           \/ Refused /\ view' = Unavailable /\ refresh_scheduled' = TRUE
        /\ UNCHANGED pending_window_address
  /\ UNCHANGED <<refresh_dirty, pending_activation, candidates, worldVars, historyVars>>

-----------------------------------------------------------------------------
(* Hyprland changes, and says so when the stream is up. *)
Change ==
  /\ world < MaxChanges
  /\ world' = world + 1
  /\ lines' = IF stream THEN lines \cup {world + 1} ELSE lines
  /\ UNCHANGED <<phase, refresh_dirty, refresh_scheduled, queueVars, activation,
                 candidates, view, running, stream, spent, refusals, historyVars>>

Init ==
  /\ phase = "Idle" /\ refresh_dirty = FALSE /\ refresh_scheduled = FALSE
  /\ pending_activation = None /\ pending_window_address = None
  /\ activation = None /\ candidates = {}
  /\ view = Unavailable
  /\ running = FALSE /\ stream = FALSE /\ world = 0 /\ lines = {}
  /\ refusals = 0 /\ spent = [failures |-> 0, requests |-> 0]
  /\ began = [world |-> 0, session |-> 0] /\ heard = 0 /\ session = 0

Next ==
  \/ beginRefresh \/ eventStreamConnected \/ eventStreamDisconnected
  \/ \E line \in lines : handleEvent(line)
  \/ \E bad \in BOOLEAN : commandSucceeded(bad)
  \/ commandFailed
  \/ \E workspace \in Workspaces : activateWorkspace(workspace)
  \/ \E window \in Windows : requestWindowActivation(window)
  \/ Change

Spec == Init /\ [][Next]_vars

(* The event loop runs the timer and reads the stream, and a command ends   *)
(* (the client gives it two seconds); the stream is reconnected.            *)
FairSpec ==
  /\ Spec
  /\ WF_vars(beginRefresh)
  /\ WF_vars(\E line \in lines : handleEvent(line))
  /\ WF_vars(commandSucceeded(FALSE))
  /\ WF_vars(eventStreamConnected)

-----------------------------------------------------------------------------
(* Properties.                                                              *)

(* A connected snapshot was begun in the present session of the event       *)
(* stream: what a lost connection left half done is never published ("an    *)
(* unavailable snapshot on disconnection").                                 *)
ShownIsCurrentSession == view.connected => view.session = session

(* When nothing runs, waits or is scheduled, the snapshot shown was begun   *)
(* after the last event read: coalescing refreshes loses no event.          *)
CoalescingLosesNothing ==
  (view.connected /\ ~Busy /\ ~refresh_scheduled /\ ~refresh_dirty) => view.world >= heard

(* A window that waits for activation is activated next, or the consumer is *)
(* shown an unavailable snapshot; it is never replaced or forgotten.        *)
QueuedWindowServed ==
  [][(pending_window_address # None /\ pending_window_address' # pending_window_address) =>
       /\ pending_window_address' = None
       /\ \/ phase' = "WindowActivation" /\ activation' = pending_window_address
          \/ ~view'.connected]_vars

(* Every event read leads to a snapshot begun after it (README "Backend     *)
(* events and reconnects refresh snapshots"), while the first connection    *)
(* lasts and the socket client neither fails nor refuses a command: a       *)
(* failed refresh is not repeated.                                          *)
Undisturbed == session = 0 /\ spent.failures = 0 /\ refusals = 0

EventsRefresh ==
  \A n \in 1..MaxChanges :
    heard >= n ~> ((view.connected /\ view.world >= n) \/ ~Undisturbed)

=============================================================================
