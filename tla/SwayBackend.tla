------------------------------ MODULE SwayBackend ------------------------------
(***************************************************************************)
(* src/compositor/SwayBackend.cpp: a request socket, on which refreshes    *)
(* (three queries in a row) and activations take turns, and a subscription *)
(* socket, whose events ask for refreshes.  Sway answers each socket in    *)
(* order, the two sockets independently.                                   *)
(*                                                                         *)
(* Sway's state is a version number, which every change bumps and, once    *)
(* the subscription is accepted, announces by an event.  An answer carries *)
(* the version at the time Sway answered, so that a refresh may read its   *)
(* three answers at three versions.                                        *)
(***************************************************************************)
EXTENDS Naturals

CONSTANTS
  Workspaces,        \* workspace ids
  Slots,             \* numbered slots
  Windows,           \* container ids
  None,
  WorkspacesAt(_),   \* the workspaces Sway has at a version
  MaxVersion, MaxDrops, MaxRejections, MaxFailures, MaxRefusals, MaxRequests \* bounds, for TLC

ASSUME SwayConstants == None \notin Workspaces \cup Slots \cup Windows

VARIABLES
  phase, refresh_dirty,
  refresh_timer, reconnect_timer, \* isActive()
  pending_activation, pending_window,
  candidates,    \* activation_candidates_ and their containers
  workspaces,    \* the version of workspaces_, 0 when empty
  view,          \* the last snapshot: whether connected, and the versions it shows
  request,       \* request_socket_.state()
  subscription,  \* subscription_socket_ and subscription_ready_
  \* Sway
  world,
  wire,          \* the command on the request socket, and Sway's answer to it
  events,        \* versions announced on the subscription and not read yet
  refusals, spent, \* what the bounds count
  \* history
  since,         \* the version at which Sway accepted the subscription
  session        \* how often a session ended

vars == <<phase, refresh_dirty, refresh_timer, reconnect_timer, pending_activation,
          pending_window, candidates, workspaces, view, request, subscription, world, wire,
          events, refusals, spent, since, session>>
queueVars == <<pending_activation, pending_window>>
socketVars == <<request, subscription, reconnect_timer>>
swayVars == <<world, events, since>>

Unavailable == [connected |-> FALSE, workspaces |-> 0, windows |-> 0, session |-> 0]

(* The subscription socket: SUBSCRIBE is written when it connects, and Sway's *)
(* answer comes before the first event.                                       *)
Subscribed == {"Answered", "Ready"}
Up == {"Asked"} \cup Subscribed

(* workspace_names_ is replaced with the snapshot and cleared by fail(). *)
workspace_names(shown) == IF shown.connected THEN WorkspacesAt(shown.workspaces) ELSE {}

Dispatchable(activation, shown) ==
  activation \in Slots \/ activation \in workspace_names(shown)

-----------------------------------------------------------------------------
(* sendRequest(): the whole frame is accepted for writing, or it is not,     *)
(* "often" times in a step.                                                  *)
Sent(next, command) ==
  /\ phase' = next
  /\ wire' = [command |-> command, answered |-> FALSE, world |-> 0]

NotSent(often) ==
  /\ refusals' = refusals + often
  /\ refusals' <= MaxRefusals

Idle == phase' = "Idle" /\ wire' = None

(* disconnectSession(): abort() drops both sockets and what is on the way,   *)
(* and the timer of the next attempt runs.  refresh_timer_ is left alone.    *)
disconnectSession ==
  /\ Idle /\ workspaces' = 0 /\ candidates' = {}
  /\ pending_window' = None /\ pending_activation' = None /\ refresh_dirty' = FALSE
  /\ view' = Unavailable
  /\ request' = "Unconnected" /\ subscription' = "Unconnected" /\ events' = {}
  /\ reconnect_timer' = TRUE /\ session' = session + 1
  /\ UNCHANGED <<world, since>>

(* Mutant: an event during a command is taken to be covered by it. *)
scheduleRefresh_covered ==
  /\ refresh_timer' = (refresh_timer \/ phase = "Idle")
  /\ UNCHANGED refresh_dirty

(* scheduleRefresh(): later when a command is in flight. *)
scheduleRefresh ==
  /\ refresh_dirty' = (refresh_dirty \/ phase # "Idle")
  /\ refresh_timer' = (refresh_timer \/ phase = "Idle")

(* Mutant: the queued window makes way for a workspace. *)
drainWork_workspaceFirst(owed, shown, failed) ==
  /\ pending_window' = None /\ pending_activation' = None
  /\ refresh_dirty' = owed /\ view' = shown
  /\ NotSent(failed)
  /\ IF pending_activation # None /\ Dispatchable(pending_activation, shown)
     THEN Sent("WorkspaceActivation", pending_activation) /\ UNCHANGED refresh_timer
     ELSE Idle /\ refresh_timer' = (refresh_timer \/ owed)

(* drainWork(), with refresh_dirty_ = owed and after the snapshot "shown":   *)
(* the queued window, else the queued workspace if it is still listed, else  *)
(* the refresh that is owed.  A window that is not sent leaves the queued    *)
(* workspace to the refresh's end.  "failed" writes failed before, in the    *)
(* same step.                                                                *)
drainWork(owed, shown, failed) ==
  \/ /\ pending_window # None
     /\ pending_window' = None
     /\ \/ /\ Sent("WindowActivation", pending_window) /\ NotSent(failed)
           /\ refresh_dirty' = owed /\ view' = shown
           /\ UNCHANGED refresh_timer
        \/ /\ NotSent(failed + 1) /\ Idle
           /\ refresh_dirty' = TRUE /\ view' = Unavailable /\ refresh_timer' = TRUE
     /\ UNCHANGED pending_activation
  \/ /\ pending_window = None
     /\ pending_activation # None /\ Dispatchable(pending_activation, shown)
     /\ pending_activation' = None
     /\ \/ /\ Sent("WorkspaceActivation", pending_activation) /\ NotSent(failed)
           /\ refresh_dirty' = owed /\ view' = shown
           /\ UNCHANGED refresh_timer
        \/ /\ NotSent(failed + 1) /\ Idle
           /\ refresh_dirty' = TRUE /\ view' = Unavailable /\ refresh_timer' = TRUE
     /\ UNCHANGED pending_window
  \/ /\ pending_window = None
     /\ pending_activation # None => ~Dispatchable(pending_activation, shown)
     /\ pending_activation' = None
     /\ NotSent(failed) /\ Idle
     /\ refresh_dirty' = owed /\ view' = shown
     /\ refresh_timer' = (refresh_timer \/ owed)
     /\ UNCHANGED pending_window

-----------------------------------------------------------------------------
(* The sockets.                                                              *)

(* reconnect_timer_ fires: connectSockets(), which start() calls too. *)
connectSockets ==
  /\ reconnect_timer
  /\ reconnect_timer' = FALSE
  /\ phase' = "Idle"
  /\ request' = "Connecting" /\ subscription' = "Connecting"
  /\ UNCHANGED <<refresh_dirty, refresh_timer, queueVars, candidates, workspaces, view,
                 swayVars, wire, refusals, spent, session>>

requestConnected ==
  /\ request = "Connecting"
  /\ request' = "Connected"
  /\ scheduleRefresh
  /\ UNCHANGED <<phase, queueVars, candidates, workspaces, view, subscription, reconnect_timer,
                 swayVars, wire, refusals, spent, session>>

subscriptionConnected ==
  /\ subscription = "Connecting"
  /\ subscription' = "Asked"
  /\ UNCHANGED <<phase, refresh_dirty, refresh_timer, queueVars, candidates, workspaces, view,
                 request, reconnect_timer, swayVars, wire, refusals, spent, session>>

(* Sway is not listening: the socket reports an error, which nothing is      *)
(* connected to, and was never connected, so that disconnected() is not      *)
(* emitted either.                                                           *)
connectionRejected ==
  /\ spent.rejections < MaxRejections
  /\ spent' = [spent EXCEPT !.rejections = @ + 1]
  /\ \/ /\ request = "Connecting" /\ request' = "Unconnected"
        /\ UNCHANGED subscription
     \/ /\ subscription = "Connecting" /\ subscription' = "Unconnected"
        /\ UNCHANGED request
  /\ UNCHANGED <<phase, refresh_dirty, refresh_timer, reconnect_timer, queueVars, candidates,
                 workspaces, view, swayVars, wire, refusals, session>>

(* Either socket is lost. *)
disconnected ==
  /\ request = "Connected" \/ subscription \in Up
  /\ spent.drops < MaxDrops
  /\ spent' = [spent EXCEPT !.drops = @ + 1]
  /\ disconnectSession
  /\ UNCHANGED <<refresh_timer, refusals>>

-----------------------------------------------------------------------------
(* Refreshes and answers.                                                    *)

Failed ==
  /\ spent.failures < MaxFailures
  /\ spent' = [spent EXCEPT !.failures = @ + 1]

(* refresh_timer_ fires: beginRefresh().  It gives up, without a word, when   *)
(* a command is in flight or the session is gone.                            *)
beginRefresh ==
  /\ refresh_timer
  /\ UNCHANGED spent
  /\ \/ /\ request # "Connected" \/ phase # "Idle"
        /\ refresh_timer' = FALSE
        /\ UNCHANGED <<phase, refresh_dirty, queueVars, candidates, workspaces, view,
                       socketVars, swayVars, wire, refusals, session>>
     \/ /\ request = "Connected" /\ phase = "Idle"
        /\ refresh_timer' = FALSE /\ refresh_dirty' = FALSE
        /\ Sent("Workspaces", "GET_WORKSPACES") /\ NotSent(0)
        /\ workspaces' = 0
        /\ UNCHANGED <<queueVars, candidates, view, socketVars, swayVars, session>>
     \/ /\ request = "Connected" /\ phase = "Idle"
        /\ refresh_timer' = FALSE
        /\ NotSent(1) /\ disconnectSession

(* The next query of a refresh, with "read" in workspaces_. *)
Continue(next, command, read) ==
  /\ \/ /\ Sent(next, command) /\ NotSent(0)
        /\ workspaces' = read
        /\ UNCHANGED <<refresh_dirty, queueVars, candidates, view, socketVars, swayVars, session>>
     \/ NotSent(1) /\ disconnectSession
  /\ UNCHANGED refresh_timer

(* Mutant: an activation is taken to change nothing. *)
finishActivation_clean(bad) ==
  /\ drainWork(refresh_dirty, IF bad THEN Unavailable ELSE view, 0)
  /\ UNCHANGED <<candidates, workspaces, socketVars, swayVars, session>>

(* finishActivation(): a refused activation publishes its failure; either     *)
(* way a refresh is owed.                                                     *)
finishActivation(bad) ==
  /\ drainWork(TRUE, IF bad THEN Unavailable ELSE view, 0)
  /\ UNCHANGED <<candidates, workspaces, socketVars, swayVars, session>>

(* finishRefresh(), with the tree of the version "tree".                      *)
finishRefresh(tree, bad) ==
  /\ drainWork(refresh_dirty,
               IF bad THEN Unavailable
               ELSE [connected |-> TRUE, workspaces |-> workspaces, windows |-> tree,
                     session |-> session],
               0)
  /\ candidates' = IF bad THEN candidates ELSE Windows
  /\ UNCHANGED <<workspaces, socketVars, swayVars, session>>

Answered == wire # None /\ wire.answered

(* handleRequestData() and handleRequestFrame(); "bad" is an answer that does *)
(* not parse as a snapshot, or that reports no success.                       *)
handleRequestFrame(bad) ==
  /\ Answered
  /\ IF bad /\ phase = "Tree" THEN Failed ELSE UNCHANGED spent
  /\ CASE phase = "Workspaces" -> Continue("Outputs", "GET_OUTPUTS", wire.world)
       [] phase = "Outputs" -> Continue("Tree", "GET_TREE", workspaces)
       [] phase = "Tree" -> finishRefresh(wire.world, bad)
       [] OTHER -> finishActivation(bad)

(* handleSubscriptionData(): Sway accepted the subscription. *)
subscriptionAccepted ==
  /\ subscription = "Answered"
  /\ subscription' = "Ready"
  /\ UNCHANGED <<phase, refresh_dirty, refresh_timer, queueVars, candidates, workspaces, view,
                 request, reconnect_timer, swayVars, wire, refusals, spent, session>>

(* An event of any kind. *)
handleEvent(version) ==
  /\ subscription = "Ready"
  /\ events' = events \ {version}
  /\ scheduleRefresh
  /\ UNCHANGED <<phase, queueVars, candidates, workspaces, view, socketVars, world, since, wire,
                 refusals, spent, session>>

(* An answer that is no i3 IPC frame, or not of expectedResponseType(), a      *)
(* rejected subscription, or anything but events after it.                    *)
badData ==
  /\ Answered \/ subscription \in Subscribed
  /\ Failed
  /\ disconnectSession
  /\ UNCHANGED <<refresh_timer, refusals>>

-----------------------------------------------------------------------------
(* What a consumer calls.                                                     *)

Requested ==
  /\ spent.requests < MaxRequests
  /\ spent' = [spent EXCEPT !.requests = @ + 1]

(* activateWorkspace() of a listed one, activateNumberedSlot() of any slot;   *)
(* then dispatchActivation(): the latest waits.  One that is not sent is       *)
(* reported, and makes way for what waits: a workspace, when a window that    *)
(* waited with it was not sent either.                                        *)
activateWorkspace(activation) ==
  /\ Requested
  /\ Dispatchable(activation, view)
  /\ request = "Connected"
  /\ \/ /\ phase # "Idle"
        /\ pending_activation' = activation
        /\ UNCHANGED <<phase, wire, view, refusals, refresh_dirty, refresh_timer, pending_window>>
     \/ /\ phase = "Idle"
        /\ Sent("WorkspaceActivation", activation) /\ NotSent(0)
        /\ UNCHANGED <<view, refresh_dirty, refresh_timer, queueVars>>
     \/ /\ phase = "Idle"
        /\ drainWork(TRUE, Unavailable, 1)
  /\ UNCHANGED <<candidates, workspaces, socketVars, swayVars, session>>

(* requestWindowActivation(), resolved to a known container: one may wait,    *)
(* and the next is told Busy.                                                 *)
requestWindowActivation(window) ==
  /\ Requested
  /\ request = "Connected" /\ window \in candidates
  /\ \/ /\ phase # "Idle" /\ pending_window = None
        /\ pending_window' = window
        /\ UNCHANGED <<phase, wire, view, refusals, refresh_timer>>
     \/ /\ phase = "Idle"
        /\ Sent("WindowActivation", window) /\ NotSent(0)
        /\ UNCHANGED <<view, refresh_timer, pending_window>>
     \/ /\ phase = "Idle"
        /\ NotSent(1) /\ Idle
        /\ view' = Unavailable /\ refresh_timer' = TRUE
        /\ UNCHANGED pending_window
  /\ UNCHANGED <<refresh_dirty, pending_activation, candidates, workspaces, socketVars, swayVars,
                 session>>

-----------------------------------------------------------------------------
(* Sway.                                                                      *)

backendVars == <<phase, refresh_dirty, refresh_timer, reconnect_timer, queueVars, candidates,
                 workspaces, view, request, refusals, spent, session>>

SwayAnswers ==
  /\ wire # None /\ ~wire.answered
  /\ wire' = [wire EXCEPT !.answered = TRUE, !.world = world]
  /\ UNCHANGED <<backendVars, subscription, swayVars>>

SwaySubscribes ==
  /\ subscription = "Asked"
  /\ subscription' = "Answered" /\ since' = world
  /\ UNCHANGED <<backendVars, world, events, wire>>

Change ==
  /\ world < MaxVersion
  /\ world' = world + 1
  /\ events' = IF subscription \in Subscribed THEN events \cup {world + 1} ELSE events
  /\ UNCHANGED <<backendVars, subscription, since, wire>>

(* start() has called connectSockets(). *)
Init ==
  /\ phase = "Idle" /\ refresh_dirty = FALSE
  /\ refresh_timer = FALSE /\ reconnect_timer = FALSE
  /\ pending_activation = None /\ pending_window = None
  /\ candidates = {} /\ workspaces = 0 /\ view = Unavailable
  /\ request = "Connecting" /\ subscription = "Connecting"
  /\ world = 1 /\ wire = None /\ events = {} /\ since = 0 /\ session = 0
  /\ refusals = 0 /\ spent = [drops |-> 0, rejections |-> 0, failures |-> 0, requests |-> 0]

Next ==
  \/ connectSockets \/ requestConnected \/ subscriptionConnected \/ connectionRejected
  \/ disconnected
  \/ beginRefresh
  \/ \E bad \in BOOLEAN : handleRequestFrame(bad)
  \/ subscriptionAccepted \/ badData
  \/ \E version \in events : handleEvent(version)
  \/ \E activation \in Workspaces \cup Slots : activateWorkspace(activation)
  \/ \E window \in Windows : requestWindowActivation(window)
  \/ SwayAnswers \/ SwaySubscribes \/ Change

Spec == Init /\ [][Next]_vars

(* The event loop runs the timers and reads both sockets; Sway accepts        *)
(* connections, answers, and accepts subscriptions.                           *)
FairSpec ==
  /\ Spec
  /\ WF_vars(connectSockets) /\ WF_vars(requestConnected) /\ WF_vars(subscriptionConnected)
  /\ WF_vars(beginRefresh)
  /\ WF_vars(handleRequestFrame(FALSE))
  /\ WF_vars(subscriptionAccepted)
  /\ WF_vars(\E version \in events : handleEvent(version))
  /\ WF_vars(SwayAnswers) /\ WF_vars(SwaySubscribes)

-----------------------------------------------------------------------------
(* Properties.                                                                *)

(* Nothing is in flight, will be sent, or is still to be read. *)
Quiet ==
  /\ phase = "Idle" /\ ~refresh_timer
  /\ subscription = "Ready" /\ events = {}

(* When all is quiet, the snapshot shown is no older than Sway, whatever the  *)
(* order in which answers, events and activations came; only what changed     *)
(* before Sway accepted the subscription may be missing, since nothing        *)
(* refreshes the snapshot when the subscription is accepted.                  *)
QuietShowsSway ==
  (Quiet /\ view.connected) => view.workspaces >= world \/ world = since

(* A window that waits is activated, or the consumer is shown an unavailable  *)
(* snapshot; a workspace that waits is activated, gives way to a later one,   *)
(* or is no longer listed.  Neither is forgotten.                             *)
Activated(target, next) ==
  phase' = next /\ wire'.command = target

QueuedActivationsServed ==
  [][/\ (pending_window # None /\ pending_window' # pending_window) =>
          /\ pending_window' = None
          /\ Activated(pending_window, "WindowActivation") \/ ~view'.connected
     /\ (pending_activation # None /\ pending_activation' = None) =>
          \/ Activated(pending_activation, "WorkspaceActivation") \/ ~view'.connected
          \/ ~Dispatchable(pending_activation, view')]_vars

(* Each change that Sway announces is shown (README "Backend events and       *)
(* reconnects refresh snapshots"), in every session, as long as the session   *)
(* lasts, its request socket was accepted too, and no snapshot fails to parse *)
(* or command to be sent.                                                     *)
EventsRefresh ==
  \A n \in 1..MaxVersion, s \in 0..MaxDrops :
    (session = s /\ subscription \in Subscribed /\ since < n /\ world >= n) ~>
      \/ view.connected /\ view.workspaces >= n
      \/ session # s \/ request = "Unconnected"
      \/ spent.failures > 0 \/ refusals > 0

(* README "Backend events and reconnects refresh snapshots": after a loss the *)
(* backend reconnects, once Sway accepts connections again, and publishes a   *)
(* snapshot of the new session, unless that is lost too.                      *)
ReconnectsRefresh ==
  \A s \in 1..MaxDrops :
    session = s ~> (view.connected /\ view.session = s) \/ session # s

=============================================================================
