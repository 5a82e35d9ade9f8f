-------------------------- MODULE SwayBackendProofs --------------------------
(***************************************************************************)
(* The safety properties of SwayBackend, for any workspaces, windows and   *)
(* bounds: what is shown when all is quiet is no older than Sway, and an   *)
(* activation that waits is not forgotten.                                 *)
(*                                                                         *)
(* The first speaks of the moments at which nothing runs.  The invariant   *)
(* carries it through the others: from the moment at which an event is     *)
(* read, a refresh is due, or one is in progress whose list of workspaces  *)
(* is asked for or was answered after the change.                          *)
(***************************************************************************)
EXTENDS SwayBackend, TLAPS

Activations == Workspaces \cup Slots
Commands == {"GET_WORKSPACES", "GET_OUTPUTS", "GET_TREE"} \cup Activations \cup Windows
Refreshing == {"Workspaces", "Outputs", "Tree"}
Activating == {"WorkspaceActivation", "WindowActivation"}
Phases == {"Idle"} \cup Refreshing \cup Activating
Message == [command : Commands, answered : BOOLEAN, world : Nat]
Snapshot == [connected : BOOLEAN, workspaces : Nat, windows : Nat, session : Nat]
RequestStates == {"Unconnected", "Connecting", "Connected"}
SubscriptionStates == {"Unconnected", "Connecting"} \cup Up

TypeOK ==
  /\ phase \in Phases /\ wire \in Message \cup {None}
  /\ refresh_dirty \in BOOLEAN /\ refresh_timer \in BOOLEAN /\ reconnect_timer \in BOOLEAN
  /\ pending_activation \in Activations \cup {None} /\ pending_window \in Windows \cup {None}
  /\ candidates \subseteq Windows /\ workspaces \in Nat /\ view \in Snapshot
  /\ request \in RequestStates /\ subscription \in SubscriptionStates
  /\ world \in Nat /\ since \in Nat /\ session \in Nat /\ events \subseteq Nat

(* A command belongs to a connected session, and so does a snapshot. *)
Sessions ==
  /\ phase = "Idle" => wire = None
  /\ phase # "Idle" => wire \in Message
  /\ request # "Connected" => phase = "Idle" /\ ~view.connected
  /\ reconnect_timer => request = "Unconnected"

(* A refresh takes the timer's place. *)
OneRefresh == phase \in Refreshing => ~refresh_timer

(* Sway announced the change, and the announcement was read. *)
Heard == subscription \in Subscribed /\ world # since /\ world \notin events

(* What will bring the change to the consumer, or has done so. *)
Due ==
  \/ refresh_timer
  \/ phase \in Activating
  \/ phase # "Idle" /\ refresh_dirty
  \/ phase = "Workspaces" /\ (wire.answered => wire.world >= world)
  \/ phase \in {"Outputs", "Tree"} /\ workspaces >= world
  \/ phase = "Idle" /\ (view.connected => view.workspaces >= world)

IInv == TypeOK /\ Sessions /\ OneRefresh /\ (Heard => Due)
-----------------------------------------------------------------------------
LEMMA UnavailableIsDisconnected == Unavailable \in Snapshot /\ ~Unavailable.connected
BY DEF Unavailable, Snapshot

LEMMA InitInv == Init => IInv
<1> SUFFICES ASSUME Init PROVE IInv
  OBVIOUS
<1>1. /\ phase \in Phases /\ wire \in Message \cup {None} /\ events \subseteq Nat
      /\ pending_activation \in Activations \cup {None}
      /\ pending_window \in Windows \cup {None} /\ candidates \subseteq Windows
      /\ request \in RequestStates /\ subscription \in SubscriptionStates
  BY DEF Init, Phases, RequestStates, SubscriptionStates
<1>2. workspaces \in Nat /\ world \in Nat /\ since \in Nat /\ session \in Nat
  BY DEF Init
<1>3. refresh_dirty \in BOOLEAN /\ refresh_timer \in BOOLEAN /\ reconnect_timer \in BOOLEAN
  BY Zenon DEF Init
<1>4. view \in Snapshot /\ ~view.connected
  BY UnavailableIsDisconnected DEF Init
<1>5. TypeOK
  BY <1>1, <1>2, <1>3, <1>4 DEF TypeOK
<1>6. Sessions /\ OneRefresh /\ ~Heard
  BY <1>4 DEF Init, Sessions, OneRefresh, Heard, Refreshing, Subscribed
<1> QED
  BY <1>5, <1>6 DEF IInv

(* sendRequest(): the command is on the wire, unanswered. *)
LEMMA SentOnWire ==
  ASSUME NEW next, NEW command \in Commands, Sent(next, command)
  PROVE  phase' = next /\ wire' \in Message /\ wire'.answered = FALSE
BY DEF Sent, Message

(* The end of a session: nothing runs and nothing is shown. *)
LEMMA EndInv ==
  ASSUME IInv, disconnectSession, refresh_timer' \in BOOLEAN
  PROVE  IInv'
<1>1. /\ phase' \in Phases /\ wire' \in Message \cup {None} /\ events' \subseteq Nat
      /\ pending_activation' \in Activations \cup {None}
      /\ pending_window' \in Windows \cup {None} /\ candidates' \subseteq Windows
      /\ request' \in RequestStates /\ subscription' \in SubscriptionStates
  BY DEF disconnectSession, Idle, Phases, RequestStates, SubscriptionStates
<1>2. workspaces' \in Nat /\ world' \in Nat /\ since' \in Nat /\ session' \in Nat
  BY DEF disconnectSession, IInv, TypeOK
<1>3. refresh_dirty' \in BOOLEAN /\ reconnect_timer' \in BOOLEAN
  BY Zenon DEF disconnectSession
<1>4. view' \in Snapshot /\ ~view'.connected
  BY UnavailableIsDisconnected DEF disconnectSession
<1>5. TypeOK'
  BY <1>1, <1>2, <1>3, <1>4 DEF TypeOK
<1>6. Sessions' /\ OneRefresh' /\ ~Heard'
  BY <1>4 DEF disconnectSession, Idle, Sessions, OneRefresh, Heard, Refreshing, Subscribed
<1> QED
  BY <1>5, <1>6 DEF IInv

(* drainWork(), after a snapshot that shows what was heard of unless another  *)
(* refresh is owed.                                                           *)
LEMMA DrainInv ==
  ASSUME IInv, NEW owed \in BOOLEAN, NEW shown \in Snapshot, NEW failed, drainWork(owed, shown, failed),
         request = "Connected", candidates' \subseteq Windows,
         UNCHANGED <<workspaces, socketVars, swayVars, session>>,
         (Heard /\ ~owed /\ shown.connected) => shown.workspaces >= world
  PROVE  IInv'
<1>1. \/ /\ phase' \in Activating /\ wire' \in Message
         /\ view' = shown /\ refresh_timer' = refresh_timer /\ refresh_dirty' = owed
      \/ /\ phase' = "Idle" /\ wire' = None
         /\ \/ view' = Unavailable /\ refresh_timer' = TRUE /\ refresh_dirty' = TRUE
            \/ view' = shown /\ refresh_timer' = (refresh_timer \/ owed) /\ refresh_dirty' = owed
  <2>1. pending_window # None => pending_window \in Commands
    BY DEF IInv, TypeOK, Commands
  <2>2. pending_activation # None => pending_activation \in Commands
    BY DEF IInv, TypeOK, Commands
  <2> QED
    BY <2>1, <2>2, SentOnWire DEF drainWork, Idle, Activating
<1>2. /\ pending_activation' \in Activations \cup {None}
      /\ pending_window' \in Windows \cup {None}
  BY DEF drainWork, IInv, TypeOK
<1>3. /\ workspaces' \in Nat /\ world' \in Nat /\ since' \in Nat /\ session' \in Nat
      /\ events' \subseteq Nat /\ request' \in RequestStates
      /\ subscription' \in SubscriptionStates /\ reconnect_timer' \in BOOLEAN
  BY DEF socketVars, swayVars, IInv, TypeOK
<1>4. refresh_timer' \in BOOLEAN /\ refresh_dirty' \in BOOLEAN
  BY <1>1, Zenon DEF IInv, TypeOK
<1>5. phase' \in Phases /\ wire' \in Message \cup {None} /\ view' \in Snapshot
  BY <1>1, UnavailableIsDisconnected DEF Phases
<1>6. TypeOK'
  BY <1>2, <1>3, <1>4, <1>5 DEF TypeOK
<1>7. Sessions' /\ OneRefresh'
  BY <1>1 DEF socketVars, IInv, Sessions, OneRefresh, Refreshing, Activating
<1>8. Heard' => Due'
  BY <1>1, UnavailableIsDisconnected DEF socketVars, swayVars, Heard, Due
<1> QED
  BY <1>6, <1>7, <1>8 DEF IInv

-----------------------------------------------------------------------------
(* The sockets.                                                              *)

(* scheduleRefresh(), by an event or by the request socket that is up: what  *)
(* was heard of is due.                                                      *)
LEMMA ScheduleInv ==
  ASSUME IInv, scheduleRefresh,
         UNCHANGED <<phase, queueVars, candidates, workspaces, view, subscription,
                     reconnect_timer, world, since, wire, session>>,
         events' \subseteq Nat,
         request' = request \/ (request = "Connecting" /\ request' = "Connected")
  PROVE  IInv'
<1>1. refresh_timer' \in BOOLEAN /\ refresh_dirty' \in BOOLEAN
  BY Zenon DEF scheduleRefresh, IInv, TypeOK
<1>2. TypeOK'
  BY <1>1 DEF queueVars, IInv, TypeOK, RequestStates
<1>3. (phase = "Idle" => refresh_timer') /\ (phase # "Idle" => refresh_dirty')
  BY DEF scheduleRefresh
<1>4. phase # "Idle" => refresh_timer' = refresh_timer
  BY DEF scheduleRefresh, IInv, TypeOK
<1>5. Sessions'
  BY DEF IInv, Sessions
<1>6. OneRefresh'
  BY <1>4 DEF IInv, OneRefresh, Refreshing
<1>7. Due'
  BY <1>3 DEF Due
<1> QED
  BY <1>2, <1>5, <1>6, <1>7 DEF IInv

LEMMA EventInv ==
  ASSUME IInv, NEW version \in events, handleEvent(version)
  PROVE  IInv'
<1>1. events' \subseteq Nat
  BY DEF handleEvent, IInv, TypeOK
<1>2. UNCHANGED <<phase, queueVars, candidates, workspaces, view, subscription, reconnect_timer,
                  world, since, wire, session, request>>
  BY DEF handleEvent, socketVars
<1>3. scheduleRefresh
  BY DEF handleEvent
<1> QED
  BY <1>1, <1>2, <1>3, ScheduleInv

(* The steps of the sockets that run no command and show nothing; what was    *)
(* announced on the subscription and not read stays so.                       *)
LEMMA SocketInv ==
  ASSUME IInv,
         connectSockets \/ subscriptionConnected \/ connectionRejected \/ subscriptionAccepted
  PROVE  IInv'
<1>1. UNCHANGED <<refresh_dirty, refresh_timer, queueVars, candidates, workspaces, view,
                  swayVars, wire, session>>
  BY DEF connectSockets, subscriptionConnected, connectionRejected, subscriptionAccepted
<1>2. phase' = phase
  BY DEF connectSockets, subscriptionConnected, connectionRejected, subscriptionAccepted, IInv,
     Sessions
<1>3. request' \in RequestStates /\ subscription' \in SubscriptionStates
  BY DEF connectSockets, subscriptionConnected, connectionRejected, subscriptionAccepted, IInv,
     TypeOK, RequestStates, SubscriptionStates, Up, Subscribed
<1>4. reconnect_timer' \in {FALSE, reconnect_timer}
  BY DEF connectSockets, subscriptionConnected, connectionRejected, subscriptionAccepted
<1>5. reconnect_timer' \in BOOLEAN
  BY <1>4, Zenon DEF IInv, TypeOK
<1>6. TypeOK'
  BY <1>1, <1>2, <1>3, <1>5 DEF queueVars, swayVars, IInv, TypeOK
<1>7. /\ request' # "Connected" => request # "Connected"
      /\ reconnect_timer' => request' = "Unconnected"
  BY DEF connectSockets, subscriptionConnected, connectionRejected, subscriptionAccepted, IInv,
     Sessions
<1>8. Sessions' /\ OneRefresh'
  BY <1>1, <1>2, <1>7 DEF IInv, Sessions, OneRefresh
<1>9. Heard' => Heard
  BY <1>1 DEF connectSockets, subscriptionConnected, connectionRejected, subscriptionAccepted,
     swayVars, Heard, Subscribed
<1>10. Due => Due'
  BY <1>1, <1>2 DEF swayVars, Due
<1> QED
  BY <1>6, <1>8, <1>9, <1>10 DEF IInv

LEMMA ConnectedInv == IInv /\ requestConnected => IInv'
<1> SUFFICES ASSUME IInv, requestConnected PROVE IInv'
  OBVIOUS
<1>1. events' \subseteq Nat
  BY DEF requestConnected, swayVars, IInv, TypeOK
<1> QED
  BY <1>1, ScheduleInv DEF requestConnected, swayVars

-----------------------------------------------------------------------------
(* Refreshes and answers.                                                    *)

(* A command is sent in a session, by a step that changes nothing of Sway     *)
(* and leaves nothing to a refresh that it does not do.                        *)
LEMMA CommandInv ==
  ASSUME IInv, request = "Connected", NEW next \in Phases \ {"Idle"}, NEW command \in Commands,
         Sent(next, command), workspaces' \in Nat,
         refresh_timer' \in BOOLEAN, refresh_dirty' \in BOOLEAN, next \in Refreshing => ~refresh_timer',
         pending_activation' \in Activations \cup {None}, pending_window' \in Windows \cup {None},
         UNCHANGED <<candidates, view, socketVars, swayVars, session>>,
         Heard => \/ next \in {"Workspaces"} \cup Activating
                  \/ refresh_dirty' \/ workspaces' >= world
  PROVE  IInv'
<1>1. phase' = next /\ wire' \in Message /\ wire'.answered = FALSE
  BY SentOnWire
<1>2. TypeOK'
  BY <1>1 DEF socketVars, swayVars, IInv, TypeOK
<1>3. Sessions' /\ OneRefresh'
  BY <1>1 DEF socketVars, IInv, Sessions, OneRefresh
<1>4. Heard' => Due'
  BY <1>1 DEF socketVars, swayVars, Heard, Due, Phases, Refreshing, Activating
<1> QED
  BY <1>2, <1>3, <1>4 DEF IInv

LEMMA BeginInv == IInv /\ beginRefresh => IInv'
<1> SUFFICES ASSUME IInv, beginRefresh PROVE IInv'
  OBVIOUS
<1>1. CASE request # "Connected" \/ phase # "Idle"
  <2>1. /\ refresh_timer' = FALSE
        /\ UNCHANGED <<phase, refresh_dirty, queueVars, candidates, workspaces, view, socketVars,
                       swayVars, wire, session>>
    BY <1>1 DEF beginRefresh
  <2>2. TypeOK'
    BY <2>1 DEF queueVars, socketVars, swayVars, IInv, TypeOK
  <2>3. Sessions' /\ OneRefresh'
    BY <2>1 DEF socketVars, IInv, Sessions, OneRefresh
  <2>4. phase \in Activating \/ (phase = "Idle" /\ ~view.connected)
    <3>1. phase \notin Refreshing
      BY DEF beginRefresh, IInv, OneRefresh
    <3> QED
      BY <1>1, <3>1 DEF IInv, TypeOK, Phases, Sessions
  <2>5. Due'
    BY <2>1, <2>4 DEF Due
  <2> QED
    BY <2>2, <2>3, <2>5 DEF IInv
<1>2. CASE /\ request = "Connected" /\ Sent("Workspaces", "GET_WORKSPACES")
           /\ refresh_timer' = FALSE /\ refresh_dirty' = FALSE /\ workspaces' = 0
           /\ UNCHANGED <<queueVars, candidates, view, socketVars, swayVars, session>>
  <2>1. "Workspaces" \in Phases \ {"Idle"} /\ "GET_WORKSPACES" \in Commands
    BY DEF Phases, Refreshing, Commands
  <2>2. /\ pending_activation' \in Activations \cup {None}
        /\ pending_window' \in Windows \cup {None}
    BY <1>2 DEF queueVars, IInv, TypeOK
  <2>3. UNCHANGED <<candidates, view, socketVars, swayVars, session>>
    BY <1>2
  <2> QED
    BY <1>2, <2>1, <2>2, <2>3, CommandInv
<1>3. CASE disconnectSession /\ refresh_timer' = FALSE
  BY <1>3, EndInv
<1> QED
  BY <1>1, <1>2, <1>3 DEF beginRefresh

LEMMA FrameInv ==
  ASSUME IInv, NEW bad \in BOOLEAN, handleRequestFrame(bad)
  PROVE  IInv'
<1>1. /\ wire \in Message /\ wire.answered /\ wire.world \in Nat
      /\ phase # "Idle" /\ request = "Connected"
  BY DEF handleRequestFrame, Answered, IInv, Sessions, Message
<1>2. ASSUME phase \in Refreshing, NEW next \in Refreshing, NEW command \in Commands,
             NEW read \in Nat, Continue(next, command, read),
             Heard => refresh_dirty \/ read >= world
      PROVE  IInv'
  <2>1. refresh_timer' = refresh_timer /\ ~refresh_timer
    BY <1>2 DEF Continue, IInv, OneRefresh
  <2>2. refresh_timer' \in BOOLEAN
    BY <2>1 DEF IInv, TypeOK
  <2>3. CASE /\ Sent(next, command) /\ workspaces' = read
             /\ UNCHANGED <<refresh_dirty, queueVars, candidates, view, socketVars, swayVars, session>>
    <3>1. next \in Phases \ {"Idle"}
      BY DEF Phases, Refreshing
    <3>2. /\ pending_activation' \in Activations \cup {None}
          /\ pending_window' \in Windows \cup {None} /\ refresh_dirty' \in BOOLEAN
      BY <2>3 DEF queueVars, IInv, TypeOK
    <3>3. UNCHANGED <<candidates, view, socketVars, swayVars, session>> /\ refresh_dirty' = refresh_dirty
      BY <2>3
    <3>4. Heard => refresh_dirty' \/ workspaces' >= world
      BY <1>2, <2>3
    <3> QED
      BY <1>1, <2>1, <2>2, <2>3, <3>1, <3>2, <3>3, <3>4, CommandInv
  <2>4. CASE disconnectSession
    BY <2>2, <2>4, EndInv
  <2> QED
    BY <1>2, <2>3, <2>4 DEF Continue
<1>3. CASE phase = "Workspaces"
  <2>1. Continue("Outputs", "GET_OUTPUTS", wire.world)
    BY <1>3 DEF handleRequestFrame
  <2>2. Heard => refresh_dirty \/ wire.world >= world
    BY <1>1, <1>3 DEF IInv, Due, OneRefresh, Refreshing, Activating
  <2> QED
    BY <1>1, <1>2, <1>3, <2>1, <2>2 DEF Refreshing, Commands
<1>4. CASE phase = "Outputs"
  <2>1. Continue("Tree", "GET_TREE", workspaces)
    BY <1>4 DEF handleRequestFrame
  <2>2. Heard => refresh_dirty \/ workspaces >= world
    BY <1>4 DEF IInv, Due, OneRefresh, Refreshing, Activating
  <2>3. workspaces \in Nat
    BY DEF IInv, TypeOK
  <2> QED
    BY <1>2, <1>4, <2>1, <2>2, <2>3 DEF Refreshing, Commands
<1>5. CASE phase = "Tree"
  <2> DEFINE shown == IF bad THEN Unavailable
                      ELSE [connected |-> TRUE, workspaces |-> workspaces, windows |-> wire.world,
                            session |-> session]
  <2>1. finishRefresh(wire.world, bad)
    BY <1>5 DEF handleRequestFrame
  <2>2. /\ drainWork(refresh_dirty, shown, 0) /\ candidates' \subseteq Windows
        /\ UNCHANGED <<workspaces, socketVars, swayVars, session>>
    BY <2>1 DEF finishRefresh, IInv, TypeOK
  <2>3. shown \in Snapshot /\ refresh_dirty \in BOOLEAN
    BY <1>1, UnavailableIsDisconnected DEF IInv, TypeOK, Snapshot
  <2>4. (Heard /\ ~refresh_dirty) => workspaces >= world
    BY <1>5 DEF IInv, Due, OneRefresh, Refreshing, Activating
  <2>5. (Heard /\ ~refresh_dirty /\ shown.connected) => shown.workspaces >= world
    BY <2>4, UnavailableIsDisconnected
  <2> QED
    BY <1>1, <2>2, <2>3, <2>5, DrainInv
<1>6. CASE phase \in Activating
  <2> DEFINE shown == IF bad THEN Unavailable ELSE view
  <2>1. finishActivation(bad)
    BY <1>6 DEF handleRequestFrame, Activating
  <2>2. /\ drainWork(TRUE, shown, 0) /\ candidates' \subseteq Windows
        /\ UNCHANGED <<workspaces, socketVars, swayVars, session>>
    BY <2>1 DEF finishActivation, IInv, TypeOK
  <2>3. shown \in Snapshot
    BY UnavailableIsDisconnected DEF IInv, TypeOK
  <2> QED
    BY <1>1, <2>2, <2>3, DrainInv
<1> QED
  BY <1>1, <1>3, <1>4, <1>5, <1>6 DEF IInv, TypeOK, Phases, Refreshing

LEMMA LossInv == IInv /\ (disconnected \/ badData) => IInv'
<1> SUFFICES ASSUME IInv, disconnected \/ badData PROVE IInv'
  OBVIOUS
<1>1. disconnectSession /\ refresh_timer' = refresh_timer
  BY DEF disconnected, badData
<1>2. refresh_timer' \in BOOLEAN
  BY <1>1 DEF IInv, TypeOK
<1> QED
  BY <1>1, <1>2, EndInv

-----------------------------------------------------------------------------
(* Consumers and Sway.                                                       *)

LEMMA WorkspaceInv ==
  ASSUME IInv, NEW activation \in Activations, activateWorkspace(activation)
  PROVE  IInv'
<1>1. /\ request = "Connected" /\ candidates' \subseteq Windows /\ candidates' = candidates
      /\ UNCHANGED <<workspaces, socketVars, swayVars, session>>
  BY DEF activateWorkspace, IInv, TypeOK
<1>2. CASE /\ phase # "Idle" /\ pending_activation' = activation
           /\ UNCHANGED <<phase, wire, view, refresh_dirty, refresh_timer, pending_window>>
  <2>1. TypeOK'
    BY <1>1, <1>2 DEF socketVars, swayVars, IInv, TypeOK
  <2>2. Sessions' /\ OneRefresh'
    BY <1>1, <1>2 DEF socketVars, IInv, Sessions, OneRefresh
  <2>3. Heard' => Due'
    BY <1>1, <1>2 DEF socketVars, swayVars, IInv, Heard, Due
  <2> QED
    BY <2>1, <2>2, <2>3 DEF IInv
<1>3. CASE /\ phase = "Idle" /\ Sent("WorkspaceActivation", activation)
           /\ UNCHANGED <<view, refresh_dirty, refresh_timer, queueVars>>
  <2>1. activation \in Commands /\ "WorkspaceActivation" \in (Phases \cap Activating) \ {"Idle"}
    BY DEF Commands, Phases, Activating
  <2>2. /\ pending_activation' \in Activations \cup {None} /\ workspaces' \in Nat
        /\ pending_window' \in Windows \cup {None}
        /\ refresh_dirty' \in BOOLEAN /\ refresh_timer' \in BOOLEAN
    BY <1>1, <1>3 DEF queueVars, IInv, TypeOK
  <2>3. UNCHANGED <<candidates, view, socketVars, swayVars, session>>
    BY <1>1, <1>3
  <2>4. "WorkspaceActivation" \notin Refreshing
    BY DEF Refreshing
  <2> QED
    BY <1>1, <1>3, <2>1, <2>2, <2>3, <2>4, CommandInv
<1>4. CASE drainWork(TRUE, Unavailable, 1)
  BY <1>1, <1>4, UnavailableIsDisconnected, DrainInv
<1> QED
  BY <1>2, <1>3, <1>4 DEF activateWorkspace

LEMMA WindowInv ==
  ASSUME IInv, NEW window \in Windows, requestWindowActivation(window)
  PROVE  IInv'
<1>1. /\ request = "Connected"
      /\ UNCHANGED <<refresh_dirty, pending_activation, candidates, workspaces, socketVars,
                     swayVars, session>>
  BY DEF requestWindowActivation
<1>2. CASE /\ phase # "Idle" /\ pending_window' = window
           /\ UNCHANGED <<phase, wire, view, refresh_timer>>
  <2>1. TypeOK'
    BY <1>1, <1>2 DEF socketVars, swayVars, IInv, TypeOK
  <2>2. Sessions' /\ OneRefresh'
    BY <1>1, <1>2 DEF socketVars, IInv, Sessions, OneRefresh
  <2>3. Heard' => Due'
    BY <1>1, <1>2 DEF socketVars, swayVars, IInv, Heard, Due
  <2> QED
    BY <2>1, <2>2, <2>3 DEF IInv
<1>3. CASE /\ phase = "Idle" /\ Sent("WindowActivation", window)
           /\ UNCHANGED <<view, refresh_timer, pending_window>>
  <2>1. window \in Commands /\ "WindowActivation" \in (Phases \cap Activating) \ {"Idle"}
    BY DEF Commands, Phases, Activating
  <2>2. /\ pending_activation' \in Activations \cup {None} /\ workspaces' \in Nat
        /\ pending_window' \in Windows \cup {None}
        /\ refresh_dirty' \in BOOLEAN /\ refresh_timer' \in BOOLEAN
    BY <1>1, <1>3 DEF IInv, TypeOK
  <2>3. UNCHANGED <<candidates, view, socketVars, swayVars, session>>
    BY <1>1, <1>3
  <2>4. "WindowActivation" \notin Refreshing
    BY DEF Refreshing
  <2> QED
    BY <1>1, <1>3, <2>1, <2>2, <2>3, <2>4, CommandInv
<1>4. CASE /\ Idle /\ view' = Unavailable /\ refresh_timer' = TRUE
           /\ UNCHANGED pending_window
  <2>1. TypeOK'
    BY <1>1, <1>4, UnavailableIsDisconnected DEF Idle, socketVars, swayVars, IInv, TypeOK, Phases
  <2>2. Sessions' /\ OneRefresh' /\ Due'
    BY <1>1, <1>4, UnavailableIsDisconnected DEF Idle, socketVars, IInv, Sessions, OneRefresh,
       Refreshing, Due
  <2> QED
    BY <2>1, <2>2 DEF IInv
<1> QED
  BY <1>2, <1>3, <1>4 DEF requestWindowActivation

LEMMA AnswersInv == IInv /\ SwayAnswers => IInv'
<1> SUFFICES ASSUME IInv, SwayAnswers PROVE IInv'
  OBVIOUS
<1>1. UNCHANGED <<phase, refresh_dirty, refresh_timer, reconnect_timer, queueVars, candidates,
                  workspaces, view, request, session, subscription, swayVars>>
  BY DEF SwayAnswers, backendVars
<1>2. phase # "Idle" /\ wire \in Message
  BY DEF SwayAnswers, IInv, Sessions
<1>3. wire' \in Message /\ wire'.world = world
  BY <1>2 DEF SwayAnswers, IInv, TypeOK, Message
<1>4. TypeOK'
  BY <1>1, <1>3 DEF queueVars, swayVars, IInv, TypeOK
<1>5. Sessions' /\ OneRefresh'
  BY <1>1, <1>2, <1>3 DEF IInv, Sessions, OneRefresh
<1>6. Heard' => Due'
  BY <1>1, <1>3 DEF swayVars, IInv, TypeOK, Heard, Due
<1> QED
  BY <1>4, <1>5, <1>6 DEF IInv

(* Nothing of what Sway accepts or changes has been announced and read.      *)
LEMMA UnheardInv ==
  ASSUME IInv, SwaySubscribes \/ Change
  PROVE  IInv'
<1>1. UNCHANGED <<phase, refresh_dirty, refresh_timer, reconnect_timer, queueVars, candidates,
                  workspaces, view, request, session, wire>>
  BY DEF SwaySubscribes, Change, backendVars
<1>2. /\ subscription' \in SubscriptionStates /\ since' \in Nat /\ world' \in Nat
      /\ events' \subseteq Nat
  <2>1. CASE SwaySubscribes
    BY <2>1 DEF SwaySubscribes, IInv, TypeOK, SubscriptionStates, Up, Subscribed
  <2>2. CASE Change
    <3>1. world + 1 \in Nat
      BY DEF IInv, TypeOK
    <3>2. events' \in {events, events \cup {world + 1}}
      BY <2>2 DEF Change
    <3> QED
      BY <2>2, <3>1, <3>2 DEF Change, IInv, TypeOK
  <2> QED
    BY <2>1, <2>2
<1>3. TypeOK'
  BY <1>1, <1>2 DEF queueVars, IInv, TypeOK
<1>4. Sessions' /\ OneRefresh'
  BY <1>1 DEF IInv, Sessions, OneRefresh
<1>5. ~Heard'
  BY DEF SwaySubscribes, Change, Heard
<1> QED
  BY <1>3, <1>4, <1>5 DEF IInv

LEMMA StutterInv == IInv /\ UNCHANGED vars => IInv'
<1> SUFFICES ASSUME IInv, UNCHANGED vars PROVE IInv'
  OBVIOUS
<1>1. TypeOK'
  BY DEF vars, queueVars, IInv, TypeOK
<1>2. Sessions' /\ OneRefresh'
  BY DEF vars, IInv, Sessions, OneRefresh
<1>3. Heard' => Due'
  BY DEF vars, IInv, Heard, Due
<1> QED
  BY <1>1, <1>2, <1>3 DEF IInv

(* The invariant that explains QuietShowsSway: from the event on, through     *)
(* refreshes that began before it, activations in between and timers that     *)
(* fire in vain, something is due that shows the change (scheduleRefresh(),   *)
(* beginRefresh() and drainWork() of SwayBackend.cpp).                         *)
THEOREM SwayInvariant == Spec => []IInv
<1>1. Init => IInv
  BY InitInv
<1>2. IInv /\ [Next]_vars => IInv'
  <2> SUFFICES ASSUME IInv, [Next]_vars PROVE IInv'
    OBVIOUS
  <2>1. CASE connectSockets \/ subscriptionConnected \/ connectionRejected \/ subscriptionAccepted
    BY <2>1, SocketInv
  <2>2. CASE requestConnected \/ beginRefresh \/ disconnected \/ badData
    BY <2>2, ConnectedInv, BeginInv, LossInv
  <2>3. CASE \E bad \in BOOLEAN : handleRequestFrame(bad)
    BY <2>3, FrameInv
  <2>4. CASE \E version \in events : handleEvent(version)
    BY <2>4, EventInv
  <2>5. CASE \E activation \in Workspaces \cup Slots : activateWorkspace(activation)
    BY <2>5, WorkspaceInv DEF Activations
  <2>6. CASE \E window \in Windows : requestWindowActivation(window)
    BY <2>6, WindowInv
  <2>7. CASE SwayAnswers \/ SwaySubscribes \/ Change
    BY <2>7, AnswersInv, UnheardInv
  <2>8. CASE UNCHANGED vars
    BY <2>8, StutterInv
  <2> QED
    BY <2>1, <2>2, <2>3, <2>4, <2>5, <2>6, <2>7, <2>8 DEF Next
<1> QED
  BY <1>1, <1>2, PTL DEF Spec

(* The state of the backend, of its sockets and of what is on the way keeps   *)
(* its types: among others, every command on the request socket is a query    *)
(* of a refresh or an activation that a consumer asked for.                   *)
THEOREM TypeCorrect == Spec => []TypeOK
<1>1. IInv => TypeOK
  BY DEF IInv
<1> QED
  BY <1>1, SwayInvariant, PTL

(* When all is quiet, the snapshot shown is no older than Sway, except for    *)
(* what changed before Sway accepted the subscription.                        *)
THEOREM QuietIsCurrent == Spec => []QuietShowsSway
<1>1. IInv => QuietShowsSway
  <2> SUFFICES ASSUME IInv, Quiet, view.connected, world # since
               PROVE  view.workspaces >= world
    BY DEF QuietShowsSway
  <2>1. Heard
    BY DEF Quiet, Heard, Subscribed
  <2>2. Due
    BY <2>1 DEF IInv
  <2> QED
    BY <2>2 DEF Quiet, Due, Activating
<1> QED
  BY <1>1, SwayInvariant, PTL

-----------------------------------------------------------------------------
(* Activations that wait.                                                     *)

(* What QueuedActivationsServed says of a step.                               *)
WindowServed ==
  (pending_window # None /\ pending_window' # pending_window) =>
    /\ pending_window' = None
    /\ Activated(pending_window, "WindowActivation") \/ ~view'.connected

WorkspaceServed ==
  (pending_activation # None /\ pending_activation' = None) =>
    \/ Activated(pending_activation, "WorkspaceActivation") \/ ~view'.connected
    \/ ~Dispatchable(pending_activation, view')

LEMMA DrainServes ==
  ASSUME NEW owed, NEW shown, NEW failed, drainWork(owed, shown, failed)
  PROVE  WindowServed /\ WorkspaceServed
<1>1. WindowServed
  BY UnavailableIsDisconnected DEF drainWork, Sent, Activated, WindowServed
<1>2. WorkspaceServed
  BY UnavailableIsDisconnected DEF drainWork, Sent, Activated, WorkspaceServed
<1> QED
  BY <1>1, <1>2

LEMMA EndServes == disconnectSession => WindowServed /\ WorkspaceServed
BY UnavailableIsDisconnected DEF disconnectSession, WindowServed, WorkspaceServed

LEMMA KeptIsServed == UNCHANGED queueVars => WindowServed /\ WorkspaceServed
BY DEF queueVars, WindowServed, WorkspaceServed

(* A window that waits is activated, or the consumer is shown an unavailable  *)
(* snapshot; a workspace that waits is activated, gives way to a later one, or *)
(* is no longer listed: drainWork() and disconnectSession() forget neither.   *)
THEOREM QueueServed == Spec => QueuedActivationsServed
<1>1. ASSUME Next PROVE WindowServed /\ WorkspaceServed
  <2>1. CASE UNCHANGED queueVars
    BY <2>1, KeptIsServed
  <2>2. CASE disconnectSession
    BY <2>2, EndServes
  <2>3. ASSUME NEW owed, NEW shown, NEW failed, drainWork(owed, shown, failed)
        PROVE  WindowServed /\ WorkspaceServed
    BY <2>3, DrainServes
  <2>4. ASSUME NEW next, NEW command, NEW read, Continue(next, command, read)
        PROVE  UNCHANGED queueVars \/ disconnectSession
    BY <2>4 DEF Continue
  <2>5. ASSUME NEW bad \in BOOLEAN, handleRequestFrame(bad)
        PROVE  WindowServed /\ WorkspaceServed
    <3>1. \/ \E next, command, read : Continue(next, command, read)
          \/ finishRefresh(wire.world, bad) \/ finishActivation(bad)
      BY <2>5 DEF handleRequestFrame
    <3> QED
      BY <2>1, <2>2, <2>3, <2>4, <3>1 DEF finishRefresh, finishActivation
  <2>6. ASSUME NEW activation \in Workspaces \cup Slots, activateWorkspace(activation)
        PROVE  WindowServed /\ WorkspaceServed
    <3>1. CASE pending_activation' = activation /\ UNCHANGED pending_window
      BY <3>1, SwayConstants DEF WindowServed, WorkspaceServed
    <3>2. CASE drainWork(TRUE, Unavailable, 1)
      BY <2>3, <3>2
    <3> QED
      BY <2>1, <2>6, <3>1, <3>2 DEF activateWorkspace
  <2>7. ASSUME NEW window \in Windows, requestWindowActivation(window)
        PROVE  WindowServed /\ WorkspaceServed
    <3>1. UNCHANGED pending_activation /\ (pending_window # None => UNCHANGED pending_window)
      BY <2>7 DEF requestWindowActivation
    <3> QED
      BY <3>1 DEF WindowServed, WorkspaceServed
  <2>8. CASE connectSockets \/ requestConnected \/ subscriptionConnected \/ connectionRejected
             \/ subscriptionAccepted
    BY <2>1, <2>8 DEF connectSockets, requestConnected, subscriptionConnected,
       connectionRejected, subscriptionAccepted
  <2>9. CASE beginRefresh \/ disconnected \/ badData
    BY <2>1, <2>2, <2>9 DEF beginRefresh, disconnected, badData
  <2>10. ASSUME NEW version \in events, handleEvent(version)
         PROVE  WindowServed /\ WorkspaceServed
    BY <2>1, <2>10 DEF handleEvent
  <2>11. CASE SwayAnswers \/ SwaySubscribes \/ Change
    BY <2>1, <2>11 DEF SwayAnswers, SwaySubscribes, Change, backendVars
  <2> QED
    BY <1>1, <2>5, <2>6, <2>7, <2>8, <2>9, <2>10, <2>11 DEF Next
<1>2. [Next]_vars => [WindowServed /\ WorkspaceServed]_vars
  BY <1>1
<1> QED
  BY <1>2, PTL DEF Spec, QueuedActivationsServed, WindowServed, WorkspaceServed

=============================================================================
