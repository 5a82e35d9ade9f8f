---------------------------- MODULE HyprlandProofs ----------------------------
(***************************************************************************)
(* Coalescing loses no event, nothing of an earlier session is published,  *)
(* and the queued window is served: the safety properties of               *)
(* HyprlandBackend, for any workspaces, windows and bounds.                *)
(*                                                                         *)
(* The properties speak of the moments at which nothing runs.  The         *)
(* invariant carries them through the moments at which something does: a   *)
(* refresh in progress belongs to the present session, and unless the      *)
(* dirty flag is set it began after the last event; and a command left     *)
(* over from an earlier session hides behind an unavailable snapshot.      *)
(*                                                                         *)
(* Below it, HyprlandIpcClient: each command is finished once, and the     *)
(* event stream is never left without a timer that pursues it.             *)
(***************************************************************************)
EXTENDS HyprlandBackend, HyprlandIpcClient, TLAPS

Refreshing == {"Monitors", "Workspaces", "Clients"}
Phases == {"Idle"} \cup Refreshing \cup Activating
Snapshot == [connected : BOOLEAN, world : Nat, session : Nat]

Types ==
  /\ phase \in Phases /\ running \in BOOLEAN /\ stream \in BOOLEAN
  /\ refresh_dirty \in BOOLEAN /\ refresh_scheduled \in BOOLEAN
  /\ view \in Snapshot
  /\ began \in [world : Nat, session : Nat]
  /\ world \in Nat /\ heard \in Nat /\ session \in Nat /\ lines \subseteq Nat

(* No event is from the future. *)
Past == heard <= world /\ \A line \in lines : line <= world

(* A refresh in progress. *)
Begun ==
  phase \in Refreshing =>
    /\ began.session = session
    /\ ~refresh_dirty => began.world >= heard

(* What runs in no phase is a command of an earlier session. *)
LeftOver == (phase = "Idle" /\ running) => ~view.connected

IInv == Types /\ Past /\ Begun /\ LeftOver /\ ShownIsCurrentSession /\ CoalescingLosesNothing

-----------------------------------------------------------------------------
LEMMA InitInv == Init => IInv
<1> SUFFICES ASSUME Init PROVE IInv
  OBVIOUS
<1>1. Unavailable \in Snapshot /\ ~Unavailable.connected
  BY DEF Unavailable, Snapshot
<1>2. Types /\ Past
  <2>1. phase \in Phases /\ view \in Snapshot /\ lines \subseteq Nat
    BY <1>1 DEF Init, Phases
  <2>2. began \in [world : Nat, session : Nat]
    BY DEF Init
  <2>3. \A line \in lines : line <= world
    BY DEF Init
  <2>4. /\ running \in BOOLEAN /\ stream \in BOOLEAN
        /\ refresh_dirty \in BOOLEAN /\ refresh_scheduled \in BOOLEAN
    BY Zenon DEF Init
  <2>5. world \in Nat /\ heard \in Nat /\ session \in Nat /\ heard <= world
    BY DEF Init
  <2> QED
    BY <2>1, <2>2, <2>3, <2>4, <2>5 DEF Types, Past
<1>3. Begun /\ LeftOver
  BY DEF Init, Begun, Refreshing, LeftOver
<1>4. ShownIsCurrentSession /\ CoalescingLosesNothing
  BY <1>1 DEF Init, ShownIsCurrentSession, CoalescingLosesNothing
<1> QED
  BY <1>2, <1>3, <1>4 DEF IInv

(* drainWork() after a snapshot that is up to date, or that is older and the  *)
(* refresh owed.                                                              *)
LEMMA DrainInv ==
  ASSUME IInv, NEW owed \in BOOLEAN, NEW shown \in Snapshot, drainWork(owed, shown),
         shown.connected => shown.session = session /\ (~owed => shown.world >= heard),
         UNCHANGED <<worldVars, historyVars>>
  PROVE  IInv'
<1>1. Unavailable \in Snapshot /\ ~Unavailable.connected
  BY DEF Unavailable, Snapshot
<1>2. /\ phase' \in {"Idle"} \cup Activating /\ running' = (phase' # "Idle")
      /\ refresh_dirty' \in BOOLEAN /\ refresh_scheduled' \in BOOLEAN
      /\ view' \in {shown, Unavailable}
      /\ (view'.connected /\ ~running' /\ ~refresh_dirty') => ~owed
  BY <1>1 DEF drainWork, Accepted, Refused, Activating, IInv, Types
<1>3. UNCHANGED <<stream, world, lines, began, heard, session>>
  BY DEF worldVars, historyVars
<1>4. Types' /\ Past'
  BY <1>1, <1>2, <1>3 DEF IInv, Types, Phases, Past
<1>5. Begun' /\ LeftOver'
  BY <1>2 DEF Begun, LeftOver, Refreshing, Activating
<1>6. ShownIsCurrentSession' /\ CoalescingLosesNothing'
  BY <1>1, <1>2, <1>3 DEF ShownIsCurrentSession, CoalescingLosesNothing, Busy
<1> QED
  BY <1>4, <1>5, <1>6 DEF IInv

(* The next command of a sequence. *)
LEMMA ContinueInv ==
  ASSUME IInv, NEW next \in Phases \ {"Idle"}, Continue(next),
         next \in Refreshing => phase \in Refreshing,
         UNCHANGED <<worldVars, historyVars>>
  PROVE  IInv'
<1>1. Unavailable \in Snapshot /\ ~Unavailable.connected
  BY DEF Unavailable, Snapshot
<1>2. UNCHANGED <<stream, world, lines, began, heard, session, refresh_dirty, refresh_scheduled>>
  BY DEF worldVars, historyVars, Continue
<1>3. CASE phase' = next /\ running' = TRUE /\ view' = view
  BY <1>2, <1>3 DEF IInv, Types, Past, Begun, LeftOver, ShownIsCurrentSession,
     CoalescingLosesNothing, Busy
<1>4. CASE phase' = "Idle" /\ running' = FALSE /\ view' = Unavailable
  BY <1>1, <1>2, <1>4 DEF IInv, Types, Phases, Past, Begun, Refreshing, LeftOver,
     ShownIsCurrentSession, CoalescingLosesNothing
<1> QED
  BY <1>3, <1>4 DEF Continue, Accepted, Refused

-----------------------------------------------------------------------------
(* One lemma for each handler.                                                *)

LEMMA BeginInv == IInv /\ beginRefresh => IInv'
<1> SUFFICES ASSUME IInv, beginRefresh PROVE IInv'
  OBVIOUS
<1>1. Unavailable \in Snapshot /\ ~Unavailable.connected
  BY DEF Unavailable, Snapshot
<1>2. UNCHANGED <<stream, world, lines, heard, session>> /\ refresh_scheduled' = FALSE
  BY DEF beginRefresh, worldVars
<1>3. CASE refresh_dirty' = TRUE /\ UNCHANGED <<phase, running, view, began>>
  BY <1>2, <1>3 DEF IInv, Types, Past, Begun, LeftOver, ShownIsCurrentSession,
     CoalescingLosesNothing
<1>4. CASE /\ refresh_dirty' = FALSE /\ began' = [world |-> world, session |-> session]
           /\ phase' = "Monitors" /\ running' = TRUE /\ view' = view
  BY <1>2, <1>4 DEF IInv, Types, Phases, Past, Begun, Refreshing, LeftOver,
     ShownIsCurrentSession, CoalescingLosesNothing, Busy
<1>5. CASE /\ refresh_dirty' = FALSE /\ began' = [world |-> world, session |-> session]
           /\ phase' = "Idle" /\ running' = FALSE /\ view' = Unavailable
  BY <1>1, <1>2, <1>5 DEF IInv, Types, Phases, Past, Begun, Refreshing, LeftOver,
     ShownIsCurrentSession, CoalescingLosesNothing
<1> QED
  BY <1>3, <1>4, <1>5 DEF beginRefresh, Accepted, Refused

(* scheduleRefresh() after the stream was connected or an event read: a busy *)
(* sequencer has its dirty flag set, an idle one its timer.                   *)
LEMMA ScheduledInv ==
  ASSUME IInv, scheduleRefresh, UNCHANGED <<phase, running, view, world, began, session>>,
         stream' \in BOOLEAN, lines' \subseteq Nat, \A line \in lines' : line <= world,
         heard' \in Nat, heard' <= world
  PROVE  IInv'
<1>1. /\ refresh_dirty' \in BOOLEAN /\ refresh_scheduled' \in BOOLEAN
      /\ Busy => refresh_dirty'
      /\ ~Busy => refresh_scheduled'
  <2>1. CASE Busy
    BY <2>1 DEF scheduleRefresh, IInv, Types
  <2>2. CASE ~Busy
    BY <2>2 DEF scheduleRefresh, IInv, Types
  <2> QED
    BY <2>1, <2>2
<1>2. Types' /\ Past'
  BY <1>1 DEF IInv, Types, Past
<1>3. Begun' /\ LeftOver'
  BY <1>1 DEF IInv, Types, Busy, Begun, Refreshing, LeftOver
<1>4. ShownIsCurrentSession' /\ CoalescingLosesNothing'
  BY <1>1 DEF IInv, Busy, ShownIsCurrentSession, CoalescingLosesNothing
<1> QED
  BY <1>2, <1>3, <1>4 DEF IInv

LEMMA ConnectedInv == IInv /\ eventStreamConnected => IInv'
<1> SUFFICES ASSUME IInv, eventStreamConnected PROVE IInv'
  OBVIOUS
<1>1. /\ scheduleRefresh /\ UNCHANGED <<phase, running, view, world, began, session>>
      /\ stream' = TRUE /\ lines' = {} /\ heard' = world
  BY DEF eventStreamConnected
<1>2. world \in Nat
  BY DEF IInv, Types
<1> QED
  BY <1>1, <1>2, ScheduledInv

LEMMA DisconnectedInv == IInv /\ eventStreamDisconnected => IInv'
<1> SUFFICES ASSUME IInv, eventStreamDisconnected PROVE IInv'
  OBVIOUS
<1>1. Unavailable \in Snapshot /\ ~Unavailable.connected
  BY DEF Unavailable, Snapshot
<1>2. /\ stream' = FALSE /\ lines' = {} /\ session' = session + 1
      /\ phase' = "Idle" /\ view' = Unavailable
      /\ UNCHANGED <<refresh_dirty, refresh_scheduled, running, world, began, heard>>
  BY DEF eventStreamDisconnected
<1>3. Types' /\ Past'
  <2>1. phase' \in Phases /\ view' \in Snapshot /\ lines' \subseteq Nat
    BY <1>1, <1>2 DEF Phases
  <2>2. \A line \in lines' : line <= world'
    BY <1>2
  <2>3. /\ running' \in BOOLEAN /\ stream' \in BOOLEAN
        /\ refresh_dirty' \in BOOLEAN /\ refresh_scheduled' \in BOOLEAN
    BY <1>2, Zenon DEF IInv, Types
  <2>4. /\ began' \in [world : Nat, session : Nat]
        /\ world' \in Nat /\ heard' \in Nat /\ session' \in Nat /\ heard' <= world'
    BY <1>2 DEF IInv, Types, Past
  <2> QED
    BY <2>1, <2>2, <2>3, <2>4 DEF Types, Past
<1>4. Begun' /\ LeftOver'
  BY <1>1, <1>2 DEF Begun, Refreshing, LeftOver
<1>5. ShownIsCurrentSession' /\ CoalescingLosesNothing'
  BY <1>1, <1>2 DEF ShownIsCurrentSession, CoalescingLosesNothing
<1> QED
  BY <1>3, <1>4, <1>5 DEF IInv

LEMMA EventInv ==
  ASSUME IInv, NEW line \in lines, handleEvent(line)
  PROVE  IInv'
<1>1. /\ scheduleRefresh /\ UNCHANGED <<phase, running, view, world, began, session, stream>>
      /\ lines' = lines \ {line} /\ heard' = IF line > heard THEN line ELSE heard
  BY DEF handleEvent
<1>2. /\ stream \in BOOLEAN /\ lines \subseteq Nat /\ heard \in Nat /\ heard <= world
      /\ \A l \in lines : l <= world
  BY DEF IInv, Types, Past
<1>3. /\ lines' \subseteq Nat /\ \A l \in lines' : l <= world
      /\ heard' \in Nat /\ heard' <= world
  BY <1>1, <1>2
<1> QED
  BY <1>1, <1>2, <1>3, ScheduledInv

LEMMA SucceededInv ==
  ASSUME IInv, NEW bad \in BOOLEAN, commandSucceeded(bad)
  PROVE  IInv'
<1>1. UNCHANGED <<worldVars, historyVars>> /\ running
  BY DEF commandSucceeded
<1>2. /\ Unavailable \in Snapshot /\ ~Unavailable.connected
      /\ Shown \in Snapshot /\ Shown.session = began.session /\ Shown.world = began.world
  BY DEF Unavailable, Shown, Snapshot, IInv, Types
<1>3. /\ phase \in Phases /\ refresh_dirty \in BOOLEAN /\ view \in Snapshot
      /\ view.connected => view.session = session
  BY DEF IInv, Types, ShownIsCurrentSession
<1>4. CASE phase = "Idle"
  <2>1. /\ running' = FALSE
        /\ UNCHANGED <<phase, refresh_dirty, refresh_scheduled, view, stream, world, lines, began,
                       heard, session>>
    BY <1>1, <1>4 DEF commandSucceeded, worldVars, historyVars
  <2> QED
    BY <1>1, <1>4, <2>1 DEF IInv, Types, Past, Begun, LeftOver, ShownIsCurrentSession,
       CoalescingLosesNothing
<1>5. CASE phase \in {"Monitors", "Workspaces"}
  <2>1. PICK next \in {"Workspaces", "Clients"} : Continue(next)
    BY <1>5 DEF commandSucceeded
  <2> QED
    BY <1>1, <1>5, <2>1, ContinueInv DEF Phases, Refreshing
<1>6. CASE phase = "Clients"
  <2>1. drainWork(refresh_dirty, IF bad THEN Unavailable ELSE Shown)
    BY <1>6 DEF commandSucceeded
  <2>2. began.session = session /\ (~refresh_dirty => began.world >= heard)
    BY <1>6 DEF IInv, Begun, Refreshing
  <2> DEFINE shown == IF bad THEN Unavailable ELSE Shown
  <2>3. /\ shown \in Snapshot
        /\ shown.connected => shown.session = session /\ (~refresh_dirty => shown.world >= heard)
    BY <1>2, <2>2
  <2> QED
    BY <1>1, <1>3, <2>1, <2>3, DrainInv
<1>7. CASE phase \in {"WorkspaceActivation", "WindowActivation"} /\ bad
  <2>1. PICK next \in {"LuaActivation", "LuaWindowActivation"} : Continue(next)
    BY <1>7 DEF commandSucceeded
  <2> QED
    BY <1>1, <2>1, ContinueInv DEF Phases, Refreshing, Activating
<1>8. CASE phase \in Activating /\ ~(phase \in {"WorkspaceActivation", "WindowActivation"} /\ bad)
  <2>1. drainWork(TRUE, IF bad THEN Unavailable ELSE view)
    BY <1>8 DEF commandSucceeded, Activating
  <2> DEFINE shown == IF bad THEN Unavailable ELSE view
  <2>2. shown \in Snapshot /\ (shown.connected => shown.session = session)
    BY <1>2, <1>3
  <2> QED
    BY <1>1, <2>1, <2>2, DrainInv
<1> QED
  BY <1>3, <1>4, <1>5, <1>6, <1>7, <1>8 DEF Phases, Refreshing

LEMMA FailedInv == IInv /\ commandFailed => IInv'
<1> SUFFICES ASSUME IInv, commandFailed PROVE IInv'
  OBVIOUS
<1> DEFINE owed == refresh_dirty \/ phase \in Activating
<1>1. drainWork(owed, Unavailable) /\ UNCHANGED <<worldVars, historyVars>>
  BY DEF commandFailed
<1>2. Unavailable \in Snapshot /\ ~Unavailable.connected /\ owed \in BOOLEAN
  BY DEF Unavailable, Snapshot, IInv, Types
<1> QED
  BY <1>1, <1>2, DrainInv

LEMMA RequestInv ==
  ASSUME IInv, NEW target, activateWorkspace(target) \/ requestWindowActivation(target)
  PROVE  IInv'
<1>1. Unavailable \in Snapshot /\ ~Unavailable.connected
  BY DEF Unavailable, Snapshot
<1>2. UNCHANGED <<stream, world, lines, began, heard, session, refresh_dirty>>
  BY DEF activateWorkspace, requestWindowActivation, worldVars, historyVars
<1>3. CASE UNCHANGED <<phase, running, view, refresh_scheduled>>
  BY <1>2, <1>3 DEF IInv, Types, Past, Begun, LeftOver, ShownIsCurrentSession,
     CoalescingLosesNothing, Busy
<1>4. CASE /\ phase' \in Activating /\ running' = TRUE /\ UNCHANGED <<view, refresh_scheduled>>
  BY <1>2, <1>4 DEF IInv, Types, Phases, Past, Begun, Refreshing, Activating, LeftOver,
     ShownIsCurrentSession, CoalescingLosesNothing, Busy
<1>5. CASE /\ phase' = "Idle" /\ running' = FALSE /\ view' = Unavailable
           /\ refresh_scheduled' \in BOOLEAN
  BY <1>1, <1>2, <1>5 DEF IInv, Types, Phases, Past, Begun, Refreshing, LeftOver,
     ShownIsCurrentSession, CoalescingLosesNothing
<1> QED
  BY <1>3, <1>4, <1>5 DEF activateWorkspace, requestWindowActivation, Accepted, Refused,
     Activating, IInv, Types

LEMMA ChangeInv == IInv /\ Change => IInv'
BY DEF Change, historyVars, Busy, IInv, Types, Past, Begun, LeftOver, ShownIsCurrentSession,
   CoalescingLosesNothing

LEMMA StutterInv == IInv /\ UNCHANGED vars => IInv'
BY DEF vars, queueVars, Busy, IInv, Types, Past, Begun, LeftOver, ShownIsCurrentSession,
   CoalescingLosesNothing

-----------------------------------------------------------------------------
(* What every reachable state satisfies: the phase machine of handleCommand() *)
(* and the flags of scheduleRefresh().                                        *)
THEOREM HyprlandInvariant == Spec => []IInv
<1>1. Init => IInv
  BY InitInv
<1>2. IInv /\ [Next]_vars => IInv'
  BY BeginInv, ConnectedInv, DisconnectedInv, EventInv, SucceededInv, FailedInv, RequestInv,
     ChangeInv, StutterInv DEF Next
<1> QED
  BY <1>1, <1>2, PTL DEF Spec

(* Answers of an earlier session of the event stream are never published,     *)
(* however the stream's losses and the command in progress interleave.        *)
THEOREM CurrentSession == Spec => []ShownIsCurrentSession
<1>1. IInv => ShownIsCurrentSession
  BY DEF IInv
<1> QED
  BY <1>1, HyprlandInvariant, PTL

(* Coalescing of refreshes loses no event, whenever it is read.               *)
THEOREM NoEventLost == Spec => []CoalescingLosesNothing
<1>1. IInv => CoalescingLosesNothing
  BY DEF IInv
<1> QED
  BY <1>1, HyprlandInvariant, PTL

(* The window that waits in pending_window_address_ is activated next or      *)
(* given up openly.                                                           *)
THEOREM WindowServed == Spec => QueuedWindowServed
<1> DEFINE Waits == pending_window_address # None /\ pending_window_address' # pending_window_address
           Served == /\ pending_window_address' = None
                     /\ \/ phase' = "WindowActivation" /\ activation' = pending_window_address
                        \/ ~view'.connected
<1>1. ASSUME NEW owed, NEW shown, drainWork(owed, shown), Waits PROVE Served
  BY <1>1 DEF drainWork, Accepted, Unavailable
<1>2. ASSUME NEW bad, commandSucceeded(bad), Waits PROVE Served
  BY <1>1, <1>2 DEF commandSucceeded, Continue, queueVars
<1>3. commandFailed /\ Waits => Served
  BY <1>1 DEF commandFailed
<1>4. eventStreamDisconnected /\ Waits => Served
  BY DEF eventStreamDisconnected, Unavailable
<1>5. ASSUME NEW target, requestWindowActivation(target) \/ activateWorkspace(target), Waits
      PROVE  Served
  BY <1>5 DEF requestWindowActivation, activateWorkspace
<1>6. ASSUME NEW line, handleEvent(line), Waits PROVE Served
  BY <1>6 DEF handleEvent, queueVars
<1>7. (beginRefresh \/ eventStreamConnected \/ Change \/ UNCHANGED vars) /\ Waits => Served
  BY DEF beginRefresh, eventStreamConnected, Change, vars, queueVars
<1>8. [Next]_vars => [Waits => Served]_vars
  BY <1>2, <1>3, <1>4, <1>5, <1>6, <1>7 DEF Next
<1> QED
  BY <1>8, PTL DEF Spec, QueuedWindowServed

-----------------------------------------------------------------------------
(* The socket client: HyprlandIpcClient.                                     *)

CommandTypes ==
  /\ issued \in 0..MaxCommands
  /\ finished \in [Commands -> Nat]
  /\ timers \subseteq [by : 1..issued, socket : Nat]
  /\ \A t \in timers : t.socket \in {0, t.by}

(* Only the newest command runs, and the timeout that is set is its own.     *)
NewestRuns == command \in {0, issued} /\ (command # 0 => command_timeout = command)

(* Numbers not handed out yet are not finished.                              *)
NotYet == \A n \in Commands : n > issued => finished[n] = 0

CommandInv == CommandTypes /\ NewestRuns /\ NotYet /\ CommandsFinishOnce

StreamTypes ==
  /\ event_socket \in Open \cup {"none", "connecting", "closed"}
  /\ server \in {"up", "full", "down"}
  /\ connect_timeouts \in Nat
  /\ reconnect_delay \in InitialDelay..MaxDelay

(* A stream that is closed has its reconnect timer, and no other stream has  *)
(* one; an attempt that stays open has its connect timer; and the socket is  *)
(* open only as long as Hyprland is there, or the client is about to be told *)
(* otherwise.                                                                *)
StreamPursued ==
  /\ reconnect_scheduled <=> event_socket = "closed"
  /\ event_socket = "connecting" => connect_timeouts > 0
  /\ event_socket = "connected" => server # "down"

StreamInv == StreamTypes /\ StreamPursued

LEMMA DoubledDelay ==
  ASSUME NEW delay \in InitialDelay..MaxDelay
  PROVE  Doubled(delay) \in InitialDelay..MaxDelay
BY ClientConstants DEF Doubled

LEMMA ClientInitInv == ClientInit => CommandInv /\ StreamInv
<1> SUFFICES ASSUME ClientInit PROVE CommandInv /\ StreamInv
  OBVIOUS
<1>1. StreamInv
  BY ClientConstants DEF ClientInit, StreamInv, StreamTypes, StreamPursued
<1>2. CommandInv
  BY ClientConstants
     DEF ClientInit, CommandInv, CommandTypes, NewestRuns, NotYet, CommandsFinishOnce, Commands
<1> QED
  BY <1>1, <1>2

(* An attempt leaves the stream connected, pursued by a connect timer or     *)
(* waiting for the next attempt.                                             *)
LEMMA AttemptInv ==
  ASSUME StreamInv, Attempt, connect_timeouts' \in Nat \ {0}, UNCHANGED server
  PROVE  StreamInv'
<1>1. Doubled(reconnect_delay) \in InitialDelay..MaxDelay /\ InitialDelay \in InitialDelay..MaxDelay
  BY DoubledDelay, ClientConstants DEF StreamInv, StreamTypes
<1> QED
  BY <1>1 DEF StreamInv, StreamTypes, StreamPursued, Attempt, resetReconnectBackoff, Open

LEMMA StreamStepInv == StreamInv /\ [ClientNext]_clientVars => StreamInv'
<1> SUFFICES ASSUME StreamInv, [ClientNext]_clientVars PROVE StreamInv'
  OBVIOUS
<1>t. StreamTypes /\ StreamPursued
  BY DEF StreamInv
<1>1. CASE connectEventStream \/ Reconnect
  <2>1. Attempt /\ connect_timeouts' \in Nat \ {0} /\ UNCHANGED server
    BY <1>1, <1>t DEF connectEventStream, Reconnect, StreamTypes, serverVars
  <2> QED
    BY <2>1, AttemptInv
<1>2. CASE ConnectTimeout
  <2>1. Doubled(reconnect_delay) \in InitialDelay..MaxDelay
    BY <1>t, DoubledDelay DEF StreamTypes
  <2> QED
    BY <1>2, <1>t, <2>1
       DEF ConnectTimeout, scheduleReconnect, serverVars, StreamInv, StreamTypes, StreamPursued, Open
<1>3. CASE Connected
  BY <1>3, <1>t, ClientConstants
     DEF Connected, resetReconnectBackoff, serverVars, StreamInv, StreamTypes, StreamPursued, Open
<1>4. CASE EventSocketError \/ EventSocketDisconnected
  <2>1. Doubled(reconnect_delay) \in InitialDelay..MaxDelay
    BY <1>t, DoubledDelay DEF StreamTypes
  <2> QED
    BY <1>4, <1>t, <2>1
       DEF EventSocketError, EventSocketDisconnected, scheduleReconnect, serverVars, StreamInv,
           StreamTypes, StreamPursued, Open
<1>5. ASSUME NEW state \in {"up", "full", "down"}, Turn(state) PROVE StreamInv'
  BY <1>5, <1>t DEF Turn, StreamInv, StreamTypes, StreamPursued, Open
<1>6. CASE runCommand \/ CommandSocketDone \/ (\E t \in timers : CommandTimeout(t))
           \/ UNCHANGED clientVars
  <2>1. UNCHANGED <<eventVars, serverVars>>
    BY <1>6 DEF runCommand, CommandSocketDone, CommandTimeout, Finish, clientVars, eventVars,
                serverVars
  <2> QED
    BY <1>t, <2>1 DEF eventVars, serverVars, StreamInv, StreamTypes, StreamPursued
<1> QED
  BY <1>1, <1>2, <1>3, <1>4, <1>5, <1>6 DEF ClientNext

(* finishCommand() finishes the command that runs, whatever called it.       *)
LEMMA FinishInv ==
  ASSUME CommandInv, NEW by, Finish(by)
  PROVE  CommandInv'
<1>t. CommandTypes /\ NewestRuns /\ NotYet /\ CommandsFinishOnce
  BY DEF CommandInv
<1>1. CommandTypes'
  <2>1. finished' \in [Commands -> Nat]
    BY <1>t DEF CommandTypes, NewestRuns, Finish, Emitted, Commands
  <2>2. timers' \subseteq timers /\ issued' = issued
    BY DEF Finish
  <2> QED
    BY <1>t, <2>1, <2>2 DEF CommandTypes
<1>2. NewestRuns'
  BY DEF Finish, NewestRuns
<1>3. NotYet' /\ CommandsFinishOnce'
  BY <1>t DEF CommandTypes, NewestRuns, NotYet, CommandsFinishOnce, Finish, Emitted, Commands
<1> QED
  BY <1>1, <1>2, <1>3 DEF CommandInv

(* runCommand(): the next number, finished at once or given its own timeout. *)
LEMMA RunInv == CommandInv /\ runCommand => CommandInv'
<1> SUFFICES ASSUME CommandInv, runCommand PROVE CommandInv'
  OBVIOUS
<1>t. CommandTypes /\ NewestRuns /\ NotYet /\ CommandsFinishOnce
  BY DEF CommandInv
<1>1. issued \in Nat /\ issued' = issued + 1 /\ issued + 1 \in Commands /\ command = 0
  BY <1>t, ClientConstants DEF runCommand, CommandTypes, Commands
<1>2. CommandTypes'
  <2>1. finished' \in [Commands -> Nat] /\ issued' \in 0..MaxCommands
    BY <1>t, <1>1, ClientConstants DEF runCommand, CommandTypes, Emitted, Commands
  <2>2. \A t \in timers' : t \in timers \/ t = [by |-> issued + 1, socket |-> 0]
                             \/ t = [by |-> issued + 1, socket |-> issued + 1]
    BY DEF runCommand
  <2>3. \A t \in timers : t \in [by : 1..issued', socket : Nat] /\ t.socket \in {0, t.by}
    BY <1>t, <1>1 DEF CommandTypes
  <2>4. /\ [by |-> issued + 1, socket |-> 0] \in [by : 1..issued', socket : Nat]
        /\ [by |-> issued + 1, socket |-> issued + 1] \in [by : 1..issued', socket : Nat]
    BY <1>1
  <2> QED
    BY <2>1, <2>2, <2>3, <2>4 DEF CommandTypes
<1>3. NewestRuns'
  BY <1>1 DEF runCommand, NewestRuns
<1>4. NotYet'
  <2> SUFFICES ASSUME NEW n \in Commands, n > issued' PROVE finished'[n] = 0
    BY DEF NotYet
  <2>1. n > issued /\ n # issued + 1 /\ finished[n] = 0
    BY <1>t, <1>1 DEF NotYet, Commands
  <2> QED
    BY <1>t, <1>1, <2>1 DEF runCommand, Emitted, CommandTypes
<1>5. CommandsFinishOnce'
  <2> SUFFICES ASSUME NEW n \in 1..issued'
               PROVE  IF n = command' THEN finished'[n] = 0 /\ [by |-> n, socket |-> n] \in timers'
                                      ELSE finished'[n] = 1
    BY DEF CommandsFinishOnce
  <2>1. CASE n \in 1..issued
    <3>1. n # issued + 1 /\ n # command /\ n \in Commands
      BY <1>t, <1>1, <2>1, ClientConstants DEF CommandTypes, Commands
    <3>2. finished[n] = 1
      BY <1>t, <2>1, <3>1 DEF CommandsFinishOnce
    <3> QED
      BY <1>t, <1>1, <3>1, <3>2 DEF runCommand, Emitted, CommandTypes
  <2>2. CASE n = issued + 1
    <3>1. finished[n] = 0
      BY <1>t, <1>1, <2>2 DEF NotYet
    <3> QED
      BY <1>t, <1>1, <2>2, <3>1 DEF runCommand, Emitted, CommandTypes
  <2> QED
    BY <1>1, <2>1, <2>2
<1> QED
  BY <1>2, <1>3, <1>4, <1>5 DEF CommandInv

LEMMA CommandStepInv == CommandInv /\ [ClientNext]_clientVars => CommandInv'
<1> SUFFICES ASSUME CommandInv, [ClientNext]_clientVars PROVE CommandInv'
  OBVIOUS
<1>1. CASE UNCHANGED commandVars
  BY <1>1 DEF commandVars, CommandInv, CommandTypes, NewestRuns, NotYet, CommandsFinishOnce
<1>2. CASE runCommand
  BY <1>2, RunInv
<1>3. CASE CommandSocketDone
  BY <1>3, FinishInv DEF CommandSocketDone
<1>4. CASE \E t \in timers : CommandTimeout(t)
  BY <1>4, FinishInv DEF CommandTimeout
<1>5. \/ runCommand \/ CommandSocketDone \/ (\E t \in timers : CommandTimeout(t))
      \/ UNCHANGED commandVars
  BY DEF ClientNext, connectEventStream, Reconnect, ConnectTimeout, Connected, EventSocketError,
         EventSocketDisconnected, Turn, clientVars, commandVars
<1> QED
  BY <1>1, <1>2, <1>3, <1>4, <1>5

(* Each command is finished exactly once, though its answer, an error, the    *)
(* closing of its socket and two kinds of timers may all call                 *)
(* finishCommand(): for any number of commands.                               *)
THEOREM EachCommandOnce == ClientSpec => []CommandsFinishOnce
<1>1. CommandInv => CommandsFinishOnce
  BY DEF CommandInv
<1> QED
  BY <1>1, ClientInitInv, CommandStepInv, PTL DEF ClientSpec

(* The event stream is never given up: in every state it is open, or a timer  *)
(* is set that will try it again, after a delay that stays between the two    *)
(* constants whatever the doubling.                                           *)
THEOREM NeverGivenUp == ClientSpec => [](StreamTypes /\ StreamPursued)
<1>1. StreamInv => StreamTypes /\ StreamPursued
  BY DEF StreamInv
<1> QED
  BY <1>1, ClientInitInv, StreamStepInv, PTL DEF ClientSpec

=============================================================================
