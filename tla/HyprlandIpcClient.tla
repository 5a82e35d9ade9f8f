-------------------------- MODULE HyprlandIpcClient --------------------------
(***************************************************************************)
(* The socket client of src/compositor/HyprlandIpcClient.cpp: an event     *)
(* stream that is reconnected with a growing delay, and one command at a   *)
(* time with a timeout.                                                    *)
(*                                                                         *)
(* A local socket connects, or fails to, inside connectToServer(): its     *)
(* connected and errorOccurred signals are then handled before that call   *)
(* returns.  Only when the backlog of the server is full does the attempt  *)
(* stay open.  A timer belongs to the socket it was given as parent and    *)
(* dies with it; without a parent it runs until it fires.                  *)
(***************************************************************************)
EXTENDS Naturals, FiniteSets

CONSTANTS
  InitialDelay, MaxDelay,            \* kInitialReconnectDelayMs, kMaxReconnectDelayMs
  MaxCommands, MaxTurns, MaxAttempts \* bounds, for TLC

ASSUME ClientConstants ==
  /\ InitialDelay \in Nat \ {0} /\ MaxDelay \in Nat
  /\ InitialDelay <= MaxDelay
  /\ MaxCommands \in Nat

Commands == 1..MaxCommands

(* The states of event_socket_ in which Qt calls it connected. *)
Open == {"connected", "lost"}

VARIABLES
  event_socket,        \* "none", "connecting", "connected", "closed", or "lost":
                       \* the peer is gone and the client has not been told
  connect_timeouts,    \* how many connect timers have not fired
  reconnect_scheduled, \* reconnect_scheduled_: the reconnect timer runs
  reconnect_delay,     \* reconnect_delay_ms_
  command,             \* the command of command_socket_, 0 when there is none
  command_timeout,     \* the command whose runCommand() set command_timeout_
  timers,              \* command timers that run: by which call, owned by which socket
  server,              \* "up", "full" (backlog) or "down"
  turns,               \* how often the server changed
  issued, attempts,    \* runCommand() and connectEventStream() calls
  finished             \* history: how often commandFinished was emitted for each command

clientVars == <<event_socket, connect_timeouts, reconnect_scheduled, reconnect_delay,
                command, command_timeout, timers, server, turns, issued, attempts, finished>>
eventVars == <<event_socket, connect_timeouts, reconnect_scheduled, reconnect_delay, attempts>>
commandVars == <<command, command_timeout, timers, issued, finished>>
serverVars == <<server, turns>>

Doubled(delay) == IF 2 * delay <= MaxDelay THEN 2 * delay ELSE MaxDelay

-----------------------------------------------------------------------------
(* The event stream.                                                        *)

(* scheduleReconnect() *)
scheduleReconnect ==
  /\ reconnect_scheduled' = TRUE
  /\ reconnect_delay' = IF reconnect_scheduled THEN reconnect_delay ELSE Doubled(reconnect_delay)

resetReconnectBackoff == reconnect_scheduled' = FALSE /\ reconnect_delay' = InitialDelay

(* connectEventStream(), with reconnect_scheduled_ already cleared: the     *)
(* attempt ends at once, or stays open for a second.                        *)
Attempt ==
  \/ /\ server = "up"
     /\ event_socket' = "connected"
     /\ resetReconnectBackoff
  \/ /\ server = "full"
     /\ event_socket' = "connecting"
     /\ reconnect_scheduled' = FALSE /\ UNCHANGED reconnect_delay
  \/ /\ server = "down"
     /\ event_socket' = "closed"
     /\ reconnect_scheduled' = TRUE /\ reconnect_delay' = Doubled(reconnect_delay)

connectEventStream ==
  /\ event_socket = "none"
  /\ Attempt
  /\ connect_timeouts' = 1
  /\ attempts' = attempts + 1
  /\ UNCHANGED <<commandVars, serverVars>>

(* The reconnect timer.  The timer of the old attempt may still be there.   *)
Reconnect ==
  /\ reconnect_scheduled
  /\ attempts < MaxAttempts
  /\ Attempt
  /\ connect_timeouts' \in {1, 2} /\ connect_timeouts' <= connect_timeouts + 1
  /\ attempts' = attempts + 1
  /\ UNCHANGED <<commandVars, serverVars>>

(* Mutant: the attempt that took too long is given up for good. *)
ConnectTimeout_givesUp ==
  /\ connect_timeouts > 0
  /\ connect_timeouts' = connect_timeouts - 1
  /\ event_socket' = IF event_socket \in Open THEN event_socket ELSE "closed"
  /\ UNCHANGED <<reconnect_scheduled, reconnect_delay, attempts, commandVars, serverVars>>

(* The one-second connect timer: abort() and scheduleReconnect(). *)
ConnectTimeout ==
  /\ connect_timeouts > 0
  /\ connect_timeouts' = connect_timeouts - 1
  /\ IF event_socket \in Open
     THEN UNCHANGED <<event_socket, reconnect_scheduled, reconnect_delay>>
     ELSE event_socket' = "closed" /\ scheduleReconnect
  /\ UNCHANGED <<attempts, commandVars, serverVars>>

(* An attempt that stayed open ends: onEventSocketConnected(), which stops  *)
(* the connect timer, or onEventSocketError().                              *)
Connected ==
  /\ event_socket = "connecting" /\ server = "up"
  /\ event_socket' = "connected"
  /\ connect_timeouts' = connect_timeouts - 1
  /\ resetReconnectBackoff
  /\ UNCHANGED <<attempts, commandVars, serverVars>>

EventSocketError ==
  /\ event_socket = "connecting" /\ server = "down"
  /\ event_socket' = "closed"
  /\ scheduleReconnect
  /\ UNCHANGED <<connect_timeouts, attempts, commandVars, serverVars>>

(* onEventSocketDisconnected() *)
EventSocketDisconnected ==
  /\ event_socket = "lost"
  /\ event_socket' = "closed"
  /\ scheduleReconnect
  /\ UNCHANGED <<connect_timeouts, attempts, commandVars, serverVars>>

-----------------------------------------------------------------------------
(* Commands.                                                                *)

(* commandFinished is emitted for command n.  An emission while no command  *)
(* runs (n = 0) is not counted.                                             *)
Emitted(n) == finished' = IF n = 0 THEN finished ELSE [finished EXCEPT ![n] = @ + 1]

(* finishCommand(): the current timer is stopped, and the socket deleted    *)
(* with the timers it owns; "by" is the timer that fired, or 0.              *)
Finish(by) ==
  /\ command' = 0 /\ command_timeout' = 0
  /\ timers' = {t \in timers : t.by # command_timeout /\ (command = 0 \/ t.socket # command)
                                /\ t.by # by}
  /\ Emitted(command)
  /\ UNCHANGED <<issued, eventVars, serverVars>>

(* Mutant: a command is run although another has not finished. *)
runCommand_overlapping ==
  /\ issued < MaxCommands
  /\ issued' = issued + 1
  /\ command' = issued + 1 /\ command_timeout' = issued + 1
  /\ timers' = timers \cup {[by |-> issued + 1, socket |-> issued + 1]}
  /\ UNCHANGED <<finished, eventVars, serverVars>>

(* runCommand().  When the socket fails to connect inside connectToServer() *)
(* the command is finished and its socket forgotten, and only then is the   *)
(* timeout started: it belongs to no socket.                                *)
runCommand ==
  /\ command = 0 /\ issued < MaxCommands
  /\ issued' = issued + 1
  /\ command_timeout' = issued + 1
  /\ IF server = "down"
     THEN /\ command' = 0
          /\ timers' = timers \cup {[by |-> issued + 1, socket |-> 0]}
          /\ Emitted(issued + 1)
     ELSE /\ command' = issued + 1
          /\ timers' = timers \cup {[by |-> issued + 1, socket |-> issued + 1]}
          /\ UNCHANGED finished
  /\ UNCHANGED <<eventVars, serverVars>>

(* The response is complete, the peer closed, or the socket failed. *)
CommandSocketDone ==
  /\ command # 0
  /\ Finish(0)

(* The command timer: finishCommand(false), whatever command is running. *)
CommandTimeout(t) == Finish(t.by)

-----------------------------------------------------------------------------
(* Hyprland starts, stops, or has more clients waiting than it accepts. *)
Turn(state) ==
  /\ turns < MaxTurns /\ state # server
  /\ server' = state
  /\ turns' = turns + 1
  /\ event_socket' = IF state = "down" /\ event_socket = "connected" THEN "lost" ELSE event_socket
  /\ UNCHANGED <<connect_timeouts, reconnect_scheduled, reconnect_delay, attempts, commandVars>>

ClientInit ==
  /\ event_socket = "none" /\ connect_timeouts = 0
  /\ reconnect_scheduled = FALSE /\ reconnect_delay = InitialDelay
  /\ command = 0 /\ command_timeout = 0 /\ timers = {}
  /\ server \in {"up", "down"} /\ turns = 0
  /\ issued = 0 /\ attempts = 0
  /\ finished = [n \in Commands |-> 0]

ClientNext ==
  \/ connectEventStream \/ Reconnect \/ ConnectTimeout \/ Connected
  \/ EventSocketError \/ EventSocketDisconnected
  \/ runCommand \/ CommandSocketDone
  \/ \E t \in timers : CommandTimeout(t)
  \/ \E state \in {"up", "full", "down"} : Turn(state)

ClientSpec == ClientInit /\ [][ClientNext]_clientVars

(* Timers fire, and the operating system completes or refuses connections. *)
ClientFairSpec ==
  /\ ClientSpec
  /\ WF_clientVars(Reconnect) /\ WF_clientVars(ConnectTimeout) /\ WF_clientVars(Connected)
  /\ WF_clientVars(EventSocketError) /\ WF_clientVars(EventSocketDisconnected)
  /\ WF_clientVars(connectEventStream)
  /\ WF_clientVars(\E t \in timers : CommandTimeout(t))

-----------------------------------------------------------------------------
(* Properties.                                                              *)

(* Every command runCommand() took is finished once, or still running with  *)
(* a timeout of its own.                                                    *)
CommandsFinishOnce ==
  \A n \in 1..issued :
    IF n = command
    THEN finished[n] = 0 /\ [by |-> n, socket |-> n] \in timers
    ELSE finished[n] = 1

(* When the server stays up, the stream is connected and stays so. *)
Reconnects == <>[](server = "up" /\ attempts < MaxAttempts => event_socket = "connected")

=============================================================================
