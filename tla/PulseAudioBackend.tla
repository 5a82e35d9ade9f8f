-------------------------- MODULE PulseAudioBackend --------------------------
(***************************************************************************)
(* The connection side of src/audio/PulseAudioBackend.cpp together         *)
(* with the level-monitor bookkeeping of AudioController.cpp: the context, *)
(* its reconnect timer, and the record stream behind the input level       *)
(* meter.  (What travels over a healthy connection is AudioController.)    *)
(*                                                                         *)
(* Two threads act.  PulseAudio's threaded mainloop runs the callbacks;    *)
(* each of them hands its result to the GUI thread with invokeMethod(...,  *)
(* Qt::QueuedConnection), here a message appended to "queued".  The GUI    *)
(* thread takes the messages in order, runs the reconnect timer and the    *)
(* public methods.  A GUI method is one step: what it does outside the     *)
(* mainloop lock touches only variables of the GUI thread, and its last    *)
(* locked section is where a callback could notice it.                     *)
(***************************************************************************)
EXTENDS Naturals, Sequences

CONSTANTS
    kMaxReconnectAttempts,       \* 8 in the code
    kMaximumLevelStreamRetries,  \* 3 in the code
    MaxUsers,                    \* bound: users of the level meter
    MaxStops,                    \* bound: explicit stop() calls
    MaxQueue                     \* bound: level reports, requests for the level
                                 \* and changes of the default source come
                                 \* while fewer calls are queued

ASSUME BoundsAssumption ==
    /\ kMaxReconnectAttempts \in Nat \ {0}
    /\ kMaximumLevelStreamRetries \in Nat
    /\ MaxUsers \in Nat /\ MaxStops \in Nat /\ MaxQueue \in Nat

VARIABLES
    started,       \* Impl::started
    mainloop,      \* "none": null; "created": not running; "running"
    context,       \* "none": null, else the state libpulse gives it
    timer,         \* reconnect_timer_ is active
    ahead,         \* queued calls older than the running timer
    attempt,       \* reconnect_attempt_
    health,        \* health_state_
    requested,     \* level_monitor_requested
    retries,       \* level_stream_retry_count
    stream,        \* level_stream: "none", "live" or "failed"
    queued,        \* posted calls to the GUI thread, oldest first
    service_available, \* AudioController::available_
    users,         \* AudioController::input_level_monitoring_users_
    level,         \* AudioController::input_level_: 0 or not
    stops,         \* stop() calls made, bounded by MaxStops
    connects       \* contexts made since the last announced connection

session == <<started, mainloop, context>>
reconnect == <<timer, ahead, attempt, health>>
monitor == <<requested, retries, stream>>
client == <<service_available, users, level>>
pulseVars == <<session, reconnect, monitor, queued, client, stops, connects>>

Connection == {"connecting", "ready", "failed"}

PulseInit ==
    /\ started = FALSE /\ mainloop = "none" /\ context = "none"
    /\ timer = FALSE /\ ahead = 0 /\ attempt = 0 /\ health = "Connected"
    /\ requested = FALSE /\ retries = 0 /\ stream = "none"
    /\ queued = <<>>
    /\ service_available = FALSE /\ users = 0 /\ level = 0
    /\ stops = 0 /\ connects = 0

------------------------------------------------------------------------------
(* Losing and regaining the context, on the GUI thread.                     *)

(* The shortest delay is a second and the event loop takes queued calls      *)
(* before timers: what was queued when the timer started comes before it.    *)
Start == timer' = TRUE /\ ahead' = Len(queued')
Stop == timer' = FALSE /\ ahead' = 0
Overtaken == IF ahead = 0 THEN 0 ELSE ahead - 1

\* Mutant: the retry ceiling is off by one.
scheduleReconnect_unbounded ==
    IF attempt > kMaxReconnectAttempts
    THEN health' = "Failed" /\ Stop /\ UNCHANGED attempt
    ELSE health' = "Reconnecting" /\ Start /\ attempt' = attempt + 1

scheduleReconnect ==
    IF attempt >= kMaxReconnectAttempts
    THEN health' = "Failed" /\ Stop /\ UNCHANGED attempt
    ELSE health' = "Reconnecting" /\ Start /\ attempt' = attempt + 1

\* For a timer that is not running: a running one is left alone.
onContextLost ==
    IF health = "Failed"
    THEN Stop /\ UNCHANGED <<attempt, health>>
    ELSE scheduleReconnect

onReconnectSucceeded ==
    attempt' = 0 /\ health' = "Connected" /\ Stop

stopLevelStream == stream' = "none"

\* The old context's callbacks are removed before the new one is made.
teardownContext == stopLevelStream

(* connectNewContext: pa_context_new may fail, pa_context_connect may fail  *)
(* at once, with or without having run the state callback, or be under way. *)
Outcomes == {"none", "refused", "announced", "connecting"}

connectNewContext(outcome) ==
    /\ context' = IF outcome \in {"refused", "announced"} THEN "failed" ELSE outcome
    /\ queued' = IF outcome = "announced" THEN Append(queued, "lost") ELSE queued
    /\ connects' = connects + 1

start ==
    /\ ~started
    /\ started' = TRUE
    /\ \/ /\ mainloop' \in {"none", "created"}
          /\ UNCHANGED <<context, reconnect, queued, connects>>
       \/ /\ mainloop' = "running"
          /\ \E outcome \in Outcomes :
                /\ connectNewContext(outcome)
                /\ IF outcome = "connecting" \/ timer
                   THEN UNCHANGED reconnect
                   ELSE onContextLost
    /\ UNCHANGED <<monitor, client, stops>>

\* Mutant: an attempt that fails at once is not followed by another.
attemptReconnect_silent ==
    /\ timer /\ ahead = 0 /\ mainloop = "running"
    /\ stream' = "none"
    /\ \E outcome \in Outcomes :
          /\ connectNewContext(outcome)
          /\ Stop
          /\ UNCHANGED <<attempt, health>>
    /\ UNCHANGED <<started, mainloop, requested, retries, client, stops>>

(* The timeout: the old context goes with its level stream, and a new one   *)
(* is made.  With no mainloop (a loss posted before stop() and handled  *)
(* after it) pa_context_new aborts: such a timeout has no successor here.   *)
attemptReconnect ==
    /\ timer /\ ahead = 0 /\ mainloop = "running"
    /\ teardownContext
    /\ \E outcome \in Outcomes :
          /\ connectNewContext(outcome)
          /\ IF outcome = "connecting"
             THEN Stop /\ UNCHANGED <<attempt, health>>
             ELSE onContextLost
    /\ UNCHANGED <<started, mainloop, requested, retries, client, stops>>

stop ==
    /\ stops < MaxStops
    /\ stops' = stops + 1
    /\ Stop /\ requested' = FALSE /\ retries' = 0
    /\ IF mainloop = "none"
       THEN UNCHANGED <<session, stream>>
       ELSE started' = FALSE /\ mainloop' = "none" /\ context' = "none" /\ stopLevelStream
    /\ UNCHANGED <<attempt, health, queued, client, connects>>

------------------------------------------------------------------------------
(* The level meter, on the GUI thread.                                      *)

\* startLevelStreamLocked: the streams it may leave.  Only "live" (or the one
\* already there) is success; libpulse refuses a context that is not ready.
startLevelStream(current) ==
    IF current # "none" THEN {current}
    ELSE IF context = "ready" THEN {"none", "live"} ELSE {"none"}

RetryUnless(succeeded, calls) ==
    queued' = IF succeeded THEN calls ELSE Append(calls, "retry")

startInputLevelMonitoring ==
    /\ users < MaxUsers /\ Len(queued) < MaxQueue
    /\ users' = users + 1
    /\ IF users = 0 /\ mainloop # "none"
       THEN /\ requested' = TRUE
            /\ stream' \in startLevelStream(stream)
            /\ RetryUnless(stream' # "none", queued)
            /\ UNCHANGED retries
       ELSE UNCHANGED <<monitor, queued>>
    /\ UNCHANGED <<session, reconnect, service_available, level, stops, connects>>

\* Mutant: the level is not reset when the last user leaves.
stopInputLevelMonitoring_mute ==
    /\ users > 0 /\ Len(queued) < MaxQueue
    /\ users' = users - 1
    /\ IF users = 1
       THEN /\ requested' = FALSE /\ retries' = 0
            /\ stream' = IF mainloop = "none" THEN stream ELSE "none"
            /\ UNCHANGED queued
       ELSE UNCHANGED <<monitor, queued>>
    /\ UNCHANGED <<session, reconnect, service_available, level, stops, connects>>

stopInputLevelMonitoring ==
    /\ users > 0 /\ Len(queued) < MaxQueue
    /\ users' = users - 1
    /\ IF users = 1
       THEN /\ requested' = FALSE /\ retries' = 0
            /\ IF mainloop = "none"
               THEN UNCHANGED <<stream, queued>>
               ELSE stopLevelStream /\ queued' = Append(queued, "silence")
       ELSE UNCHANGED <<monitor, queued>>
    /\ UNCHANGED <<session, reconnect, service_available, level, stops, connects>>

\* Mutant: a retry ignores that nobody asks any more.
retryInputLevelMonitor_unrequested ==
    IF mainloop = "none" \/ retries >= kMaximumLevelStreamRetries
    THEN UNCHANGED monitor /\ queued' = Tail(queued)
    ELSE /\ retries' = retries + 1
         /\ stream' \in startLevelStream("none")
         /\ RetryUnless(stream' # "none", Tail(queued))
         /\ UNCHANGED requested

retryInputLevelMonitor ==
    IF ~requested \/ mainloop = "none" \/ retries >= kMaximumLevelStreamRetries
    THEN UNCHANGED monitor /\ queued' = Tail(queued)
    ELSE /\ retries' = retries + 1
         /\ stream' \in startLevelStream("none")
         /\ RetryUnless(stream' # "none", Tail(queued))
         /\ UNCHANGED requested

------------------------------------------------------------------------------
(* The GUI thread takes the oldest queued call.                             *)

Queued(call) == queued # <<>> /\ Head(queued) = call

HandleReady ==
    /\ Queued("ready")
    /\ queued' = Tail(queued)
    /\ service_available' = TRUE
    /\ onReconnectSucceeded
    /\ connects' = 0
    /\ UNCHANGED <<session, monitor, users, level, stops>>

HandleLost ==
    /\ Queued("lost")
    /\ queued' = Tail(queued)
    /\ service_available' = FALSE
    /\ IF timer
       THEN ahead' = Overtaken /\ UNCHANGED <<timer, attempt, health>>
       ELSE onContextLost
    /\ UNCHANGED <<session, monitor, users, level, stops, connects>>

HandleLevel ==
    /\ Queued("silence") \/ Queued("level")
    /\ queued' = Tail(queued)
    /\ level' = IF Queued("level") THEN 1 ELSE 0
    /\ ahead' = Overtaken
    /\ UNCHANGED <<session, timer, attempt, health, monitor, service_available, users, stops, connects>>

HandleRetry ==
    /\ Queued("retry")
    /\ retryInputLevelMonitor
    /\ ahead' = Overtaken
    /\ UNCHANGED <<session, timer, attempt, health, client, stops, connects>>

HandleQueued == HandleReady \/ HandleLost \/ HandleLevel \/ HandleRetry

------------------------------------------------------------------------------
(* Callbacks on the mainloop thread.                                        *)

onContextReady ==
    /\ context = "connecting"
    /\ context' = "ready"
    /\ queued' = Append(queued, "ready")
    /\ UNCHANGED <<started, mainloop, reconnect, monitor, client, stops, connects>>

(* The context fails: its state callback runs, then libpulse fails the      *)
(* streams it carries, whose own callback reports silence and asks to retry.*)
contextFailed ==
    /\ context \in {"connecting", "ready"}
    /\ context' = "failed"
    /\ IF stream = "live"
       THEN stream' = "failed" /\ queued' = queued \o <<"lost", "silence", "retry">>
       ELSE UNCHANGED stream /\ queued' = Append(queued, "lost")
    /\ UNCHANGED <<started, mainloop, reconnect, requested, retries, client, stops, connects>>

levelStreamFailed ==
    /\ stream = "live"
    /\ stream' = "failed"
    /\ queued' = queued \o <<"silence", "retry">>
    /\ UNCHANGED <<session, reconnect, requested, retries, client, stops, connects>>

levelStreamReadCallback ==
    /\ stream = "live"
    /\ Len(queued) < MaxQueue
    /\ queued' = Append(queued, "level")
    /\ UNCHANGED <<session, reconnect, monitor, client, stops, connects>>

(* serverInfoCallback with another default source: the stream is replaced,  *)
(* and nobody is told when that fails.                                      *)
defaultSourceChanged ==
    /\ context = "ready" /\ stream # "none" /\ Len(queued) < MaxQueue
    /\ stream' \in startLevelStream("none")
    /\ UNCHANGED <<session, reconnect, requested, retries, queued, client, stops, connects>>

MainloopCallback ==
    \/ onContextReady
    \/ contextFailed
    \/ levelStreamFailed
    \/ levelStreamReadCallback
    \/ defaultSourceChanged

PulseNext ==
    \/ start
    \/ stop
    \/ attemptReconnect
    \/ startInputLevelMonitoring
    \/ stopInputLevelMonitoring
    \/ HandleQueued
    \/ MainloopCallback

PulseSpec == PulseInit /\ [][PulseNext]_pulseVars

(* The event loop delivers what is queued and the timer expires; a context  *)
(* that is connecting ends up ready or failed.                              *)
FairPulseSpec ==
    /\ PulseSpec
    /\ WF_pulseVars(HandleQueued)
    /\ WF_pulseVars(attemptReconnect)
    /\ WF_pulseVars(onContextReady \/ (contextFailed /\ context = "connecting"))

------------------------------------------------------------------------------
(* Properties.                                                              *)

\* The life AudioController gives its backend: it stops it once, when it is
\* destroyed.  Two of the promises below hold in that life only.
FirstLife == stops = 0

\* However losses are announced (the return value of pa_context_connect, its
\* state callback, or both), one outage costs at most one connection attempt
\* per start() and the retry ceiling.
RetriesBounded == connects <= kMaxReconnectAttempts + 1 + stops

\* The microphone is recorded only while somebody asks for the level: a retry
\* or a change of the default source that comes after the last user left
\* opens no stream, and a stream always belongs to a context in place.
MicrophoneOnlyOnRequest == stream # "none" => requested /\ context # "none"

\* When nobody uses the meter and nothing is queued it shows zero: a level
\* posted by the stream just before it stopped does not stick.
LevelSettles == FirstLife /\ users = 0 /\ queued = <<>> => level = 0

\* Reconnecting does not last: the connection is back or given up.
Resolves == health = "Reconnecting" ~> health # "Reconnecting" \/ ~FirstLife
==============================================================================
