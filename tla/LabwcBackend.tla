----------------------------- MODULE LabwcBackend -----------------------------
(***************************************************************************)
(* src/compositor/LabwcBackend.cpp and ForeignToplevelState.h: the client  *)
(* of wlr-foreign-toplevel-management, which owns a GenericBackend and     *)
(* merges its workspaces with the windows into one snapshot, published by  *)
(* a timer of zero.                                                        *)
(*                                                                         *)
(* The compositor's windows are told like its workspaces, except that each *)
(* handle has a done event of its own.  A window has a title and may have  *)
(* the focus; its other properties and its outputs travel like the title.  *)
(***************************************************************************)
EXTENDS GenericBackend

CONSTANTS
  Windows, \* pointers of toplevel handles
  MaxWindowEdits, MaxWindowStops, MaxWindowArrivals, MaxCommands \* bounds, for TLC

ASSUME LabwcConstants == None \notin Windows

VARIABLES
  toplevelActive,     \* protocol_->isActive() of LabwcProtocol
  available, publish_pending,
  toplevel_timer,     \* reconnect_timer_ of LabwcBackend
  windows,            \* handle -> ForeignToplevelState
  activation_order,
  snapshot,           \* the last snapshot published
  \* the compositor
  toplevelGlobal,     \* the manager's global is advertised
  toplevelManager,    \* the manager object sends events
  titles, focus,      \* the windows there are, and the one activated
  titlesTold, activatedTold, \* what was sent of each
  undone,             \* handles that were sent something since their last done
  committedTold,      \* what was sent when the done of the handle was
  windowsSpent,       \* what the bounds count
  \* history
  latest              \* the window that was last told that it is active

protocolVars == <<toplevelActive, toplevel_timer, toplevelManager>>
toldVars == <<titlesTold, activatedTold, undone, committedTold, latest>>
desktopVars == <<toplevelGlobal, titles, focus, windowsSpent>>
labwcVars == <<protocolVars, available, publish_pending, windows, activation_order, snapshot,
               toldVars, desktopVars>>
allVars == <<genericVars, labwcVars>>

NoWindows == [w \in {} |-> None]
Blank == [title |-> FALSE, activated |-> FALSE, order |-> 0]

-----------------------------------------------------------------------------
(* Mutant: the first of them. *)
active_first(ready) ==
  LET activated == {w \in ready : windows[w].committed.activated}
  IN IF activated = {} THEN {} ELSE {CHOOSE w \in activated : TRUE}

(* ForeignToplevelState::active(): of the windows that say they are active,  *)
(* the one that said so last.                                                *)
active_(ready) ==
  {w \in ready : /\ windows[w].committed.activated
                 /\ \A v \in ready : windows[v].committed.activated =>
                      windows[v].committed.order <= windows[w].committed.order}

(* What publish() puts together, mergeLabwcSnapshot() included. *)
Merged ==
  LET ready == IF available THEN {w \in DOMAIN windows : windows[w].ready} ELSE {}
  IN [connected |-> view.connected \/ available,
      workspaces |-> view.workspaces,
      window_listing |-> available,
      windows |-> [w \in ready |-> [title |-> windows[w].committed.title,
                                    activated |-> windows[w].committed.activated]],
      active |-> active_(ready)]

publish ==
  /\ publish_pending /\ publish_pending' = FALSE
  /\ snapshot' = Merged
  /\ UNCHANGED <<protocolVars, available, windows, activation_order, toldVars, desktopVars>>

-----------------------------------------------------------------------------
(* The session.                                                              *)

ForgottenWindows ==
  /\ titlesTold' = NoWindows /\ activatedTold' = NoWindows /\ committedTold' = NoWindows
  /\ undone' = {} /\ latest' = None

(* Mutant: the loss is left to the next snapshot of the workspaces. *)
toplevelsFinished_quiet ==
  /\ available' = FALSE
  /\ windows' = NoWindows
  /\ toplevel_timer' = TRUE
  /\ ForgottenWindows
  /\ UNCHANGED publish_pending

(* LabwcBackend::protocolFinished(). *)
toplevelsFinished ==
  /\ available' = FALSE
  /\ windows' = NoWindows
  /\ publish_pending' = TRUE
  /\ toplevel_timer' = TRUE
  /\ ForgottenWindows

StoppingWindows ==
  /\ windowsSpent.stops < MaxWindowStops
  /\ windowsSpent' = [windowsSpent EXCEPT !.stops = @ + 1]

toplevelManagerFinished ==
  /\ toplevelManager /\ StoppingWindows
  /\ toplevelManager' = FALSE
  /\ toplevelsFinished
  /\ UNCHANGED <<toplevelActive, activation_order, snapshot, toplevelGlobal, titles, focus>>

toplevelGlobalRemoved ==
  /\ toplevelGlobal /\ StoppingWindows
  /\ toplevelGlobal' = FALSE /\ toplevelManager' = FALSE /\ toplevelActive' = FALSE
  /\ IF toplevelActive THEN toplevelsFinished
     ELSE UNCHANGED <<available, windows, publish_pending, toplevel_timer, toldVars>>
  /\ UNCHANGED <<activation_order, snapshot, titles, focus>>

(* The global appears while the protocol object waits for it: activeChanged() *)
(* stops the timer.                                                          *)
toplevelGlobalAdded ==
  /\ ~toplevelGlobal /\ windowsSpent.arrivals < MaxWindowArrivals
  /\ windowsSpent' = [windowsSpent EXCEPT !.arrivals = @ + 1]
  /\ toplevelGlobal' = TRUE
  /\ toplevelActive' = TRUE /\ toplevelManager' = TRUE
  /\ available' = TRUE /\ toplevel_timer' = FALSE /\ publish_pending' = TRUE
  /\ UNCHANGED <<windows, activation_order, snapshot, toldVars, titles, focus>>

(* connectProtocol(): bind() finds the global at once, or the attempt failed. *)
connectToplevels ==
  /\ toplevel_timer
  /\ windows' = NoWindows
  /\ toplevelActive' = toplevelGlobal /\ toplevelManager' = toplevelGlobal
  /\ available' = toplevelGlobal
  /\ toplevel_timer' = ~toplevelGlobal
  /\ publish_pending' = TRUE /\ ForgottenWindows
  /\ UNCHANGED <<activation_order, snapshot, desktopVars>>

-----------------------------------------------------------------------------
(* Events of the handles: pending until the handle's done.                   *)

QuietlyWindows ==
  UNCHANGED <<protocolVars, available, publish_pending, snapshot, desktopVars>>

toplevel(w) ==
  /\ toplevelManager /\ w \in DOMAIN titles \ DOMAIN titlesTold
  /\ windows' = With(windows, w, [pending |-> Blank, committed |-> Blank, ready |-> FALSE])
  /\ titlesTold' = With(titlesTold, w, FALSE)
  /\ activatedTold' = With(activatedTold, w, FALSE)
  /\ undone' = undone \cup {w}
  /\ QuietlyWindows /\ UNCHANGED <<activation_order, committedTold, latest>>

title(w) ==
  /\ toplevelManager /\ w \in DOMAIN titlesTold \cap DOMAIN titles
  /\ titlesTold[w] # titles[w]
  /\ titlesTold' = [titlesTold EXCEPT ![w] = titles[w]]
  /\ undone' = undone \cup {w}
  /\ windows' = [windows EXCEPT ![w].pending.title = titles[w]]
  /\ QuietlyWindows /\ UNCHANGED <<activation_order, activatedTold, committedTold, latest>>

(* The state event and setActivated(): a window that becomes active gets the  *)
(* next place in the order.                                                  *)
state(w) ==
  /\ toplevelManager /\ w \in DOMAIN titlesTold \cap DOMAIN titles
  /\ activatedTold[w] # (focus = w)
  /\ activatedTold' = [activatedTold EXCEPT ![w] = ~@]
  /\ undone' = undone \cup {w}
  /\ latest' = IF ~activatedTold[w] THEN w ELSE IF latest = w THEN None ELSE latest
  /\ LET order == IF activatedTold[w] THEN activation_order ELSE activation_order + 1
     IN /\ activation_order' = order
        /\ windows' = [windows EXCEPT
             ![w].pending.activated = ~activatedTold[w],
             ![w].pending.order = IF activatedTold[w] THEN @ ELSE order]
  /\ QuietlyWindows /\ UNCHANGED <<titlesTold, committedTold>>

(* done, after whatever was sent since the last one: commit(),                *)
(* schedulePublish().                                                        *)
windowDone(w) ==
  /\ toplevelManager /\ w \in DOMAIN titlesTold \cap DOMAIN titles
  /\ titlesTold[w] = titles[w] /\ activatedTold[w] = (focus = w)
  /\ w \in undone /\ undone' = undone \ {w}
  /\ committedTold' = With(committedTold, w, [title |-> titlesTold[w],
                                              activated |-> activatedTold[w]])
  /\ windows' = [windows EXCEPT ![w].committed = windows[w].pending, ![w].ready = TRUE]
  /\ publish_pending' = TRUE
  /\ UNCHANGED <<protocolVars, available, snapshot, desktopVars, activation_order, titlesTold,
                 activatedTold, latest>>

closed(w) ==
  /\ toplevelManager /\ w \in DOMAIN titlesTold \ DOMAIN titles
  /\ titlesTold' = Without(titlesTold, w) /\ activatedTold' = Without(activatedTold, w)
  /\ committedTold' = Without(committedTold, w)
  /\ undone' = undone \ {w} /\ latest' = IF latest = w THEN None ELSE latest
  /\ windows' = Without(windows, w)
  /\ publish_pending' = TRUE
  /\ UNCHANGED <<protocolVars, available, snapshot, desktopVars, activation_order>>

-----------------------------------------------------------------------------
(* The desktop, and what a consumer asks of it.                              *)

Desktop(open, focused) ==
  /\ titles' = open /\ focus' = focused
  /\ UNCHANGED <<protocolVars, available, publish_pending, windows, activation_order, snapshot,
                 toldVars, toplevelGlobal>>

(* requestWindowCommand(Activate) of a window that is listed; the others ask  *)
(* for changes of the other properties.                                      *)
requestWindowCommand(w) ==
  /\ windowsSpent.commands < MaxCommands
  /\ windowsSpent' = [windowsSpent EXCEPT !.commands = @ + 1]
  /\ available /\ w \in DOMAIN windows /\ windows[w].ready
  /\ Desktop(titles, IF w \in DOMAIN titles THEN w ELSE focus)

EditWindows ==
  /\ windowsSpent.edits < MaxWindowEdits
  /\ windowsSpent' = [windowsSpent EXCEPT !.edits = @ + 1]
  /\ \/ \E w \in Windows \ (DOMAIN titles \cup DOMAIN titlesTold) :
          Desktop(With(titles, w, TRUE), w)
     \/ \E w \in DOMAIN titles :
          \/ Desktop([titles EXCEPT ![w] = ~@], focus)
          \/ Desktop(Without(titles, w), IF focus = w THEN None ELSE focus)
          \/ Desktop(titles, w)

(* start() has started the GenericBackend and called connectProtocol().       *)
LabwcInit ==
  /\ Init
  /\ toplevelGlobal \in BOOLEAN
  /\ toplevelManager = toplevelGlobal /\ toplevelActive = toplevelGlobal
  /\ available = toplevelGlobal /\ toplevel_timer = ~toplevelGlobal
  /\ publish_pending = TRUE
  /\ windows = NoWindows /\ activation_order = 0
  /\ snapshot = [connected |-> FALSE, workspaces |-> {}, window_listing |-> FALSE,
                 windows |-> NoWindows, active |-> {}]
  /\ \E w \in Windows : titles = [v \in {w} |-> FALSE] /\ focus = w
  /\ titlesTold = NoWindows /\ activatedTold = NoWindows /\ committedTold = NoWindows
  /\ undone = {} /\ latest = None
  /\ windowsSpent = [edits |-> 0, stops |-> 0, arrivals |-> 0, commands |-> 0]

TellingWindows ==
  \E w \in Windows : toplevel(w) \/ title(w) \/ state(w) \/ windowDone(w) \/ closed(w)

WindowSteps ==
  \/ publish \/ TellingWindows
  \/ toplevelManagerFinished \/ toplevelGlobalRemoved \/ toplevelGlobalAdded \/ connectToplevels
  \/ EditWindows
  \/ \E w \in Windows : requestWindowCommand(w)

(* A snapshot of the workspaces schedules one of both. *)
LabwcNext ==
  \/ /\ Publishing
     /\ publish_pending' = TRUE
     /\ UNCHANGED <<protocolVars, available, windows, activation_order, snapshot, toldVars,
                    desktopVars>>
  \/ Unpublished /\ UNCHANGED labwcVars
  \/ WindowSteps /\ UNCHANGED genericVars

LabwcSpec == LabwcInit /\ [][LabwcNext]_allVars

(* The compositor tells what there is and ends it with done; Qt binds the      *)
(* globals and runs the timers.                                               *)
LabwcFairness ==
  /\ WF_allVars(Telling /\ UNCHANGED labwcVars)
  /\ WF_allVars(done /\ LabwcNext)
  /\ WF_allVars(doneIgnored /\ UNCHANGED labwcVars)
  /\ WF_allVars(bound /\ UNCHANGED labwcVars)
  /\ WF_allVars(connectProtocol /\ UNCHANGED labwcVars)
  /\ WF_allVars(publish /\ UNCHANGED genericVars)
  /\ WF_allVars(TellingWindows /\ UNCHANGED genericVars)
  /\ WF_allVars(connectToplevels /\ UNCHANGED genericVars)

LabwcFairSpec == LabwcSpec /\ LabwcFairness

-----------------------------------------------------------------------------
(* Properties.                                                                *)

(* Once the timer has run, the snapshot shows each window exactly as it was   *)
(* at the last done of its handle, and the workspaces as last published; a    *)
(* source that is gone shows nothing and takes nothing from the other         *)
(* ("Properties are pending until the protocol's per-handle done event",      *)
(* ForeignToplevelState.h; test SourcesMergeIndependently...).                *)
ShownIsCommitted ==
  ~publish_pending =>
    /\ snapshot.window_listing = toplevelManager
    /\ snapshot.windows = committedTold
    /\ snapshot.workspaces = view.workspaces
    /\ snapshot.connected = (view.connected \/ toplevelManager)

(* The window shown as active is the one that has the focus: once every       *)
(* window has been told, and in the middle of a transfer as soon as the       *)
(* window that gained the focus has, though the one that lost it may still    *)
(* say that it is active.                                                     *)
FocusShown ==
  (/\ ~publish_pending /\ toplevelManager
   /\ \/ latest = focus /\ focus \in DOMAIN committedTold \ undone
      \/ committedTold = [w \in DOMAIN titles |-> [title |-> titles[w], activated |-> focus = w]])
  => snapshot.active = {focus} \ {None}

(* Once the two globals stay, windows and workspaces of the compositor are    *)
(* shown at last, though either protocol finished, or was withdrawn and came  *)
(* back while the other went on.                                              *)
DesktopRecovers ==
  <>[](global /\ toplevelGlobal) =>
     <>[](/\ snapshot.connected /\ Shown = Projection(actual)
          /\ snapshot.workspaces = view.workspaces
          /\ snapshot.windows =
                [w \in DOMAIN titles |-> [title |-> titles[w], activated |-> focus = w]])

=============================================================================
