---------------------------- MODULE GenericBackend ----------------------------
(***************************************************************************)
(* src/compositor/GenericBackend.cpp and GenericWorkspaceState.h: the      *)
(* client of ext-workspace-v1.  The compositor announces workspaces and    *)
(* groups by events on their handles and ends a batch with done, which is  *)
(* when the backend publishes.                                             *)
(*                                                                         *)
(* The compositor keeps what there is (actual) and what it has told this   *)
(* client (told); each event brings told one step nearer to actual, and is *)
(* handled at once: a Wayland connection keeps the order.  Handles are     *)
(* pointers, used again for another workspace after one is gone.  Outputs  *)
(* of a group, names and urgency travel like its members and are left out. *)
(* A workspace with an id of the protocol keeps that; the ids here are the *)
(* numbers that all others get.                                            *)
(***************************************************************************)
EXTENDS Naturals, Functions

CONSTANTS
  Pointers, Groups, None,
  MaxWorkspaces, MaxEdits, MaxStops, MaxArrivals, MaxActivations \* bounds, for TLC

ASSUME GenericConstants == None \notin Groups

VARIABLES
  active,           \* protocol_->isActive(): the global is bound
  finished, reconnect_timer,
  handles,          \* pointer -> GenericWorkspaceState
  groups,           \* group -> workspaces_
  next_order,
  view,             \* the last snapshot
  \* the compositor
  global,           \* ext-workspace-v1 is advertised
  manager,          \* the manager object this client holds sends events
  actual, told,     \* pointer -> workspace; what there is, what was sent
  groupsActual, groupsTold,
  spent,            \* what the bounds count
  \* history
  declared,         \* told when done was last sent, None before the first
  seen              \* the ids published or activated, with their workspaces

genericVars == <<active, finished, reconnect_timer, handles, groups, next_order, view, global,
                 manager, actual, told, groupsActual, groupsTold, spent, declared, seen>>
compositorVars == <<global, actual, groupsActual, spent>>
sessionVars == <<active, finished, reconnect_timer, manager>>

NoWorkspaces == [p \in {} |-> None]
Unavailable == [connected |-> FALSE, workspaces |-> {}]

With(f, p, value) == [q \in DOMAIN f \cup {p} |-> IF q = p THEN value ELSE f[q]]
Without(f, p) == Restrict(f, DOMAIN f \ {p})

-----------------------------------------------------------------------------
(* The session.                                                              *)

clearState == handles' = NoWorkspaces /\ groups' = NoWorkspaces

(* protocolFinished(): nothing is known, and another attempt is due. *)
protocolFinished ==
  /\ finished' = TRUE
  /\ clearState
  /\ view' = Unavailable
  /\ reconnect_timer' = TRUE
  /\ UNCHANGED <<next_order, seen>>

(* The compositor forgets what it told a client that is gone. *)
Forgotten == told' = NoWorkspaces /\ groupsTold' = {} /\ declared' = None

Stopping ==
  /\ spent.stops < MaxStops
  /\ spent' = [spent EXCEPT !.stops = @ + 1]

(* The finished event; the global stays, and so does isActive(). *)
managerFinished ==
  /\ manager /\ Stopping
  /\ manager' = FALSE
  /\ protocolFinished /\ Forgotten
  /\ UNCHANGED <<active, global, actual, groupsActual>>

(* The global is withdrawn: activeChanged(), and nothing more is sent on the *)
(* objects bound through it.                                                 *)
globalRemoved ==
  /\ global /\ Stopping
  /\ global' = FALSE /\ manager' = FALSE
  /\ active' = FALSE
  /\ IF active THEN protocolFinished
     ELSE UNCHANGED <<finished, handles, groups, view, reconnect_timer, next_order, seen>>
  /\ Forgotten
  /\ UNCHANGED <<actual, groupsActual>>

globalAdded ==
  /\ ~global /\ spent.arrivals < MaxArrivals
  /\ spent' = [spent EXCEPT !.arrivals = @ + 1]
  /\ global' = TRUE
  /\ UNCHANGED <<sessionVars, handles, groups, next_order, view, actual, told, groupsActual,
                 groupsTold, declared, seen>>

(* Qt binds the global it finds, or that appears later: activeChanged(),     *)
(* which this backend needs nothing from.                                    *)
bound ==
  /\ global /\ ~active
  /\ active' = TRUE /\ manager' = TRUE
  /\ UNCHANGED <<finished, reconnect_timer, handles, groups, next_order, view, compositorVars,
                 told, groupsTold, declared, seen>>

(* Mutant: a new session numbers its workspaces from the start. *)
connectProtocol_renumbers ==
  /\ reconnect_timer /\ reconnect_timer' = FALSE
  /\ clearState /\ next_order' = 0
  /\ finished' = FALSE /\ active' = FALSE /\ manager' = FALSE
  /\ Forgotten
  /\ UNCHANGED <<view, compositorVars, seen>>

(* Mutant: the new session is still taken for finished. *)
connectProtocol_finished ==
  /\ reconnect_timer /\ reconnect_timer' = FALSE
  /\ clearState
  /\ active' = FALSE /\ manager' = FALSE
  /\ Forgotten
  /\ UNCHANGED <<finished, next_order, view, compositorVars, seen>>

(* reconnect_timer_ fires: the protocol object is replaced, whatever state   *)
(* it is in.                                                                 *)
connectProtocol ==
  /\ reconnect_timer /\ reconnect_timer' = FALSE
  /\ clearState
  /\ finished' = FALSE /\ active' = FALSE /\ manager' = FALSE
  /\ Forgotten
  /\ UNCHANGED <<next_order, view, compositorVars, seen>>

-----------------------------------------------------------------------------
(* Events of the handles, each applied as it comes.                          *)

Quietly == UNCHANGED <<sessionVars, view, compositorVars, declared, seen>>

workspace(p) ==
  /\ manager /\ p \in DOMAIN actual \ DOMAIN told
  /\ told' = With(told, p, [uid |-> actual[p].uid, hidden |-> FALSE, can_activate |-> FALSE,
                            group |-> None])
  /\ handles' = With(handles, p, [order |-> next_order, hidden |-> FALSE, can_activate |-> FALSE])
  /\ next_order' = next_order + 1
  /\ Quietly /\ UNCHANGED <<groups, groupsTold>>

Gone(p) == p \in DOMAIN actual => actual[p].uid # told[p].uid

(* state() and capabilities(). *)
properties(p) ==
  /\ manager /\ p \in DOMAIN told /\ ~Gone(p)
  /\ \/ /\ told[p].hidden # actual[p].hidden
        /\ told' = [told EXCEPT ![p].hidden = actual[p].hidden]
        /\ handles' = [handles EXCEPT ![p].hidden = actual[p].hidden]
     \/ /\ told[p].can_activate # actual[p].can_activate
        /\ told' = [told EXCEPT ![p].can_activate = actual[p].can_activate]
        /\ handles' = [handles EXCEPT ![p].can_activate = actual[p].can_activate]
  /\ Quietly /\ UNCHANGED <<groups, groupsTold, next_order>>

workspace_enter(p, g) ==
  /\ manager /\ p \in DOMAIN told /\ ~Gone(p) /\ g \in groupsTold
  /\ told[p].group = None /\ actual[p].group = g
  /\ told' = [told EXCEPT ![p].group = g]
  /\ groups' = [groups EXCEPT ![g] = @ \cup {p}]
  /\ Quietly /\ UNCHANGED <<handles, groupsTold, next_order>>

(* Mutant: the group keeps the pointer of a workspace that left it. *)
workspace_leave_kept(p, g) ==
  /\ manager /\ p \in DOMAIN told
  /\ told[p].group = g /\ (~Gone(p) => actual[p].group # g)
  /\ told' = [told EXCEPT ![p].group = None]
  /\ Quietly /\ UNCHANGED <<groups, handles, groupsTold, next_order>>

workspace_leave(p, g) ==
  /\ manager /\ p \in DOMAIN told
  /\ told[p].group = g /\ (~Gone(p) => actual[p].group # g)
  /\ told' = [told EXCEPT ![p].group = None]
  /\ groups' = [groups EXCEPT ![g] = @ \ {p}]
  /\ Quietly /\ UNCHANGED <<handles, groupsTold, next_order>>

(* The protocol lets a workspace go only when it is in no group. *)
workspaceRemoved(p) ==
  /\ manager /\ p \in DOMAIN told /\ Gone(p) /\ told[p].group = None
  /\ told' = Without(told, p)
  /\ handles' = Without(handles, p)
  /\ Quietly /\ UNCHANGED <<groups, groupsTold, next_order>>

workspace_group(g) ==
  /\ manager /\ g \in groupsActual \ groupsTold
  /\ groupsTold' = groupsTold \cup {g}
  /\ groups' = With(groups, g, {})
  /\ Quietly /\ UNCHANGED <<handles, told, next_order>>

(* The protocol lets a group go only when it is empty. *)
groupRemoved(g) ==
  /\ manager /\ g \in groupsTold \ groupsActual
  /\ \A p \in DOMAIN told : told[p].group # g
  /\ groupsTold' = groupsTold \ {g}
  /\ groups' = Without(groups, g)
  /\ Quietly /\ UNCHANGED <<handles, told, next_order>>

-----------------------------------------------------------------------------
(* done: publishSnapshotOnDone().                                            *)

(* The workspaces of a snapshot: those that are not hidden. *)
listed ==
  {[id |-> handles[p].order, pointer |-> p, can_activate |-> handles[p].can_activate,
    groups |-> {g \in DOMAIN groups : p \in groups[g]}] :
   p \in {q \in DOMAIN handles : ~handles[q].hidden}}

Told == manager /\ told = actual /\ groupsTold = groupsActual

done ==
  /\ Told /\ declared # told
  /\ declared' = told
  /\ ~finished
  /\ view' = [connected |-> TRUE,
              workspaces |-> {[id |-> w.id, can_activate |-> w.can_activate, groups |-> w.groups] :
                              w \in listed}]
  /\ seen' = seen \cup {[id |-> w.id, uid |-> told[w.pointer].uid] : w \in listed}
  /\ UNCHANGED <<sessionVars, handles, groups, next_order, compositorVars, told, groupsTold>>

(* A manager that was bound again before the timer fired: the snapshot is     *)
(* left to the next session.                                                  *)
doneIgnored ==
  /\ Told /\ declared # told
  /\ declared' = told
  /\ finished
  /\ UNCHANGED <<sessionVars, handles, groups, next_order, view, compositorVars, told, groupsTold,
                 seen>>

(* activateWorkspace(), with an id from a snapshot: the request goes to the   *)
(* handle that has the id now.                                                *)
activateWorkspace(id) ==
  /\ spent.activations < MaxActivations
  /\ spent' = [spent EXCEPT !.activations = @ + 1]
  /\ active /\ ~finished
  /\ \E p \in DOMAIN handles :
       /\ handles[p].order = id /\ ~handles[p].hidden /\ handles[p].can_activate
       /\ seen' = seen \cup {[id |-> id, uid |-> told[p].uid]}
  /\ UNCHANGED <<sessionVars, handles, groups, next_order, view, global, actual, told,
                 groupsActual, groupsTold, declared>>

-----------------------------------------------------------------------------
(* The compositor's workspaces change, whether this client is told or not.    *)

Edited(workspaces, existing) ==
  /\ spent.edits < MaxEdits
  /\ spent' = [spent EXCEPT !.edits = @ + 1]
  /\ actual' = workspaces /\ groupsActual' = existing
  /\ UNCHANGED <<sessionVars, handles, groups, next_order, view, global, told, groupsTold,
                 declared, seen>>

Edit ==
  \/ \E p \in Pointers \ DOMAIN actual :
       /\ spent.edits < MaxEdits /\ spent.created < MaxWorkspaces
       /\ spent' = [spent EXCEPT !.edits = @ + 1, !.created = @ + 1]
       /\ actual' = With(actual, p, [uid |-> spent.created, hidden |-> FALSE,
                                     can_activate |-> TRUE, group |-> None])
       /\ UNCHANGED <<sessionVars, handles, groups, next_order, view, global, groupsActual, told,
                      groupsTold, declared, seen>>
  \/ \E p \in DOMAIN actual :
       \/ Edited(Without(actual, p), groupsActual)
       \/ Edited([actual EXCEPT ![p].hidden = ~@], groupsActual)
       \/ Edited([actual EXCEPT ![p].can_activate = ~@], groupsActual)
       \/ \E g \in groupsActual \cup {None} :
            Edited([actual EXCEPT ![p].group = g], groupsActual)
  \/ \E g \in Groups \ groupsActual : Edited(actual, groupsActual \cup {g})
  \/ \E g \in groupsActual :
       /\ \A p \in DOMAIN actual : actual[p].group # g
       /\ Edited(actual, groupsActual \ {g})

(* start() has made the protocol object and published that it waits; the     *)
(* compositor has a workspace.                                                *)
Init ==
  /\ active = FALSE /\ finished = FALSE /\ reconnect_timer = FALSE
  /\ handles = NoWorkspaces /\ groups = NoWorkspaces /\ next_order = 0
  /\ view = Unavailable
  /\ global \in BOOLEAN /\ manager = FALSE
  /\ \E p \in Pointers, g \in Groups :
       actual = [q \in {p} |-> [uid |-> 0, hidden |-> FALSE, can_activate |-> TRUE, group |-> g]]
  /\ told = NoWorkspaces
  /\ groupsActual = Groups /\ groupsTold = {}
  /\ spent = [edits |-> 0, created |-> 1, stops |-> 0, arrivals |-> 0, activations |-> 0]
  /\ declared = None /\ seen = {}

(* The events that tell the client something. *)
TellingOf(p) ==
  \/ workspace(p) \/ properties(p) \/ workspaceRemoved(p)
  \/ \E g \in Groups : workspace_enter(p, g) \/ workspace_leave(p, g)

Telling ==
  \/ \E p \in Pointers : TellingOf(p)
  \/ \E g \in Groups : workspace_group(g) \/ groupRemoved(g)

(* The steps that publish a snapshot, and those that do not. *)
Publishing == done \/ managerFinished \/ globalRemoved
Unpublished ==
  \/ Telling \/ doneIgnored \/ bound \/ connectProtocol \/ globalAdded \/ Edit
  \/ \E id \in {s.id : s \in seen} : activateWorkspace(id)

Next == Publishing \/ Unpublished

Spec == Init /\ [][Next]_genericVars

-----------------------------------------------------------------------------
(* Properties.                                                                *)

(* What a client that follows the protocol shows of the workspaces in "t". *)
Projection(t) ==
  {[uid |-> t[p].uid, can_activate |-> t[p].can_activate, groups |-> {t[p].group} \ {None}] :
   p \in {q \in DOMAIN t : ~t[q].hidden}}

(* What the snapshot shows, by the workspaces its ids stand for. *)
Shown ==
  {[uid |-> sw[1].uid, can_activate |-> sw[2].can_activate, groups |-> sw[2].groups] :
   sw \in {pair \in seen \X view.workspaces : pair[1].id = pair[2].id}}

(* A connected snapshot is what the compositor last declared done, never half *)
(* a batch and nothing of an earlier session or of a handle that is gone      *)
(* ("Pending protocol state becomes visible only at the manager's done        *)
(* event", GenericWorkspaceState.h).                                          *)
ShownIsDeclared == (view.connected /\ declared # None) => Shown = Projection(declared)

(* An id names one workspace forever, over handles that are used again and    *)
(* over sessions: an activation reaches the workspace that the consumer saw.  *)
IdsAreStable == \A s, t \in seen : s.id = t.id => s.uid = t.uid

=============================================================================
