------------------------ MODULE WaylandBackendProofs ------------------------
(***************************************************************************)
(* First the ids and snapshots of ext-workspace-v1: GenericBackend's       *)
(* IdsAreStable and ShownIsDeclared, for any pointers, groups and bounds.  *)
(* A published id stays in the history "seen", while its handle may go and *)
(* its pointer be used again.  The invariant therefore says where ids come *)
(* from: every id, of a handle or published, is below next_order, which no *)
(* session resets, and a handle's id names what the compositor has told    *)
(* about its pointer.  For what is shown, handles and groups are the image *)
(* of what was told, while the manager is bound.                           *)
(*                                                                         *)
(* Then the snapshot of a labwc desktop: LabwcBackend's ShownIsCommitted   *)
(* and FocusShown, for any windows and bounds, and the workspaces'         *)
(* properties of GenericBackend, which hold of the whole since it only     *)
(* adds to it.  Whatever the timer has still to publish, the handles are   *)
(* the image of what the compositor has told: pending of all of it,        *)
(* committed of what each handle's done closed.  The windows that say they *)
(* are active are told apart by their place in the order, and the last one *)
(* told has the highest.                                                   *)
(***************************************************************************)
EXTENDS LabwcBackend, TLAPS

Handle == [order : Nat, hidden : BOOLEAN, can_activate : BOOLEAN]
Workspace == [uid : Nat, hidden : BOOLEAN, can_activate : BOOLEAN, group : Groups \cup {None}]
Function(f, range) == f \in [DOMAIN f -> range]

(* What the steps take for granted of the state. *)
Types ==
  /\ spent \in [edits : Nat, created : Nat, stops : Nat, arrivals : Nat, activations : Nat]
  /\ Function(actual, Workspace) /\ Function(told, Workspace) /\ Function(handles, Handle)
  /\ groupsActual \subseteq Groups
  /\ next_order \in Nat

(* Between two sessions nothing is known. *)
Sessions ==
  /\ manager => active
  /\ ~active => handles = NoWorkspaces

(* The handles are those the compositor has told about. *)
Handles == DOMAIN handles = DOMAIN told

(* Ids are numbered from below, and no two handles have the same. *)
Numbered ==
  /\ \A p \in DOMAIN handles : handles[p].order < next_order
  /\ \A p, q \in DOMAIN handles : handles[p].order = handles[q].order => p = q
  /\ \A s \in seen : s.id \in Nat /\ s.id < next_order

(* What was published under the id of a handle is the handle's workspace. *)
Named == \A s \in seen, p \in DOMAIN handles : s.id = handles[p].order => s.uid = told[p].uid

IInv == Types /\ Sessions /\ Handles /\ Numbered /\ Named /\ IdsAreStable

-----------------------------------------------------------------------------
(* The state with the compositor's events and the spent bounds, before the    *)
(* first of them.                                                             *)
LEMMA InitInv == Init => IInv
<1> SUFFICES ASSUME Init PROVE IInv
  OBVIOUS
<1>1. PICK p \in Pointers, g \in Groups :
        actual = [q \in {p} |-> [uid |-> 0, hidden |-> FALSE, can_activate |-> TRUE, group |-> g]]
  BY DEF Init
<1>2. Types
  BY <1>1 DEF Init, Types, Function, Handle, Workspace, NoWorkspaces
<1>3. Sessions /\ Handles /\ Numbered /\ Named /\ IdsAreStable
  BY DEF Init, Sessions, Handles, Numbered, Named, IdsAreStable, NoWorkspaces
<1> QED
  BY <1>2, <1>3 DEF IInv

(* A step that publishes nothing and leaves the handles that remain as they   *)
(* were named.                                                                *)
LEMMA ForgetsInv ==
  ASSUME IInv, DOMAIN handles' \subseteq DOMAIN handles,
         \A p \in DOMAIN handles' :
           handles'[p].order = handles[p].order /\ told'[p].uid = told[p].uid,
         UNCHANGED <<next_order, seen>>
  PROVE  Numbered' /\ Named' /\ IdsAreStable'
<1>1. Numbered'
  BY DEF IInv, Numbered
<1>2. Named'
  BY DEF IInv, Named
<1> QED
  BY <1>1, <1>2 DEF IInv, IdsAreStable

(* The end of a session, on either side. *)
LEMMA EndsInv ==
  ASSUME IInv, handles' = NoWorkspaces, told' = NoWorkspaces,
         Function(actual', Workspace), groupsActual' \subseteq Groups, manager' => active',
         spent' \in [edits : Nat, created : Nat, stops : Nat, arrivals : Nat, activations : Nat],
         UNCHANGED <<next_order, seen>>
  PROVE  IInv'
<1>1. Types' /\ Sessions' /\ Handles'
  BY DEF IInv, Types, Function, Sessions, Handles, Handle, Workspace, NoWorkspaces
<1>2. Numbered' /\ Named' /\ IdsAreStable'
  BY ForgetsInv DEF NoWorkspaces
<1> QED
  BY <1>1, <1>2 DEF IInv

LEMMA SessionInv ==
  ASSUME IInv, managerFinished \/ globalRemoved \/ connectProtocol
  PROVE  IInv'
<1>1. CASE managerFinished
  BY <1>1, EndsInv DEF managerFinished, Stopping, protocolFinished, clearState, Forgotten, IInv,
     Types, Sessions
<1>2. CASE globalRemoved
  <2>1. handles' = NoWorkspaces
    BY <1>2 DEF globalRemoved, protocolFinished, clearState, IInv, Sessions
  <2> QED
    BY <1>2, <2>1, EndsInv DEF globalRemoved, Stopping, protocolFinished, Forgotten, IInv, Types
<1>3. CASE connectProtocol
  BY <1>3, EndsInv DEF connectProtocol, clearState, Forgotten, compositorVars, IInv, Types
<1> QED
  BY <1>1, <1>2, <1>3

(* The steps that change no handle, nothing told and nothing published. *)
LEMMA IdleInv ==
  ASSUME IInv, bound \/ globalAdded \/ doneIgnored
  PROVE  IInv'
<1>1. UNCHANGED <<handles, told, next_order, seen, actual, groupsActual>>
  BY DEF bound, globalAdded, doneIgnored, compositorVars
<1>2. spent' \in [edits : Nat, created : Nat, stops : Nat, arrivals : Nat, activations : Nat]
  BY DEF bound, globalAdded, doneIgnored, compositorVars, IInv, Types
<1>3. Sessions'
  BY DEF bound, globalAdded, doneIgnored, compositorVars, sessionVars, IInv, Sessions, NoWorkspaces
<1>4. Types' /\ Handles'
  BY <1>1, <1>2 DEF IInv, Types, Function, Handles
<1> QED
  BY <1>1, <1>3, <1>4, ForgetsInv DEF IInv

-----------------------------------------------------------------------------
(* The compositor's events.                                                   *)

LEMMA QuietlyKeeps ==
  ASSUME Quietly
  PROVE  UNCHANGED <<active, manager, actual, groupsActual, spent, seen>>
BY DEF Quietly, sessionVars, compositorVars

(* A new handle takes the next number, which names nothing yet. *)
LEMMA WorkspaceInv ==
  ASSUME IInv, NEW p, workspace(p)
  PROVE  IInv'
<1> DEFINE new == [order |-> next_order, hidden |-> FALSE, can_activate |-> FALSE]
           sent == [uid |-> actual[p].uid, hidden |-> FALSE, can_activate |-> FALSE, group |-> None]
<1>1. /\ manager /\ p \in DOMAIN actual /\ p \notin DOMAIN told /\ p \notin DOMAIN handles
      /\ handles' = [q \in DOMAIN handles \cup {p} |-> IF q = p THEN new ELSE handles[q]]
      /\ told' = [q \in DOMAIN told \cup {p} |-> IF q = p THEN sent ELSE told[q]]
      /\ next_order' = next_order + 1
      /\ UNCHANGED <<active, manager, actual, groupsActual, spent, seen>>
  BY QuietlyKeeps DEF workspace, With, IInv, Handles
<1>2. next_order \in Nat /\ new \in Handle
  BY DEF IInv, Types, Handle
<1>3. sent \in Workspace
  <2>1. actual[p] \in Workspace
    BY <1>1 DEF IInv, Types, Function
  <2> QED
    BY <2>1 DEF Workspace
<1> HIDE DEF sent
<1>4. Types'
  BY <1>1, <1>2, <1>3 DEF IInv, Types, Function
<1>5. Sessions' /\ Handles'
  BY <1>1 DEF IInv, Sessions, Handles
<1>6. Numbered'
  <2>1. \A q \in DOMAIN handles' : handles'[q].order < next_order'
    BY <1>1, <1>2 DEF IInv, Numbered, Types, Function, Handle
  <2>2. \A q, r \in DOMAIN handles' : handles'[q].order = handles'[r].order => q = r
    BY <1>1, <1>2 DEF IInv, Numbered, Types, Function, Handle
  <2>3. \A s \in seen' : s.id \in Nat /\ s.id < next_order'
    BY <1>1, <1>2 DEF IInv, Numbered
  <2> QED
    BY <2>1, <2>2, <2>3 DEF Numbered
<1>7. Named'
  <2> SUFFICES ASSUME NEW s \in seen, NEW q \in DOMAIN handles', s.id = handles'[q].order
               PROVE  s.uid = told'[q].uid
    BY <1>1 DEF Named
  <2>1. q # p
    BY <1>1, <1>2 DEF IInv, Numbered
  <2> QED
    BY <2>1, <1>1 DEF IInv, Named, Handles
<1> QED
  BY <1>1, <1>4, <1>5, <1>6, <1>7 DEF IInv, IdsAreStable

(* state, capabilities and the members of a group change neither the number   *)
(* of a handle nor the workspace it stands for.                               *)
LEMMA ChangesInv ==
  ASSUME IInv, Quietly, manager, next_order' = next_order,
         handles' \in [DOMAIN handles -> Handle], told' \in [DOMAIN told -> Workspace],
         \A p \in DOMAIN handles : handles'[p].order = handles[p].order,
         \A p \in DOMAIN told : told'[p].uid = told[p].uid
  PROVE  IInv'
<1>1. UNCHANGED <<active, manager, actual, groupsActual, spent, seen>>
  BY QuietlyKeeps
<1>2. DOMAIN handles' = DOMAIN handles /\ DOMAIN told' = DOMAIN told
  OBVIOUS
<1>3. Types' /\ Handles' /\ Sessions'
  BY <1>1, <1>2 DEF IInv, Types, Function, Handles, Sessions
<1>4. Numbered' /\ Named' /\ IdsAreStable'
  BY <1>1, <1>2, ForgetsInv DEF IInv, Handles
<1> QED
  BY <1>3, <1>4 DEF IInv

LEMMA PropertiesInv ==
  ASSUME IInv, NEW p, properties(p)
  PROVE  IInv'
<1>1. /\ manager /\ p \in DOMAIN told /\ p \in DOMAIN handles /\ p \in DOMAIN actual
      /\ Quietly /\ next_order' = next_order
  BY DEF properties, Gone, IInv, Handles
<1>2. /\ handles \in [DOMAIN handles -> Handle] /\ told \in [DOMAIN told -> Workspace]
      /\ actual[p] \in Workspace
  BY <1>1 DEF IInv, Types, Function
<1>3. PICK flag \in BOOLEAN :
        \/ /\ handles' = [handles EXCEPT ![p].hidden = flag]
           /\ told' = [told EXCEPT ![p].hidden = flag]
        \/ /\ handles' = [handles EXCEPT ![p].can_activate = flag]
           /\ told' = [told EXCEPT ![p].can_activate = flag]
  BY <1>2 DEF properties, Workspace
<1>4. /\ handles' \in [DOMAIN handles -> Handle]
      /\ \A q \in DOMAIN handles : handles'[q].order = handles[q].order
  BY <1>1, <1>2, <1>3 DEF Handle
<1>5. /\ told' \in [DOMAIN told -> Workspace]
      /\ \A q \in DOMAIN told : told'[q].uid = told[q].uid
  BY <1>1, <1>2, <1>3 DEF Workspace
<1> QED
  BY <1>1, <1>4, <1>5, ChangesInv

LEMMA MembershipInv ==
  ASSUME IInv, NEW p, NEW g \in Groups, workspace_enter(p, g) \/ workspace_leave(p, g)
  PROVE  IInv'
<1>1. /\ manager /\ p \in DOMAIN told /\ Quietly
      /\ UNCHANGED <<handles, next_order>>
  BY DEF workspace_enter, workspace_leave
<1>2. handles \in [DOMAIN handles -> Handle] /\ told \in [DOMAIN told -> Workspace]
  BY DEF IInv, Types, Function
<1>3. PICK group \in Groups \cup {None} : told' = [told EXCEPT ![p].group = group]
  BY DEF workspace_enter, workspace_leave
<1>4. /\ told' \in [DOMAIN told -> Workspace]
      /\ \A q \in DOMAIN told : told'[q].uid = told[q].uid
  BY <1>1, <1>2, <1>3 DEF Workspace
<1> QED
  BY <1>1, <1>2, <1>4, ChangesInv

LEMMA RemovedInv ==
  ASSUME IInv, NEW p, workspaceRemoved(p)
  PROVE  IInv'
<1>1. /\ manager /\ Quietly /\ next_order' = next_order
      /\ handles' = [q \in DOMAIN handles \ {p} |-> handles[q]]
      /\ told' = [q \in DOMAIN told \ {p} |-> told[q]]
  BY DEF workspaceRemoved, Without, Restrict
<1>2. UNCHANGED <<active, manager, actual, groupsActual, spent, seen>>
  BY <1>1, QuietlyKeeps
<1>3. Types' /\ Handles' /\ Sessions'
  BY <1>1, <1>2 DEF IInv, Types, Function, Handles, Sessions
<1>4. Numbered' /\ Named' /\ IdsAreStable'
  BY <1>1, <1>2, ForgetsInv DEF IInv, Handles
<1> QED
  BY <1>3, <1>4 DEF IInv

LEMMA GroupInv ==
  ASSUME IInv, NEW g \in Groups, workspace_group(g) \/ groupRemoved(g)
  PROVE  IInv'
<1>1. manager /\ Quietly /\ UNCHANGED <<handles, told, next_order>>
  BY DEF workspace_group, groupRemoved
<1>2. handles \in [DOMAIN handles -> Handle] /\ told \in [DOMAIN told -> Workspace]
  BY DEF IInv, Types, Function
<1> QED
  BY <1>1, <1>2, ChangesInv

LEMMA TellingInv == IInv /\ Telling => IInv'
<1> SUFFICES ASSUME IInv, Telling PROVE IInv'
  OBVIOUS
<1>1. CASE \E p \in Pointers : TellingOf(p)
  BY <1>1, WorkspaceInv, PropertiesInv, RemovedInv, MembershipInv DEF TellingOf
<1>2. CASE \E g \in Groups : workspace_group(g) \/ groupRemoved(g)
  BY <1>2, GroupInv
<1> QED
  BY <1>1, <1>2 DEF Telling

-----------------------------------------------------------------------------
(* The steps that publish an id, and the compositor's own.                    *)

(* Ids are published together with the workspaces of their handles. *)
LEMMA PublishesInv ==
  ASSUME IInv, UNCHANGED <<handles, told, next_order>>,
         \A s \in seen' : s \in seen \/ \E p \in DOMAIN handles :
                                        s = [id |-> handles[p].order, uid |-> told[p].uid]
  PROVE  Numbered' /\ Named' /\ IdsAreStable'
<1>1. \A s \in seen', p \in DOMAIN handles : s.id = handles[p].order => s.uid = told[p].uid
  BY DEF IInv, Named, Numbered
<1>2. Numbered'
  BY DEF IInv, Numbered, Types, Function, Handle
<1>3. IdsAreStable'
  <2> SUFFICES ASSUME NEW s \in seen', NEW t \in seen', s.id = t.id
               PROVE  s.uid = t.uid
    BY DEF IdsAreStable
  <2>1. CASE s \in seen /\ t \in seen
    BY <2>1 DEF IInv, IdsAreStable
  <2>2. CASE s \notin seen
    BY <2>2, <1>1
  <2>3. CASE t \notin seen
    BY <2>3, <1>1
  <2> QED
    BY <2>1, <2>2, <2>3
<1> QED
  BY <1>1, <1>2, <1>3 DEF Named

LEMMA DoneInv == IInv /\ done => IInv'
<1> SUFFICES ASSUME IInv, done PROVE IInv'
  OBVIOUS
<1>1. UNCHANGED <<active, manager, handles, told, next_order, actual, groupsActual, spent>>
  BY DEF done, sessionVars, compositorVars
<1>2. \A s \in seen' : s \in seen \/ \E p \in DOMAIN handles :
        s = [id |-> handles[p].order, uid |-> told[p].uid]
  BY DEF done, listed
<1>3. Types' /\ Sessions' /\ Handles'
  BY <1>1 DEF IInv, Types, Function, Sessions, Handles
<1> QED
  BY <1>1, <1>2, <1>3, PublishesInv DEF IInv

LEMMA ActivateInv ==
  ASSUME IInv, NEW id, activateWorkspace(id)
  PROVE  IInv'
<1>1. UNCHANGED <<active, manager, handles, told, next_order, actual, groupsActual>>
  BY DEF activateWorkspace, sessionVars
<1>2. \A s \in seen' : s \in seen \/ \E p \in DOMAIN handles :
        s = [id |-> handles[p].order, uid |-> told[p].uid]
  BY DEF activateWorkspace
<1>3. Types' /\ Sessions' /\ Handles'
  BY <1>1 DEF activateWorkspace, IInv, Types, Function, Sessions, Handles
<1> QED
  BY <1>1, <1>2, <1>3, PublishesInv DEF IInv

(* A workspace with one of its flags flipped is a workspace. *)
LEMMA FlagsFlip ==
  ASSUME NEW w \in Workspace
  PROVE  /\ [w EXCEPT !.hidden = ~@] \in Workspace
         /\ [w EXCEPT !.can_activate = ~@] \in Workspace
<1>1. (~w.hidden) \in BOOLEAN /\ (~w.can_activate) \in BOOLEAN
  OBVIOUS
<1>2. \A b \in BOOLEAN : /\ [w EXCEPT !.hidden = b] \in Workspace
                         /\ [w EXCEPT !.can_activate = b] \in Workspace
  BY DEF Workspace
<1> QED
  BY <1>1, <1>2

(* One value of a function is replaced by another of its range. *)
LEMMA FunctionUpdated ==
  ASSUME NEW f, NEW range, f \in [DOMAIN f -> range], NEW p \in DOMAIN f, NEW v \in range
  PROVE  Function([f EXCEPT ![p] = v], range)
BY DEF Function

(* A workspace of the compositor changes; the client is told later. *)
LEMMA EditInv == IInv /\ Edit => IInv'
<1> SUFFICES ASSUME IInv, Edit PROVE IInv'
  OBVIOUS
<1>1. UNCHANGED <<active, manager, handles, told, next_order, seen>>
  BY DEF Edit, Edited, sessionVars
<1>2. actual \in [DOMAIN actual -> Workspace]
  BY DEF IInv, Types, Function
<1>3. spent' \in [edits : Nat, created : Nat, stops : Nat, arrivals : Nat, activations : Nat]
  <2>1. \/ spent' = [spent EXCEPT !.edits = @ + 1]
        \/ spent' = [spent EXCEPT !.edits = @ + 1, !.created = @ + 1]
    BY DEF Edit, Edited
  <2>2. spent.edits + 1 \in Nat /\ spent.created + 1 \in Nat
    BY DEF IInv, Types
  <2>3. CASE spent' = [spent EXCEPT !.edits = @ + 1]
    BY <2>2, <2>3 DEF IInv, Types
  <2>4. CASE spent' = [spent EXCEPT !.edits = @ + 1, !.created = @ + 1]
    <3> DEFINE edited == [spent EXCEPT !.edits = @ + 1]
    <3>1. edited \in [edits : Nat, created : Nat, stops : Nat, arrivals : Nat, activations : Nat]
      BY <2>2 DEF IInv, Types
    <3>2. spent' = [edited EXCEPT !.created = spent.created + 1]
      BY <2>4
    <3> QED
      BY <2>2, <3>1, <3>2
  <2> QED
    BY <2>1, <2>3, <2>4
<1>4. Function(actual', Workspace)
  <2> groupsActual \subseteq Groups
    BY DEF IInv, Types
  <2>1. ASSUME NEW p \in Pointers \ DOMAIN actual, actual' = With(actual, p, [uid |-> spent.created,
               hidden |-> FALSE, can_activate |-> TRUE, group |-> None])
        PROVE  Function(actual', Workspace)
    BY <1>2, <2>1 DEF With, Function, Workspace, IInv, Types
  <2>2. ASSUME NEW p \in DOMAIN actual, actual' = Without(actual, p)
        PROVE  Function(actual', Workspace)
    BY <1>2, <2>2 DEF Without, Restrict, Function
  <2>3. ASSUME NEW p \in DOMAIN actual, actual' = [actual EXCEPT ![p].hidden = ~@]
        PROVE  Function(actual', Workspace)
    <3>1. [actual[p] EXCEPT !.hidden = ~@] \in Workspace
      BY <1>2, FlagsFlip
    <3> QED
      BY <1>2, <2>3, <3>1, FunctionUpdated
  <2>6. ASSUME NEW p \in DOMAIN actual, actual' = [actual EXCEPT ![p].can_activate = ~@]
        PROVE  Function(actual', Workspace)
    <3>1. [actual[p] EXCEPT !.can_activate = ~@] \in Workspace
      BY <1>2, FlagsFlip
    <3> QED
      BY <1>2, <2>6, <3>1, FunctionUpdated
  <2>4. ASSUME NEW p \in DOMAIN actual, NEW g \in Groups \cup {None},
               actual' = [actual EXCEPT ![p].group = g]
        PROVE  Function(actual', Workspace)
    <3>1. [actual[p] EXCEPT !.group = g] \in Workspace
      BY <1>2 DEF Workspace
    <3> QED
      BY <1>2, <2>4, <3>1, FunctionUpdated
  <2> USE <1>2 DEF Edited
  <2>5. ASSUME actual' = actual PROVE Function(actual', Workspace)
    BY <2>5 DEF Function
  <2> QED
    BY <2>1, <2>2, <2>3, <2>4, <2>5, <2>6 DEF Edit
<1>5. groupsActual' \subseteq Groups
  BY DEF Edit, Edited, IInv, Types
<1>6. Types' /\ Sessions' /\ Handles'
  BY <1>1, <1>3, <1>4, <1>5 DEF IInv, Types, Sessions, Handles, Function
<1> QED
  BY <1>1, <1>6, ForgetsInv DEF IInv

-----------------------------------------------------------------------------
LEMMA StutterInv == IInv /\ UNCHANGED genericVars => IInv'
<1> SUFFICES ASSUME IInv, UNCHANGED genericVars PROVE IInv'
  OBVIOUS
<1>1. Types' /\ Sessions' /\ Handles'
  BY DEF genericVars, IInv, Types, Function, Sessions, Handles
<1>2. Numbered' /\ Named' /\ IdsAreStable'
  BY ForgetsInv DEF genericVars, IInv, Numbered, Handles
<1> QED
  BY <1>1, <1>2 DEF IInv

(* The invariant that explains IdsAreStable: where ids come from (next_order_ *)
(* in GenericProtocol's workspace event, never reset by connectProtocol()),   *)
(* and what they stand for.                                                   *)
THEOREM GenericInvariant == Spec => []IInv
<1>1. Init => IInv
  BY InitInv
<1>2. IInv /\ [Next]_genericVars => IInv'
  <2> SUFFICES ASSUME IInv, [Next]_genericVars PROVE IInv'
    OBVIOUS
  <2>1. CASE Publishing
    BY <2>1, DoneInv, SessionInv DEF Publishing
  <2>2. CASE Unpublished
    BY <2>2, TellingInv, IdleInv, SessionInv, EditInv, ActivateInv DEF Unpublished
  <2>3. CASE UNCHANGED genericVars
    BY <2>3, StutterInv
  <2> QED
    BY <2>1, <2>2, <2>3 DEF Next
<1> QED
  BY <1>1, <1>2, PTL DEF Spec

(* An id that was published or activated never names another workspace, for   *)
(* any compositor: over handles whose pointers are used again, managers that  *)
(* finish and globals that come and go.                                       *)
THEOREM StableIds == Spec => []IdsAreStable
<1>1. IInv => IdsAreStable
  BY DEF IInv
<1> QED
  BY <1>1, GenericInvariant, PTL

-----------------------------------------------------------------------------
(* What is shown is what was declared.                                        *)

(* What this client knows is what it was told. *)
Image ==
  /\ \A p \in DOMAIN handles : /\ handles[p].hidden = told[p].hidden
                               /\ handles[p].can_activate = told[p].can_activate
  /\ groupsTold \subseteq Groups /\ DOMAIN groups = groupsTold
  /\ \A g \in groupsTold : groups[g] = {p \in DOMAIN told : told[p].group = g}
  /\ \A p \in DOMAIN told : told[p].group \in groupsTold \cup {None}

(* A finished manager shows nothing, and without the global nothing is known. *)
Withheld == (finished => ~view.connected) /\ (~active => groups = NoWorkspaces)

(* Every workspace shown was published with its id. *)
Listed == \A w \in view.workspaces : \E s \in seen : s.id = w.id

ShownInv == Image /\ Withheld /\ Listed /\ ShownIsDeclared

LEMMA InitShown == Init => ShownInv
<1> SUFFICES ASSUME Init PROVE ShownInv
  OBVIOUS
<1>1. Image /\ Withheld /\ Listed
  BY DEF Init, Image, Withheld, Listed, NoWorkspaces, Unavailable
<1>2. ShownIsDeclared
  BY DEF Init, ShownIsDeclared, Unavailable
<1> QED
  BY <1>1, <1>2 DEF ShownInv

(* A step that publishes nothing. *)
LEMMA KeepsShown ==
  ASSUME ShownInv, Image', UNCHANGED <<view, declared, seen, finished>>,
         ~active' => groups' = NoWorkspaces
  PROVE  ShownInv'
<1>1. Withheld' /\ Listed'
  BY DEF ShownInv, Withheld, Listed
<1>2. ShownIsDeclared'
  BY DEF ShownInv, ShownIsDeclared, Shown, Projection
<1> QED
  BY <1>1, <1>2 DEF ShownInv

(* The compositor's events keep the image. *)
LEMMA WorkspaceShown ==
  ASSUME IInv, ShownInv, NEW p, workspace(p)
  PROVE  Image'
<1>1. p \notin DOMAIN told /\ DOMAIN handles = DOMAIN told
  BY DEF workspace, IInv, Handles
<1>2. /\ DOMAIN handles' = DOMAIN handles \cup {p} /\ DOMAIN told' = DOMAIN told \cup {p}
      /\ ~handles'[p].hidden /\ ~handles'[p].can_activate
      /\ ~told'[p].hidden /\ ~told'[p].can_activate /\ told'[p].group = None
      /\ \A q \in DOMAIN told : told'[q] = told[q] /\ handles'[q] = handles[q]
      /\ UNCHANGED <<groups, groupsTold>>
  BY <1>1 DEF workspace, With
<1>3. handles'[p].hidden = told'[p].hidden /\ handles'[p].can_activate = told'[p].can_activate
  BY <1>1 DEF workspace, With
<1>4. \A g \in groupsTold : g # None
  BY GenericConstants DEF ShownInv, Image
<1> QED
  BY <1>1, <1>2, <1>3, <1>4 DEF ShownInv, Image

LEMMA PropertiesShown ==
  ASSUME IInv, ShownInv, NEW p, properties(p)
  PROVE  Image'
<1>1. /\ p \in DOMAIN told /\ DOMAIN handles = DOMAIN told
      /\ told \in [DOMAIN told -> Workspace] /\ handles \in [DOMAIN handles -> Handle]
  BY DEF properties, IInv, Types, Function, Handles
<1>2. told[p] \in Workspace /\ handles[p] \in Handle
  BY <1>1
<1>3. /\ DOMAIN told' = DOMAIN told /\ DOMAIN handles' = DOMAIN handles
      /\ \A q \in DOMAIN told : told'[q].group = told[q].group
      /\ UNCHANGED <<groups, groupsTold>>
  BY <1>1, <1>2 DEF properties, Workspace
<1>4. \A q \in DOMAIN handles : /\ handles'[q].hidden = told'[q].hidden
                               /\ handles'[q].can_activate = told'[q].can_activate
  <2>1. CASE /\ told' = [told EXCEPT ![p].hidden = actual[p].hidden]
             /\ handles' = [handles EXCEPT ![p].hidden = actual[p].hidden]
    BY <1>1, <1>2, <2>1 DEF ShownInv, Image, Workspace, Handle
  <2>2. CASE /\ told' = [told EXCEPT ![p].can_activate = actual[p].can_activate]
             /\ handles' = [handles EXCEPT ![p].can_activate = actual[p].can_activate]
    BY <1>1, <1>2, <2>2 DEF ShownInv, Image, Workspace, Handle
  <2> QED
    BY <2>1, <2>2 DEF properties
<1> QED
  BY <1>1, <1>3, <1>4 DEF ShownInv, Image

LEMMA MembershipShown ==
  ASSUME IInv, ShownInv, NEW p, NEW g \in Groups, workspace_enter(p, g) \/ workspace_leave(p, g)
  PROVE  Image'
<1>1. /\ p \in DOMAIN told /\ told \in [DOMAIN told -> Workspace] /\ told[p] \in Workspace
      /\ UNCHANGED <<handles, groupsTold>>
  BY DEF workspace_enter, workspace_leave, IInv, Types, Function
<1>2. g \in groupsTold /\ g # None
  BY GenericConstants DEF workspace_enter, workspace_leave, ShownInv, Image
<1>3. PICK group \in {g, None} :
        /\ told' = [told EXCEPT ![p].group = group] /\ told[p].group \in {g, None}
        /\ groups' = [groups EXCEPT ![g] = IF group = g THEN @ \cup {p} ELSE @ \ {p}]
  BY <1>2 DEF workspace_enter, workspace_leave
<1>4. /\ DOMAIN told' = DOMAIN told /\ DOMAIN groups' = DOMAIN groups
      /\ told'[p].group = group
      /\ \A q \in DOMAIN told : /\ told'[q].hidden = told[q].hidden
                                /\ told'[q].can_activate = told[q].can_activate
                                /\ q # p => told'[q].group = told[q].group
  BY <1>1, <1>3 DEF Workspace
<1>5. \A h \in groupsTold : groups'[h] = {q \in DOMAIN told' : told'[q].group = h}
  <2> SUFFICES ASSUME NEW h \in groupsTold
               PROVE  groups'[h] = {q \in DOMAIN told' : told'[q].group = h}
    OBVIOUS
  <2>1. h # None /\ h \in DOMAIN groups /\ groups[h] = {q \in DOMAIN told : told[q].group = h}
    BY GenericConstants DEF ShownInv, Image
  <2>2. CASE h = g
    BY <1>1, <1>2, <1>3, <1>4, <2>1, <2>2
  <2>3. CASE h # g
    BY <1>1, <1>2, <1>3, <1>4, <2>1, <2>3
  <2> QED
    BY <2>2, <2>3
<1>6. \A q \in DOMAIN told' : told'[q].group \in groupsTold \cup {None}
  BY <1>2, <1>3, <1>4 DEF ShownInv, Image
<1> QED
  BY <1>1, <1>4, <1>5, <1>6 DEF ShownInv, Image, IInv, Handles

LEMMA RemovedShown ==
  ASSUME IInv, ShownInv, NEW p, workspaceRemoved(p)
  PROVE  Image'
<1>1. /\ p \in DOMAIN told /\ told[p].group = None /\ UNCHANGED <<groups, groupsTold>>
      /\ handles' = [q \in DOMAIN handles \ {p} |-> handles[q]]
      /\ told' = [q \in DOMAIN told \ {p} |-> told[q]]
  BY DEF workspaceRemoved, Without, Restrict
<1>2. \A g \in groupsTold : g # None
  BY GenericConstants DEF ShownInv, Image
<1>3. \A g \in groupsTold : groups[g] = {q \in DOMAIN told' : told'[q].group = g}
  BY <1>1, <1>2 DEF ShownInv, Image
<1> QED
  BY <1>1, <1>3 DEF ShownInv, Image, IInv, Handles

LEMMA GroupShown ==
  ASSUME IInv, ShownInv, NEW g \in Groups, workspace_group(g) \/ groupRemoved(g)
  PROVE  Image'
<1>1. UNCHANGED <<handles, told>>
  BY DEF workspace_group, groupRemoved
<1>2. g # None
  BY GenericConstants
<1>3. CASE workspace_group(g)
  <2>1. /\ g \notin groupsTold /\ groupsTold' = groupsTold \cup {g}
        /\ DOMAIN groups' = DOMAIN groups \cup {g} /\ groups'[g] = {}
        /\ \A h \in DOMAIN groups : h # g => groups'[h] = groups[h]
    BY <1>3 DEF workspace_group, With
  <2>2. \A q \in DOMAIN told : told[q].group # g
    BY <1>2, <2>1 DEF ShownInv, Image
  <2> QED
    BY <1>1, <2>1, <2>2 DEF ShownInv, Image
<1>4. CASE groupRemoved(g)
  <2>1. /\ groupsTold' = groupsTold \ {g} /\ \A q \in DOMAIN told : told[q].group # g
        /\ groups' = [h \in DOMAIN groups \ {g} |-> groups[h]]
    BY <1>4 DEF groupRemoved, Without, Restrict
  <2> QED
    BY <1>1, <2>1 DEF ShownInv, Image
<1> QED
  BY <1>3, <1>4

LEMMA TellingShown == IInv /\ ShownInv /\ Telling => ShownInv'
<1> SUFFICES ASSUME IInv, ShownInv, Telling PROVE ShownInv'
  OBVIOUS
<1>1. /\ manager /\ Quietly
  BY DEF Telling, TellingOf, workspace, properties, workspace_enter, workspace_leave,
     workspaceRemoved, workspace_group, groupRemoved
<1>2. Image'
  <2>1. CASE \E p \in Pointers : TellingOf(p)
    BY <2>1, WorkspaceShown, PropertiesShown, RemovedShown, MembershipShown DEF TellingOf
  <2>2. CASE \E g \in Groups : workspace_group(g) \/ groupRemoved(g)
    BY <2>2, GroupShown
  <2> QED
    BY <2>1, <2>2 DEF Telling
<1>3. UNCHANGED <<view, declared, seen, finished, active>> /\ active
  BY <1>1 DEF Quietly, sessionVars, IInv, Sessions
<1> QED
  BY <1>2, <1>3, KeepsShown

(* The end of a session, on either side. *)
LEMMA SessionShown ==
  ASSUME IInv, ShownInv, managerFinished \/ globalRemoved \/ connectProtocol
  PROVE  ShownInv'
<1>1. handles' = NoWorkspaces /\ groups' = NoWorkspaces
  BY DEF managerFinished, globalRemoved, connectProtocol, protocolFinished, clearState, IInv,
     Sessions, ShownInv, Withheld
<1>2. told' = NoWorkspaces /\ groupsTold' = {} /\ declared' = None
  BY DEF managerFinished, globalRemoved, connectProtocol, Forgotten
<1>3. UNCHANGED seen /\ (view' = Unavailable \/ UNCHANGED view)
  BY DEF managerFinished, globalRemoved, connectProtocol, protocolFinished
<1>4. Image'
  <2>1. DOMAIN handles' = {} /\ DOMAIN told' = {} /\ DOMAIN groups' = {}
    BY <1>1, <1>2 DEF NoWorkspaces
  <2> QED
    BY <1>2, <2>1 DEF Image
<1>5. finished' => ~view'.connected
  <2>1. view' = Unavailable \/ finished' = FALSE \/ UNCHANGED <<view, finished>>
    BY DEF managerFinished, globalRemoved, connectProtocol, protocolFinished
  <2>2. ~Unavailable.connected
    BY DEF Unavailable
  <2> QED
    BY <2>1, <2>2 DEF ShownInv, Withheld
<1>6. Listed'
  BY <1>3 DEF ShownInv, Listed, Unavailable
<1> QED
  BY <1>1, <1>2, <1>4, <1>5, <1>6 DEF ShownInv, Withheld, ShownIsDeclared

LEMMA IdleShown ==
  ASSUME ShownInv, bound \/ globalAdded \/ Edit \/ UNCHANGED genericVars
  PROVE  ShownInv'
<1>1. UNCHANGED <<handles, groups, told, groupsTold, view, declared, seen, finished>>
  BY DEF bound, globalAdded, Edit, Edited, sessionVars, genericVars
<1>2. ~active' => ~active
  BY DEF bound, globalAdded, Edit, Edited, sessionVars, genericVars
<1>3. Image'
  BY <1>1 DEF ShownInv, Image
<1> QED
  BY <1>1, <1>2, <1>3, KeepsShown DEF ShownInv, Withheld

(* A done that is ignored is sent to a backend that shows nothing. *)
LEMMA IgnoredShown ==
  ASSUME ShownInv, doneIgnored
  PROVE  ShownInv'
<1>1. finished /\ UNCHANGED <<sessionVars, handles, groups, told, groupsTold, view, seen>>
  BY DEF doneIgnored
<1>2. Image' /\ Listed'
  BY <1>1 DEF ShownInv, Image, Listed
<1>3. Withheld' /\ ~view'.connected
  BY <1>1 DEF sessionVars, ShownInv, Withheld
<1> QED
  BY <1>2, <1>3 DEF ShownInv, ShownIsDeclared

(* The groups of a handle are the one group the workspace was told to be in.  *)
LEMMA GroupsOf ==
  ASSUME ShownInv, NEW p \in DOMAIN told
  PROVE  {g \in DOMAIN groups : p \in groups[g]} = {told[p].group} \ {None}
BY GenericConstants DEF ShownInv, Image

(* done: the snapshot shows what was told, by ids that stand for it. *)
LEMMA DoneShown ==
  ASSUME IInv, IInv', ShownInv, done
  PROVE  ShownInv'
<1> DEFINE visible == {p \in DOMAIN handles : ~handles[p].hidden}
           Id(p) == [id |-> handles[p].order, uid |-> told[p].uid]
           Entry(p) == [id |-> handles[p].order, can_activate |-> handles[p].can_activate,
                        groups |-> {g \in DOMAIN groups : p \in groups[g]}]
           Meant(p) == [uid |-> told[p].uid, can_activate |-> told[p].can_activate,
                        groups |-> {told[p].group} \ {None}]
           Full(p) == [id |-> handles[p].order, pointer |-> p,
                       can_activate |-> handles[p].can_activate,
                       groups |-> {g \in DOMAIN groups : p \in groups[g]}]
           Shorter(w) == [id |-> w.id, can_activate |-> w.can_activate, groups |-> w.groups]
<1>1. /\ ~finished /\ declared' = told
      /\ UNCHANGED <<sessionVars, handles, groups, told, groupsTold>>
  BY DEF done
<1>0. listed = {Full(p) : p \in visible}
  BY DEF listed
<1>2. /\ \A w \in view'.workspaces : \E p \in visible : w = Entry(p)
      /\ \A p \in visible : Entry(p) \in view'.workspaces
  <2>1. view'.workspaces = {Shorter(w) : w \in listed}
    BY DEF done
  <2>2. \A p \in visible : Shorter(Full(p)) = Entry(p)
    OBVIOUS
  <2>3. ASSUME NEW w \in view'.workspaces PROVE \E p \in visible : w = Entry(p)
    <3>1. PICK l \in listed : w = Shorter(l)
      BY <2>1
    <3>2. PICK p \in visible : l = Full(p)
      BY <1>0
    <3> QED
      BY <2>2, <3>1, <3>2
  <2>4. ASSUME NEW p \in visible PROVE Entry(p) \in view'.workspaces
    <3>1. Full(p) \in listed
      BY <1>0
    <3>2. Shorter(Full(p)) \in view'.workspaces
      <4> HIDE DEF Full, Shorter
      <4> QED
        BY <2>1, <3>1
    <3> QED
      BY <2>2, <3>2
  <2> QED
    BY <2>3, <2>4
<1>3. \A p \in visible : Id(p) \in seen'
  <2>1. seen' = seen \cup {[id |-> w.id, uid |-> told[w.pointer].uid] : w \in listed}
    BY DEF done
  <2>2. \A p \in visible : Full(p) \in listed /\ Full(p).id = Id(p).id /\ Full(p).pointer = p
    BY <1>0
  <2> QED
    BY <2>1, <2>2
<1>4. \A p \in visible :
        /\ p \in DOMAIN told /\ ~told[p].hidden
        /\ Entry(p).can_activate = Meant(p).can_activate /\ Entry(p).groups = Meant(p).groups
  BY GroupsOf DEF IInv, Handles, ShownInv, Image
<1>5. visible = {q \in DOMAIN told : ~told[q].hidden}
  BY DEF IInv, Handles, ShownInv, Image
<1>6. Projection(told) = {Meant(p) : p \in visible}
  BY <1>5 DEF Projection
<1>7. Shown' \subseteq Projection(told)
  <2> SUFFICES ASSUME NEW pair \in seen' \X view'.workspaces, pair[1].id = pair[2].id
               PROVE  [uid |-> pair[1].uid, can_activate |-> pair[2].can_activate,
                       groups |-> pair[2].groups] \in Projection(told)
    BY DEF Shown
  <2>1. PICK p \in visible : pair[2] = Entry(p)
    BY <1>2
  <2>2. pair[1] \in seen' /\ Id(p) \in seen' /\ Id(p).id = pair[1].id
    BY <1>3, <2>1
  <2>3. pair[1].uid = told[p].uid
    BY <2>2 DEF IInv, IdsAreStable
  <2>4. /\ pair[2].can_activate = told[p].can_activate
        /\ pair[2].groups = {told[p].group} \ {None}
    BY <1>4, <2>1
  <2> QED
    BY <1>6, <2>1, <2>3, <2>4
<1>8. Projection(told) \subseteq Shown'
  <2> SUFFICES ASSUME NEW p \in visible PROVE Meant(p) \in Shown'
    BY <1>6
  <2> DEFINE pair == <<Id(p), Entry(p)>>
  <2>1. pair \in seen' \X view'.workspaces /\ pair[1].id = pair[2].id
    BY <1>2, <1>3
  <2>2. Meant(p) = [uid |-> pair[1].uid, can_activate |-> pair[2].can_activate,
                    groups |-> pair[2].groups]
    BY <1>4
  <2> QED
    BY <2>1, <2>2 DEF Shown
<1>9. Image' /\ Withheld'
  <2>1. Image'
    BY <1>1 DEF ShownInv, Image
  <2>2. ~finished' /\ active' = active
    BY <1>1 DEF sessionVars
  <2> QED
    BY <1>1, <2>1, <2>2 DEF ShownInv, Withheld
<1>10. Listed'
  <2> SUFFICES ASSUME NEW w \in view'.workspaces PROVE \E s \in seen' : s.id = w.id
    BY DEF Listed
  <2>1. PICK p \in visible : w = Entry(p)
    BY <1>2
  <2>2. Id(p) \in seen' /\ Id(p).id = w.id
    BY <1>3, <2>1
  <2> QED
    BY <2>2
<1>11. ShownIsDeclared'
  <2>1. Shown' = Projection(told)'
    BY <1>1, <1>7, <1>8 DEF Projection
  <2> QED
    BY <1>1, <2>1 DEF ShownIsDeclared, Projection
<1> QED
  BY <1>9, <1>10, <1>11 DEF ShownInv

(* An activation that uses an id again tells nothing new about it. *)
LEMMA ActivateShown ==
  ASSUME IInv, IInv', ShownInv, NEW id, activateWorkspace(id)
  PROVE  ShownInv'
<1>1. UNCHANGED <<sessionVars, handles, groups, told, groupsTold, view, declared>>
  BY DEF activateWorkspace
<1>2. seen \subseteq seen'
  BY DEF activateWorkspace
<1>3. Image' /\ Withheld' /\ Listed'
  BY <1>1, <1>2 DEF sessionVars, ShownInv, Image, Withheld, Listed
<1>4. Shown' = Shown
  <2>1. Shown \subseteq Shown'
    BY <1>1, <1>2 DEF Shown
  <2>2. ASSUME NEW pair \in seen' \X view.workspaces, pair[1].id = pair[2].id
        PROVE  [uid |-> pair[1].uid, can_activate |-> pair[2].can_activate,
                groups |-> pair[2].groups] \in Shown
    <3>1. PICK s \in seen : s.id = pair[2].id
      BY <2>2 DEF ShownInv, Listed
    <3>2. s.uid = pair[1].uid
      BY <1>2, <2>2, <3>1 DEF IInv, IdsAreStable
    <3>3. <<s, pair[2]>> \in seen \X view.workspaces
      BY <2>2, <3>1
    <3> QED
      BY <3>1, <3>2, <3>3 DEF Shown
  <2>3. Shown' \subseteq Shown
    <3> SUFFICES ASSUME NEW x \in Shown' PROVE x \in Shown
      OBVIOUS
    <3>1. PICK pair \in seen' \X view'.workspaces :
            /\ pair[1].id = pair[2].id
            /\ x = [uid |-> pair[1].uid, can_activate |-> pair[2].can_activate,
                    groups |-> pair[2].groups]
      BY DEF Shown
    <3>2. pair \in seen' \X view.workspaces
      BY <1>1
    <3> QED
      BY <2>2, <3>1, <3>2
  <2> QED
    BY <2>1, <2>3
<1>5. ShownIsDeclared'
  BY <1>1, <1>4 DEF ShownInv, ShownIsDeclared, Projection
<1> QED
  BY <1>3, <1>5 DEF ShownInv

LEMMA NextShown == IInv /\ IInv' /\ ShownInv /\ [Next]_genericVars => ShownInv'
<1> SUFFICES ASSUME IInv, IInv', ShownInv, [Next]_genericVars PROVE ShownInv'
  OBVIOUS
<1>1. CASE Publishing
  BY <1>1, DoneShown, SessionShown DEF Publishing
<1>2. CASE Unpublished
  BY <1>2, TellingShown, IdleShown, IgnoredShown, SessionShown, ActivateShown DEF Unpublished
<1>3. CASE UNCHANGED genericVars
  BY <1>3, IdleShown
<1> QED
  BY <1>1, <1>2, <1>3 DEF Next

(* A connected snapshot is what the compositor last declared done, never half *)
(* a batch and nothing of an earlier session or of a handle that is gone:     *)
(* what the handle events build up is exactly what they told, whatever their  *)
(* order, and publishSnapshotOnDone() projects all of it.                     *)
THEOREM DeclaredIsShown == Spec => []ShownIsDeclared
<1>1. Init => ShownInv
  BY InitShown
<1>2. IInv /\ IInv' /\ ShownInv /\ [Next]_genericVars => ShownInv'
  BY NextShown
<1>3. ShownInv => ShownIsDeclared
  BY DEF ShownInv
<1> QED
  BY <1>1, <1>2, <1>3, GenericInvariant, PTL DEF Spec

-----------------------------------------------------------------------------
(* labwc: the windows beside the workspaces.                                *)

WindowState == [title : BOOLEAN, activated : BOOLEAN, order : Nat]
ToplevelState == [pending : WindowState, committed : WindowState, ready : BOOLEAN]

WindowTypes ==
  /\ windows \in [DOMAIN windows -> ToplevelState] /\ DOMAIN windows \subseteq Windows
  /\ titles \in [DOMAIN titles -> BOOLEAN] /\ DOMAIN titles \subseteq Windows
  /\ focus \in DOMAIN titles \cup {None}
  /\ activation_order \in Nat

(* Without a manager nothing is known of any window. *)
WindowSession ==
  /\ toplevelManager \in BOOLEAN /\ toplevelGlobal \in BOOLEAN
  /\ available = toplevelManager
  /\ toplevelManager => toplevelActive
  /\ ~toplevelManager => windows = NoWindows

(* The handles are what was told, and what was told when each had its done. *)
WindowImage ==
  /\ titlesTold = [w \in DOMAIN windows |-> windows[w].pending.title]
  /\ activatedTold = [w \in DOMAIN windows |-> windows[w].pending.activated]
  /\ committedTold = [w \in {v \in DOMAIN windows : windows[v].ready} |->
                        [title |-> windows[w].committed.title,
                         activated |-> windows[w].committed.activated]]
  /\ undone \subseteq DOMAIN windows
  /\ \A w \in DOMAIN windows \ undone : windows[w].ready /\ windows[w].committed = windows[w].pending

(* The window told last that it is active has the highest place. *)
WindowOrder ==
  /\ \A w \in DOMAIN windows : /\ windows[w].committed.order <= activation_order
                               /\ windows[w].pending.order <= activation_order
  /\ latest # None =>
       /\ latest \in DOMAIN windows /\ windows[latest].pending.activated /\ activation_order > 0
       /\ windows[latest].pending.order = activation_order
       /\ \A w \in DOMAIN windows \ {latest} : /\ windows[w].committed.order < activation_order
                                               /\ windows[w].pending.order < activation_order

(* What was published is what would be published now. *)
Current == ~publish_pending => snapshot = Merged

LabwcInv == WindowTypes /\ WindowSession /\ WindowImage /\ WindowOrder /\ Current

-----------------------------------------------------------------------------
(* What publish() puts together depends on the handles that are ready alone.  *)

Ready == {w \in DOMAIN windows : windows[w].ready}

LEMMA MergedKept ==
  ASSUME UNCHANGED <<view, available>>, Ready' = Ready,
         \A w \in Ready : windows'[w].committed = windows[w].committed
  PROVE  Merged' = Merged
<1> DEFINE ready == IF available THEN Ready ELSE {}
           shown == [w \in ready |-> [title |-> windows[w].committed.title,
                                     activated |-> windows[w].committed.activated]]
<1>1. ready' = ready /\ ready \subseteq Ready
  OBVIOUS
<1>2. \A w \in ready : windows'[w].committed = windows[w].committed
  BY <1>1
<1>3. shown' = shown
  BY <1>1, <1>2
<1>4. active_(ready)' = active_(ready)
  BY <1>1, <1>2 DEF active_
<1>5. Merged = [connected |-> view.connected \/ available, workspaces |-> view.workspaces,
                window_listing |-> available, windows |-> shown, active |-> active_(ready)]
  BY DEF Merged, Ready
<1>6. Merged' = [connected |-> view'.connected \/ available', workspaces |-> view'.workspaces,
                 window_listing |-> available', windows |-> shown', active |-> active_(ready)']
  BY DEF Merged, Ready
<1> HIDE DEF ready, shown
<1> QED
  BY <1>3, <1>4, <1>5, <1>6

LEMMA WindowInit == LabwcInit => LabwcInv
<1> SUFFICES ASSUME LabwcInit PROVE LabwcInv
  OBVIOUS
<1>1. PICK w \in Windows : titles = [v \in {w} |-> FALSE] /\ focus = w
  BY DEF LabwcInit
<1>2. WindowTypes
  BY <1>1 DEF LabwcInit, WindowTypes, NoWindows
<1>3. WindowSession
  BY Zenon DEF LabwcInit, WindowSession
<1>4. WindowImage
  BY DEF LabwcInit, WindowImage, NoWindows
<1>5. WindowOrder
  BY DEF LabwcInit, WindowOrder, NoWindows
<1>6. Current
  BY DEF LabwcInit, Current
<1> QED
  BY <1>2, <1>3, <1>4, <1>5, <1>6 DEF LabwcInv

-----------------------------------------------------------------------------
(* The session.                                                               *)

(* Nothing is known of any window. *)
LEMMA NothingKnown ==
  ASSUME LabwcInv, windows' = NoWindows, ForgottenWindows,
         publish_pending' = TRUE, available' = toplevelManager',
         toplevelManager' \in BOOLEAN, toplevelGlobal' \in BOOLEAN,
         toplevelManager' => toplevelActive',
         UNCHANGED <<activation_order, titles, focus>>
  PROVE  LabwcInv'
<1>1. DOMAIN windows' = {}
  BY DEF NoWindows
<1>2. WindowTypes'
  BY <1>1 DEF LabwcInv, WindowTypes
<1>3. WindowSession'
  BY DEF WindowSession
<1>4. WindowImage'
  BY <1>1 DEF ForgottenWindows, WindowImage, NoWindows
<1>5. WindowOrder'
  BY <1>1 DEF ForgottenWindows, WindowOrder
<1> QED
  BY <1>2, <1>3, <1>4, <1>5 DEF LabwcInv, Current

(* The windows are left as they are. *)
LEMMA WindowsKept ==
  ASSUME LabwcInv,
         UNCHANGED <<windows, activation_order, titlesTold, activatedTold, committedTold, undone,
                     latest>>,
         WindowSession', Current',
         titles' \in [DOMAIN titles' -> BOOLEAN], DOMAIN titles' \subseteq Windows,
         focus' \in DOMAIN titles' \cup {None}
  PROVE  LabwcInv'
<1>1. WindowTypes'
  BY DEF LabwcInv, WindowTypes
<1>2. WindowImage'
  BY DEF LabwcInv, WindowImage
<1>3. WindowOrder'
  BY DEF LabwcInv, WindowOrder
<1> QED
  BY <1>1, <1>2, <1>3 DEF LabwcInv

(* A step that publishes nothing and commits nothing. *)
LEMMA CurrentKept ==
  ASSUME LabwcInv, UNCHANGED <<view, available, snapshot, publish_pending>>, Ready' = Ready,
         \A w \in Ready : windows'[w].committed = windows[w].committed
  PROVE  Current'
BY MergedKept DEF LabwcInv, Current

LEMMA SessionWindows ==
  ASSUME LabwcInv, view' = view,
         \/ toplevelManagerFinished \/ toplevelGlobalRemoved
         \/ toplevelGlobalAdded \/ connectToplevels
  PROVE  LabwcInv'
<1>1. CASE toplevelManagerFinished
  <2>1. available' = FALSE /\ toplevelManager' = FALSE /\ toplevelGlobal' \in BOOLEAN
    BY <1>1 DEF LabwcInv, WindowSession, toplevelManagerFinished, toplevelsFinished
  <2>2. /\ available' = toplevelManager' /\ toplevelManager' \in BOOLEAN
        /\ toplevelManager' => toplevelActive'
    BY <2>1, Zenon
  <2> QED
    BY <1>1, <2>1, <2>2, NothingKnown DEF toplevelManagerFinished, toplevelsFinished
<1>2. CASE toplevelGlobalRemoved /\ toplevelActive
  <2>1. available' = FALSE /\ toplevelManager' = FALSE /\ toplevelGlobal' \in BOOLEAN
    BY <1>2 DEF LabwcInv, WindowSession, toplevelGlobalRemoved, toplevelsFinished
  <2>2. /\ available' = toplevelManager' /\ toplevelManager' \in BOOLEAN
        /\ toplevelManager' => toplevelActive'
    BY <2>1, Zenon
  <2> QED
    BY <1>2, <2>1, <2>2, NothingKnown DEF toplevelGlobalRemoved, toplevelsFinished
<1>3. CASE toplevelGlobalRemoved /\ ~toplevelActive
  <2>1. /\ UNCHANGED <<available, windows, publish_pending, snapshot, activation_order, titles,
                       focus, titlesTold, activatedTold, committedTold, undone, latest>>
        /\ toplevelManager' = FALSE /\ toplevelGlobal' = FALSE
    BY <1>3 DEF toplevelGlobalRemoved, toldVars
  <2>2. ~toplevelManager
    BY <1>3, Zenon DEF LabwcInv, WindowSession
  <2>3. WindowSession'
    BY <2>1, <2>2 DEF LabwcInv, WindowSession
  <2>4. Current'
    BY <2>1, CurrentKept DEF Ready
  <2> QED
    BY <2>1, <2>3, <2>4, WindowsKept DEF LabwcInv, WindowTypes
<1>4. CASE toplevelGlobalAdded
  <2>1. /\ UNCHANGED <<windows, activation_order, titles, focus, titlesTold, activatedTold,
                       committedTold, undone, latest>>
        /\ publish_pending' = TRUE
    BY <1>4 DEF toplevelGlobalAdded, toldVars
  <2>2. available' = TRUE /\ toplevelManager' = TRUE /\ toplevelActive' = TRUE
        /\ toplevelGlobal' = TRUE
    BY <1>4 DEF toplevelGlobalAdded
  <2>3. WindowSession' /\ Current'
    BY <2>1, <2>2 DEF WindowSession, Current
  <2> QED
    BY <2>1, <2>3, WindowsKept DEF LabwcInv, WindowTypes
<1>5. CASE connectToplevels
  <2>1. /\ available' = toplevelManager' /\ toplevelManager' \in BOOLEAN
        /\ toplevelManager' => toplevelActive'
        /\ toplevelGlobal' \in BOOLEAN
    BY <1>5 DEF connectToplevels, desktopVars, LabwcInv, WindowSession
  <2> QED
    BY <1>5, <2>1, NothingKnown DEF connectToplevels, desktopVars
<1> QED
  BY <1>1, <1>2, <1>3, <1>4, <1>5

-----------------------------------------------------------------------------
(* Events of the handles.                                                     *)

LEMMA QuietlyKeepsWindows ==
  ASSUME LabwcInv, QuietlyWindows, toplevelManager
  PROVE  /\ UNCHANGED <<toplevelActive, toplevelManager, toplevelGlobal, available,
                        publish_pending, snapshot, titles, focus>>
         /\ WindowSession'
<1>1. UNCHANGED <<toplevelActive, toplevelManager, toplevelGlobal, available, publish_pending,
                  snapshot, titles, focus>>
  BY DEF QuietlyWindows, protocolVars, desktopVars
<1> QED
  BY <1>1 DEF LabwcInv, WindowSession

LEMMA ToplevelWindow ==
  ASSUME LabwcInv, view' = view, NEW w \in Windows, toplevel(w)
  PROVE  LabwcInv'
<1> DEFINE new == [pending |-> Blank, committed |-> Blank, ready |-> FALSE]
<1>1. /\ toplevelManager /\ QuietlyWindows /\ w \notin DOMAIN windows
      /\ windows' = [v \in DOMAIN windows \cup {w} |-> IF v = w THEN new ELSE windows[v]]
      /\ titlesTold' = [v \in DOMAIN titlesTold \cup {w} |-> IF v = w THEN FALSE ELSE titlesTold[v]]
      /\ activatedTold' =
           [v \in DOMAIN activatedTold \cup {w} |-> IF v = w THEN FALSE ELSE activatedTold[v]]
      /\ undone' = undone \cup {w} /\ UNCHANGED <<activation_order, committedTold, latest>>
  BY DEF toplevel, With, LabwcInv, WindowImage
<1>2. /\ UNCHANGED <<available, publish_pending, snapshot, titles, focus>>
      /\ WindowSession'
  BY <1>1, QuietlyKeepsWindows
<1>3. new \in ToplevelState /\ new.pending.title = FALSE /\ new.pending.activated = FALSE
      /\ new.pending.order = 0 /\ new.committed.order = 0 /\ new.ready = FALSE
  BY DEF Blank, ToplevelState, WindowState
<1> HIDE DEF new
<1>4. WindowTypes'
  BY <1>1, <1>2, <1>3 DEF LabwcInv, WindowTypes
<1>5. /\ DOMAIN windows' = DOMAIN windows \cup {w} /\ windows'[w] = new
      /\ \A v \in DOMAIN windows : windows'[v] = windows[v]
  BY <1>1
<1>6. Ready' = Ready
  BY <1>1, <1>3, <1>5 DEF Ready
<1>7. WindowImage'
  <2>1. titlesTold' = [v \in DOMAIN windows' |-> windows'[v].pending.title]
    BY <1>1, <1>3, <1>5 DEF LabwcInv, WindowImage
  <2>2. activatedTold' = [v \in DOMAIN windows' |-> windows'[v].pending.activated]
    BY <1>1, <1>3, <1>5 DEF LabwcInv, WindowImage
  <2>3. committedTold' = [v \in Ready' |-> [title |-> windows'[v].committed.title,
                                           activated |-> windows'[v].committed.activated]]
    BY <1>1, <1>5, <1>6 DEF LabwcInv, WindowImage, Ready
  <2>4. /\ undone' \subseteq DOMAIN windows'
        /\ \A v \in DOMAIN windows' \ undone' :
             windows'[v].ready /\ windows'[v].committed = windows'[v].pending
    BY <1>1, <1>5 DEF LabwcInv, WindowImage
  <2> QED
    BY <2>1, <2>2, <2>3, <2>4 DEF WindowImage, Ready
<1>8. WindowOrder'
  BY <1>1, <1>3, <1>5 DEF LabwcInv, WindowTypes, WindowOrder
<1>9. Current'
  BY <1>2, <1>5, <1>6, CurrentKept DEF Ready
<1> QED
  BY <1>2, <1>4, <1>7, <1>8, <1>9 DEF LabwcInv

(* What was told and is not done yet: committed stays behind. *)
LEMMA TitleWindow ==
  ASSUME LabwcInv, view' = view, NEW w \in Windows, title(w)
  PROVE  LabwcInv'
<1>1. /\ toplevelManager /\ QuietlyWindows /\ w \in DOMAIN windows /\ w \in DOMAIN titles
      /\ windows' = [windows EXCEPT ![w].pending.title = titles[w]]
      /\ titlesTold' = [titlesTold EXCEPT ![w] = titles[w]]
      /\ undone' = undone \cup {w}
      /\ UNCHANGED <<activation_order, activatedTold, committedTold, latest>>
  BY DEF title, LabwcInv, WindowImage
<1>2. /\ UNCHANGED <<available, publish_pending, snapshot, titles, focus>>
      /\ WindowSession'
  BY <1>1, QuietlyKeepsWindows
<1>3. windows[w] \in ToplevelState /\ titles[w] \in BOOLEAN
  BY <1>1 DEF LabwcInv, WindowTypes
<1>4. /\ DOMAIN windows' = DOMAIN windows
      /\ \A v \in DOMAIN windows : v # w => windows'[v] = windows[v]
      /\ windows'[w].pending = [windows[w].pending EXCEPT !.title = titles[w]]
      /\ windows'[w].committed = windows[w].committed /\ windows'[w].ready = windows[w].ready
      /\ windows'[w] \in ToplevelState
  BY <1>1, <1>3 DEF ToplevelState, WindowState, LabwcInv, WindowTypes
<1>5. /\ windows'[w].pending.title = titles[w]
      /\ windows'[w].pending.activated = windows[w].pending.activated
      /\ windows'[w].pending.order = windows[w].pending.order
  BY <1>3, <1>4 DEF ToplevelState, WindowState
<1>6. WindowTypes'
  <2>1. windows' = [v \in DOMAIN windows |-> windows'[v]]
    BY <1>1
  <2> QED
    BY <1>1, <1>2, <1>4, <2>1 DEF LabwcInv, WindowTypes
<1>7. Ready' = Ready /\ \A v \in Ready : windows'[v].committed = windows[v].committed
  BY <1>4 DEF Ready
<1>8. WindowImage'
  <2>1. titlesTold' = [v \in DOMAIN windows' |-> windows'[v].pending.title]
    BY <1>1, <1>4, <1>5 DEF LabwcInv, WindowImage
  <2>2. activatedTold' = [v \in DOMAIN windows' |-> windows'[v].pending.activated]
    BY <1>1, <1>4, <1>5 DEF LabwcInv, WindowImage
  <2>3. committedTold' = [v \in Ready' |-> [title |-> windows'[v].committed.title,
                                           activated |-> windows'[v].committed.activated]]
    BY <1>1, <1>7 DEF LabwcInv, WindowImage, Ready
  <2>4. /\ undone' \subseteq DOMAIN windows'
        /\ \A v \in DOMAIN windows' \ undone' :
             windows'[v].ready /\ windows'[v].committed = windows'[v].pending
    BY <1>1, <1>4 DEF LabwcInv, WindowImage
  <2> QED
    BY <2>1, <2>2, <2>3, <2>4 DEF WindowImage, Ready
<1>9. WindowOrder'
  BY <1>1, <1>4, <1>5 DEF LabwcInv, WindowOrder
<1>10. Current'
  BY <1>2, <1>7, CurrentKept
<1> QED
  BY <1>2, <1>6, <1>8, <1>9, <1>10 DEF LabwcInv

(* A window that becomes active takes a place above all others. *)
LEMMA StateWindow ==
  ASSUME LabwcInv, view' = view, NEW w \in Windows, state(w)
  PROVE  LabwcInv'
<1> DEFINE order == IF activatedTold[w] THEN activation_order ELSE activation_order + 1
           place == IF activatedTold[w] THEN windows[w].pending.order ELSE order
           pending == [windows[w].pending EXCEPT !.activated = ~activatedTold[w], !.order = place]
<1>1. /\ toplevelManager /\ QuietlyWindows /\ w \in DOMAIN windows /\ w \in DOMAIN titles
      /\ activatedTold' = [activatedTold EXCEPT ![w] = ~@]
      /\ undone' = undone \cup {w}
      /\ latest' = IF ~activatedTold[w] THEN w ELSE IF latest = w THEN None ELSE latest
      /\ activation_order' = order
      /\ UNCHANGED <<titlesTold, committedTold>>
  BY DEF state, LabwcInv, WindowImage
<1>2. /\ UNCHANGED <<available, publish_pending, snapshot, titles, focus>>
      /\ WindowSession'
  BY <1>1, QuietlyKeepsWindows
<1>3. /\ windows[w] \in ToplevelState /\ activation_order \in Nat
      /\ activatedTold[w] = windows[w].pending.activated
  BY <1>1 DEF LabwcInv, WindowTypes, WindowImage
<1>4. activatedTold[w] \in BOOLEAN
  BY <1>3 DEF ToplevelState, WindowState
<1>5. windows' = [windows EXCEPT ![w] = [windows[w] EXCEPT !.pending = pending]]
  BY <1>1, <1>3 DEF state, ToplevelState, WindowState, LabwcInv, WindowTypes
<1>6. /\ DOMAIN windows' = DOMAIN windows
      /\ \A v \in DOMAIN windows : v # w => windows'[v] = windows[v]
      /\ windows'[w] = [windows[w] EXCEPT !.pending = pending]
  BY <1>1, <1>5 DEF LabwcInv, WindowTypes
<1>7. /\ pending \in WindowState /\ pending.title = windows[w].pending.title
      /\ pending.activated = ~activatedTold[w] /\ pending.order = place
  <2>1. place \in Nat /\ (~activatedTold[w]) \in BOOLEAN
    BY <1>3, <1>4 DEF ToplevelState, WindowState
  <2> HIDE DEF place
  <2> QED
    BY <1>3, <2>1 DEF ToplevelState, WindowState
<1> HIDE DEF pending
<1>8. /\ windows'[w].pending = pending /\ windows'[w].committed = windows[w].committed
      /\ windows'[w].ready = windows[w].ready /\ windows'[w] \in ToplevelState
  BY <1>3, <1>6, <1>7 DEF ToplevelState
<1>9. WindowTypes'
  <2>1. windows' = [v \in DOMAIN windows |-> windows'[v]]
    BY <1>5
  <2>2. activation_order' \in Nat
    BY <1>1, <1>3, <1>4
  <2> QED
    BY <1>2, <1>6, <1>8, <2>1, <2>2 DEF LabwcInv, WindowTypes
<1>10. Ready' = Ready /\ \A v \in Ready : windows'[v].committed = windows[v].committed
  BY <1>6, <1>8 DEF Ready
<1>11. WindowImage'
  <2>1. titlesTold' = [v \in DOMAIN windows' |-> windows'[v].pending.title]
    BY <1>1, <1>6, <1>7, <1>8 DEF LabwcInv, WindowImage
  <2>2. activatedTold' = [v \in DOMAIN windows' |-> windows'[v].pending.activated]
    BY <1>1, <1>6, <1>7, <1>8 DEF LabwcInv, WindowImage
  <2>3. committedTold' = [v \in Ready' |-> [title |-> windows'[v].committed.title,
                                           activated |-> windows'[v].committed.activated]]
    BY <1>1, <1>10 DEF LabwcInv, WindowImage, Ready
  <2>4. /\ undone' \subseteq DOMAIN windows'
        /\ \A v \in DOMAIN windows' \ undone' :
             windows'[v].ready /\ windows'[v].committed = windows'[v].pending
    BY <1>1, <1>6, <1>8 DEF LabwcInv, WindowImage
  <2> QED
    BY <2>1, <2>2, <2>3, <2>4 DEF WindowImage, Ready
<1>12. WindowOrder'
  <2>1. \A v \in DOMAIN windows :
          /\ windows[v].committed.order \in Nat /\ windows[v].pending.order \in Nat
          /\ windows[v].committed.order <= activation_order
          /\ windows[v].pending.order <= activation_order
    BY DEF LabwcInv, WindowTypes, WindowOrder, ToplevelState, WindowState
  <2>2. CASE activatedTold[w]
    <3>1. /\ activation_order' = activation_order /\ pending.order = windows[w].pending.order
          /\ latest' = IF latest = w THEN None ELSE latest
      BY <1>1, <1>7, <2>2
    <3> QED
      BY <1>6, <1>8, <2>1, <3>1 DEF LabwcInv, WindowOrder
  <2>3. CASE ~activatedTold[w]
    <3>1. /\ activation_order' = activation_order + 1 /\ pending.order = activation_order + 1
          /\ latest' = w /\ pending.activated = TRUE
      BY <1>1, <1>7, <2>3
    <3>2. \A v \in DOMAIN windows \ {w} :
            /\ windows'[v].committed.order < activation_order + 1
            /\ windows'[v].pending.order < activation_order + 1
      BY <1>3, <1>6, <2>1
    <3>3. \A v \in DOMAIN windows : /\ windows'[v].committed.order <= activation_order + 1
                                   /\ windows'[v].pending.order <= activation_order + 1
      <4>1. /\ windows'[w].committed.order <= activation_order + 1
            /\ windows'[w].pending.order <= activation_order + 1
        BY <1>1, <1>3, <1>8, <2>1, <3>1
      <4>2. \A v \in DOMAIN windows \ {w} :
              /\ windows'[v].committed.order <= activation_order + 1
              /\ windows'[v].pending.order <= activation_order + 1
        <5> TAKE v \in DOMAIN windows \ {w}
        <5>1. windows'[v] = windows[v]
          BY <1>6
        <5> QED
          BY <1>3, <2>1, <5>1
      <4> QED
        BY <4>1, <4>2
    <3>4. w \in DOMAIN windows' /\ windows'[w].pending.activated /\ activation_order' > 0
      BY <1>1, <1>3, <1>6, <1>8, <3>1
    <3> QED
      BY <1>6, <1>8, <3>1, <3>2, <3>3, <3>4 DEF WindowOrder
  <2> QED
    BY <2>2, <2>3
<1>13. Current'
  BY <1>2, <1>10, CurrentKept
<1> QED
  BY <1>2, <1>9, <1>11, <1>12, <1>13 DEF LabwcInv

(* done: what is pending of the handle is committed. *)
LEMMA DoneWindow ==
  ASSUME LabwcInv, NEW w \in Windows, windowDone(w)
  PROVE  LabwcInv'
<1>1. /\ toplevelManager /\ w \in DOMAIN windows /\ w \in undone
      /\ undone' = undone \ {w}
      /\ committedTold' = With(committedTold, w, [title |-> titlesTold[w],
                                                 activated |-> activatedTold[w]])
      /\ windows' = [windows EXCEPT ![w].committed = windows[w].pending, ![w].ready = TRUE]
      /\ publish_pending' = TRUE
      /\ UNCHANGED <<activation_order, titlesTold, activatedTold, latest>>
  BY DEF windowDone, LabwcInv, WindowImage
<1>2. /\ UNCHANGED <<toplevelActive, toplevelManager, toplevelGlobal, available, titles, focus>>
      /\ WindowSession'
  <2>1. UNCHANGED <<toplevelActive, toplevelManager, toplevelGlobal, available, titles, focus>>
    BY DEF windowDone, protocolVars, desktopVars
  <2> QED
    BY <1>1, <2>1 DEF LabwcInv, WindowSession
<1>3. windows[w] \in ToplevelState
  BY <1>1 DEF LabwcInv, WindowTypes
<1>4. /\ DOMAIN windows' = DOMAIN windows
      /\ \A v \in DOMAIN windows : v # w => windows'[v] = windows[v]
      /\ windows'[w].pending = windows[w].pending /\ windows'[w].committed = windows[w].pending
      /\ windows'[w].ready = TRUE /\ windows'[w] \in ToplevelState
  BY <1>1, <1>3 DEF ToplevelState, LabwcInv, WindowTypes
<1>5. WindowTypes'
  <2>1. windows' = [v \in DOMAIN windows |-> windows'[v]]
    BY <1>1
  <2> QED
    BY <1>1, <1>2, <1>4, <2>1 DEF LabwcInv, WindowTypes
<1>6. Ready' = Ready \cup {w}
  BY <1>1, <1>4 DEF Ready
<1>7. WindowImage'
  <2>1. titlesTold' = [v \in DOMAIN windows' |-> windows'[v].pending.title]
    BY <1>1, <1>4 DEF LabwcInv, WindowImage
  <2>2. activatedTold' = [v \in DOMAIN windows' |-> windows'[v].pending.activated]
    BY <1>1, <1>4 DEF LabwcInv, WindowImage
  <2>3. committedTold' = [v \in Ready' |-> [title |-> windows'[v].committed.title,
                                           activated |-> windows'[v].committed.activated]]
    <3>1. DOMAIN committedTold = Ready
      BY DEF LabwcInv, WindowImage, Ready
    <3>2. committedTold' = [v \in Ready \cup {w} |->
                              IF v = w THEN [title |-> titlesTold[w], activated |-> activatedTold[w]]
                              ELSE committedTold[v]]
      BY <1>1, <3>1 DEF With
    <3>3. \A v \in Ready : v # w =>
            committedTold[v] = [title |-> windows'[v].committed.title,
                                activated |-> windows'[v].committed.activated]
      BY <1>4 DEF LabwcInv, WindowImage, Ready
    <3>4. /\ titlesTold[w] = windows'[w].committed.title
          /\ activatedTold[w] = windows'[w].committed.activated
      BY <1>1, <1>4 DEF LabwcInv, WindowImage
    <3> QED
      BY <1>6, <3>2, <3>3, <3>4
  <2>4. /\ undone' \subseteq DOMAIN windows'
        /\ \A v \in DOMAIN windows' \ undone' :
             windows'[v].ready /\ windows'[v].committed = windows'[v].pending
    BY <1>1, <1>4 DEF LabwcInv, WindowImage
  <2> QED
    BY <2>1, <2>2, <2>3, <2>4 DEF WindowImage, Ready
<1>8. WindowOrder'
  BY <1>1, <1>4 DEF LabwcInv, WindowOrder
<1>9. Current'
  BY <1>1 DEF Current
<1> QED
  BY <1>2, <1>5, <1>7, <1>8, <1>9 DEF LabwcInv

LEMMA ClosedWindow ==
  ASSUME LabwcInv, NEW w \in Windows, closed(w)
  PROVE  LabwcInv'
<1> DEFINE left == DOMAIN windows \ {w}
<1>1. /\ toplevelManager /\ w \in DOMAIN windows
      /\ undone' = undone \ {w} /\ latest' = IF latest = w THEN None ELSE latest
      /\ publish_pending' = TRUE /\ activation_order' = activation_order
      /\ titlesTold' = Without(titlesTold, w) /\ activatedTold' = Without(activatedTold, w)
      /\ committedTold' = Without(committedTold, w) /\ windows' = Without(windows, w)
  BY DEF closed, LabwcInv, WindowImage
<1>2. /\ UNCHANGED <<toplevelActive, toplevelManager, toplevelGlobal, available, titles, focus>>
      /\ WindowSession'
  <2>1. UNCHANGED <<toplevelActive, toplevelManager, toplevelGlobal, available, titles, focus>>
    BY DEF closed, protocolVars, desktopVars
  <2> QED
    BY <1>1, <2>1 DEF LabwcInv, WindowSession
<1>3. windows' = [v \in left |-> windows[v]]
  BY <1>1 DEF Without, Restrict
<1>4. DOMAIN windows' = left /\ \A v \in left : windows'[v] = windows[v]
  BY <1>3
<1>5. WindowTypes'
  BY <1>1, <1>2, <1>3, <1>4 DEF LabwcInv, WindowTypes
<1>6. WindowImage'
  <2>1. titlesTold' = [v \in left |-> windows'[v].pending.title]
    BY <1>1, <1>4 DEF Without, Restrict, LabwcInv, WindowImage
  <2>2. activatedTold' = [v \in left |-> windows'[v].pending.activated]
    BY <1>1, <1>4 DEF Without, Restrict, LabwcInv, WindowImage
  <2>3. committedTold' = [v \in Ready' |-> [title |-> windows'[v].committed.title,
                                           activated |-> windows'[v].committed.activated]]
    <3>1. DOMAIN committedTold = Ready /\ Ready' = Ready \ {w}
      BY <1>4 DEF LabwcInv, WindowImage, Ready
    <3>2. committedTold' = [v \in Ready' |-> committedTold[v]]
      BY <1>1, <3>1 DEF Without, Restrict
    <3>3. \A v \in Ready' : /\ v \in Ready /\ windows'[v] = windows[v]
                           /\ committedTold[v] = [title |-> windows[v].committed.title,
                                                   activated |-> windows[v].committed.activated]
      BY <1>4, <3>1 DEF LabwcInv, WindowImage, Ready
    <3> QED
      BY <3>2, <3>3
  <2>4. /\ undone' \subseteq left
        /\ \A v \in left \ undone' : windows'[v].ready /\ windows'[v].committed = windows'[v].pending
    BY <1>1, <1>4 DEF LabwcInv, WindowImage
  <2> QED
    BY <1>4, <2>1, <2>2, <2>3, <2>4 DEF WindowImage, Ready
<1>7. WindowOrder'
  BY <1>1, <1>4 DEF LabwcInv, WindowOrder
<1>8. Current'
  BY <1>1 DEF Current
<1> QED
  BY <1>2, <1>5, <1>6, <1>7, <1>8 DEF LabwcInv

-----------------------------------------------------------------------------
(* The timer, and the steps that tell this client nothing.                    *)

LEMMA PublishWindows ==
  ASSUME LabwcInv, view' = view, publish
  PROVE  LabwcInv'
<1>1. /\ snapshot' = Merged
      /\ UNCHANGED <<toplevelActive, toplevelManager, toplevelGlobal, available, titles, focus,
                     windows, activation_order, titlesTold, activatedTold, committedTold, undone,
                     latest>>
  BY DEF publish, protocolVars, toldVars, desktopVars
<1>2. Merged' = Merged
  BY <1>1, MergedKept DEF Ready
<1>3. WindowSession' /\ Current'
  BY <1>1, <1>2 DEF LabwcInv, WindowSession, Current
<1> QED
  BY <1>1, <1>3, WindowsKept DEF LabwcInv, WindowTypes

LEMMA DesktopWindows ==
  ASSUME LabwcInv, view' = view, NEW open, NEW focused, Desktop(open, focused),
         open \in [DOMAIN open -> BOOLEAN], DOMAIN open \subseteq Windows,
         focused \in DOMAIN open \cup {None}
  PROVE  LabwcInv'
<1>1. /\ titles' = open /\ focus' = focused
      /\ UNCHANGED <<toplevelActive, toplevelManager, toplevelGlobal, available, publish_pending,
                     snapshot, windows, activation_order, titlesTold, activatedTold,
                     committedTold, undone, latest>>
  BY DEF Desktop, protocolVars, toldVars
<1>2. WindowSession'
  BY <1>1 DEF LabwcInv, WindowSession
<1>3. Current'
  BY <1>1, CurrentKept DEF Ready
<1> QED
  BY <1>1, <1>2, <1>3, WindowsKept

LEMMA EditsWindows ==
  ASSUME LabwcInv, view' = view, EditWindows
  PROVE  LabwcInv'
<1> USE DEF LabwcInv, WindowTypes
<1>1. ASSUME NEW w \in Windows \ (DOMAIN titles \cup DOMAIN titlesTold),
             Desktop(With(titles, w, TRUE), w)
      PROVE  LabwcInv'
  <2> DEFINE open == With(titles, w, TRUE)
  <2>1. open \in [DOMAIN open -> BOOLEAN] /\ DOMAIN open \subseteq Windows /\ w \in DOMAIN open
    BY DEF With
  <2> HIDE DEF open, LabwcInv, WindowTypes
  <2> QED
    BY <1>1, <2>1, DesktopWindows DEF open
<1>2. ASSUME NEW w \in DOMAIN titles, Desktop([titles EXCEPT ![w] = ~@], focus)
      PROVE  LabwcInv'
  <2> DEFINE open == [titles EXCEPT ![w] = ~@]
  <2>1. DOMAIN open = DOMAIN titles /\ open \in [DOMAIN open -> BOOLEAN]
    BY Zenon
  <2> HIDE DEF open
  <2>2. DOMAIN open \subseteq Windows /\ focus \in DOMAIN open \cup {None}
    BY <2>1
  <2> HIDE DEF LabwcInv, WindowTypes
  <2> QED
    BY <1>2, <2>1, <2>2, DesktopWindows DEF open
<1>3. ASSUME NEW w \in DOMAIN titles,
             Desktop(Without(titles, w), IF focus = w THEN None ELSE focus)
      PROVE  LabwcInv'
  <2> DEFINE open == Without(titles, w)
             focused == IF focus = w THEN None ELSE focus
  <2>1. /\ open \in [DOMAIN open -> BOOLEAN] /\ DOMAIN open \subseteq Windows
        /\ focused \in DOMAIN open \cup {None}
    BY DEF Without, Restrict
  <2> HIDE DEF open, focused, LabwcInv, WindowTypes
  <2> QED
    BY <1>3, <2>1, DesktopWindows DEF open, focused
<1>4. ASSUME NEW w \in DOMAIN titles, Desktop(titles, w)
      PROVE  LabwcInv'
  BY <1>4, DesktopWindows
<1> HIDE DEF LabwcInv, WindowTypes
<1> QED
  BY <1>1, <1>2, <1>3, <1>4 DEF EditWindows

LEMMA CommandWindows ==
  ASSUME LabwcInv, view' = view, NEW w \in Windows, requestWindowCommand(w)
  PROVE  LabwcInv'
<1> DEFINE focused == IF w \in DOMAIN titles THEN w ELSE focus
<1>1. Desktop(titles, focused)
  BY DEF requestWindowCommand
<1>2. /\ titles \in [DOMAIN titles -> BOOLEAN] /\ DOMAIN titles \subseteq Windows
      /\ focused \in DOMAIN titles \cup {None}
  BY DEF LabwcInv, WindowTypes
<1> HIDE DEF focused
<1> QED
  BY <1>1, <1>2, DesktopWindows

(* The workspaces publish only when a snapshot of both is scheduled. *)
LEMMA UnpublishedKeepsView ==
  ASSUME Unpublished
  PROVE  view' = view
<1>1. CASE Telling
  BY <1>1 DEF Telling, TellingOf, workspace, properties, workspaceRemoved, workspace_enter,
     workspace_leave, workspace_group, groupRemoved, Quietly
<1>2. CASE doneIgnored \/ bound \/ connectProtocol \/ globalAdded
  BY <1>2 DEF doneIgnored, bound, connectProtocol, globalAdded
<1>3. CASE Edit
  BY <1>3 DEF Edit, Edited
<1>4. ASSUME NEW id, activateWorkspace(id) PROVE view' = view
  BY <1>4 DEF activateWorkspace
<1> QED
  BY <1>1, <1>2, <1>3, <1>4 DEF Unpublished

LEMMA UnchangedWindows ==
  ASSUME LabwcInv, UNCHANGED <<protocolVars, available, windows, activation_order, snapshot,
                               toldVars, desktopVars>>,
         publish_pending' = TRUE \/ UNCHANGED <<view, publish_pending>>
  PROVE  LabwcInv'
<1>1. UNCHANGED <<toplevelActive, toplevelManager, toplevelGlobal, available, titles, focus,
                  snapshot, windows, activation_order, titlesTold, activatedTold, committedTold,
                  undone, latest>>
  BY DEF protocolVars, toldVars, desktopVars
<1>2. WindowSession'
  BY <1>1 DEF LabwcInv, WindowSession
<1>3. Current'
  BY <1>1, CurrentKept DEF Ready, Current
<1> QED
  BY <1>1, <1>2, <1>3, WindowsKept DEF LabwcInv, WindowTypes

LEMMA LabwcNextInv == LabwcInv /\ [LabwcNext]_allVars => LabwcInv'
<1> SUFFICES ASSUME LabwcInv, [LabwcNext]_allVars PROVE LabwcInv'
  OBVIOUS
<1>1. CASE /\ Publishing /\ publish_pending' = TRUE
           /\ UNCHANGED <<protocolVars, available, windows, activation_order, snapshot, toldVars,
                          desktopVars>>
  BY <1>1, UnchangedWindows
<1>2. CASE Unpublished /\ UNCHANGED labwcVars
  BY <1>2, UnpublishedKeepsView, UnchangedWindows DEF labwcVars
<1>3. CASE WindowSteps /\ UNCHANGED genericVars
  <2>1. view' = view
    BY <1>3 DEF genericVars
  <2>2. CASE publish
    BY <2>1, <2>2, PublishWindows
  <2>3. CASE TellingWindows
    BY <2>1, <2>3, ToplevelWindow, TitleWindow, StateWindow, DoneWindow, ClosedWindow
       DEF TellingWindows
  <2>4. CASE \/ toplevelManagerFinished \/ toplevelGlobalRemoved
             \/ toplevelGlobalAdded \/ connectToplevels
    BY <2>1, <2>4, SessionWindows
  <2>5. CASE EditWindows
    BY <2>1, <2>5, EditsWindows
  <2>6. CASE \E w \in Windows : requestWindowCommand(w)
    BY <2>1, <2>6, CommandWindows
  <2> QED
    BY <1>3, <2>2, <2>3, <2>4, <2>5, <2>6 DEF WindowSteps
<1>4. CASE UNCHANGED allVars
  BY <1>4, UnchangedWindows DEF allVars, labwcVars, genericVars
<1> QED
  BY <1>1, <1>2, <1>3, <1>4 DEF LabwcNext

(* However the two protocols, the windows and the timer interleave, the       *)
(* handles are the image of what was told and the snapshot, once nothing is   *)
(* scheduled, is what publish() would put together now.                       *)
THEOREM LabwcInvariant == LabwcSpec => []LabwcInv
<1>1. LabwcInit => LabwcInv
  BY WindowInit
<1>2. LabwcInv /\ [LabwcNext]_allVars => LabwcInv'
  BY LabwcNextInv
<1> QED
  BY <1>1, <1>2, PTL DEF LabwcSpec

-----------------------------------------------------------------------------
(* What the snapshot shows.                                                   *)

LEMMA SnapshotIsMerged ==
  ASSUME LabwcInv, ~publish_pending
  PROVE  /\ snapshot.connected = (view.connected \/ available)
         /\ snapshot.workspaces = view.workspaces
         /\ snapshot.window_listing = available
         /\ available => /\ snapshot.windows = committedTold
                         /\ snapshot.active = active_(Ready)
         /\ ~available => snapshot.windows = [w \in {} |-> None]
<1> DEFINE shown(ready) == [w \in ready |-> [title |-> windows[w].committed.title,
                                            activated |-> windows[w].committed.activated]]
           ready == IF available THEN Ready ELSE {}
<1>1. snapshot = [connected |-> view.connected \/ available, workspaces |-> view.workspaces,
                  window_listing |-> available, windows |-> shown(ready),
                  active |-> active_(ready)]
  BY DEF LabwcInv, Current, Merged, Ready
<1>2. committedTold = shown(Ready)
  BY DEF LabwcInv, WindowImage, Ready
<1>3. shown({}) = [w \in {} |-> None]
  OBVIOUS
<1> HIDE DEF shown
<1> QED
  BY <1>1, <1>2, <1>3

LEMMA CommittedShown == LabwcInv => ShownIsCommitted
<1> SUFFICES ASSUME LabwcInv, ~publish_pending
             PROVE  /\ snapshot.window_listing = toplevelManager
                    /\ snapshot.windows = committedTold
                    /\ snapshot.workspaces = view.workspaces
                    /\ snapshot.connected = (view.connected \/ toplevelManager)
  BY DEF ShownIsCommitted
<1>1. available = toplevelManager /\ (~toplevelManager => windows = NoWindows)
  BY DEF LabwcInv, WindowSession
<1>2. snapshot.windows = committedTold
  <2>1. CASE available
    BY <2>1, SnapshotIsMerged
  <2>2. CASE ~available
    <3>1. DOMAIN windows = {}
      BY <1>1, <2>2 DEF NoWindows
    <3>2. committedTold = [w \in {} |-> None]
      BY <3>1 DEF LabwcInv, WindowImage
    <3> QED
      BY <2>2, <3>2, SnapshotIsMerged
  <2> QED
    BY <2>1, <2>2
<1> QED
  BY <1>1, <1>2, SnapshotIsMerged

(* Once the timer has run, the snapshot shows each window as it was at the    *)
(* last done of its handle, the workspaces as last published, and of a        *)
(* protocol that is gone nothing (LabwcBackend::publish()).                   *)
THEOREM Committed == LabwcSpec => []ShownIsCommitted
BY LabwcInvariant, CommittedShown, PTL

(* The window told last, once its handle is done, outranks every other.       *)
LEMMA LatestIsActive ==
  ASSUME LabwcInv, latest = focus, focus \in DOMAIN committedTold \ undone
  PROVE  active_(Ready) = {focus} \ {None}
<1>1. /\ focus \in Ready /\ focus \in DOMAIN windows /\ focus \in Windows
      /\ windows[focus].committed = windows[focus].pending
  BY DEF LabwcInv, WindowImage, WindowTypes, Ready
<1>2. latest # None
  BY <1>1, LabwcConstants
<1>3. /\ windows[focus].committed.activated
      /\ windows[focus].committed.order = activation_order
      /\ \A w \in DOMAIN windows \ {focus} : windows[w].committed.order < activation_order
  BY <1>1, <1>2 DEF LabwcInv, WindowOrder
<1>4. activation_order \in Nat /\ \A w \in DOMAIN windows : windows[w].committed.order \in Nat
  BY DEF LabwcInv, WindowTypes, ToplevelState, WindowState
<1>5. focus \in active_(Ready)
  BY <1>1, <1>3, <1>4 DEF active_, Ready
<1>6. ASSUME NEW w \in active_(Ready) PROVE w = focus
  BY <1>1, <1>3, <1>4, <1>6 DEF active_, Ready
<1> QED
  BY <1>1, <1>2, <1>5, <1>6

(* When all is told, one window at most says that it is active.               *)
LEMMA OnlyFocusIsActive ==
  ASSUME LabwcInv,
         committedTold = [w \in DOMAIN titles |-> [title |-> titles[w], activated |-> focus = w]]
  PROVE  active_(Ready) = {focus} \ {None}
<1>1. Ready = DOMAIN titles /\ DOMAIN titles \subseteq Windows
  BY DEF LabwcInv, WindowImage, WindowTypes, Ready
<1>2. \A w \in Ready : windows[w].committed.activated <=> focus = w
  <2> TAKE w \in Ready
  <2>1. committedTold[w] = [title |-> windows[w].committed.title,
                            activated |-> windows[w].committed.activated]
    BY DEF LabwcInv, WindowImage, Ready
  <2>2. committedTold[w] = [title |-> titles[w], activated |-> focus = w]
    BY <1>1
  <2>3. windows[w].committed.activated = committedTold[w].activated
    BY <2>1
  <2>4. committedTold[w].activated = (focus = w)
    BY <2>2
  <2> QED
    BY <2>3, <2>4, Zenon
<1>3. \A w \in Ready : windows[w].committed.order \in Nat
  BY DEF LabwcInv, WindowTypes, ToplevelState, WindowState, Ready
<1>4. focus # None => focus \in Ready
  BY <1>1 DEF LabwcInv, WindowTypes
<1>5. active_(Ready) = {w \in Ready : focus = w}
  BY <1>2, <1>3 DEF active_
<1> QED
  BY <1>1, <1>4, <1>5, LabwcConstants

LEMMA ActiveIsFocus == LabwcInv => FocusShown
<1> SUFFICES ASSUME LabwcInv, ~publish_pending, toplevelManager,
                    \/ latest = focus /\ focus \in DOMAIN committedTold \ undone
                    \/ committedTold = [w \in DOMAIN titles |->
                                          [title |-> titles[w], activated |-> focus = w]]
             PROVE  snapshot.active = {focus} \ {None}
  BY DEF FocusShown
<1>1. snapshot.active = active_(Ready)
  BY SnapshotIsMerged DEF LabwcInv, WindowSession
<1> QED
  BY <1>1, LatestIsActive, OnlyFocusIsActive

(* The window shown as active is the one that has the focus, in the middle of *)
(* a transfer too, when two say that they are active                          *)
(* (ForeignToplevelState::setActivated() and active()).                       *)
THEOREM FocusIsShown == LabwcSpec => []FocusShown
BY LabwcInvariant, ActiveIsFocus, PTL

-----------------------------------------------------------------------------
(* LabwcBackend takes nothing from the backend it owns: whatever holds of the *)
(* workspaces alone holds of the whole.                                       *)

(* Every step of the whole is one of GenericBackend, or none of its.          *)
THEOREM Composes == LabwcSpec => Spec
<1>1. LabwcInit => Init
  BY DEF LabwcInit
<1>2. [LabwcNext]_allVars => [Next]_genericVars
  <2>1. UNCHANGED allVars => UNCHANGED genericVars
    BY DEF allVars
  <2> QED
    BY <2>1 DEF LabwcNext, Next
<1> QED
  BY <1>1, <1>2, PTL DEF LabwcSpec, Spec

(* The ids of the merged snapshot stay what they were, and its workspaces are *)
(* those last declared done, whatever the windows do meanwhile.               *)
THEOREM WorkspacesKeepTheirPromises == LabwcSpec => []IdsAreStable /\ []ShownIsDeclared
BY Composes, StableIds, DeclaredIsShown, PTL

=============================================================================
