----------------------- MODULE StorageControllerProofs -----------------------
(***************************************************************************)
(* Proofs about StorageController, for every set of requests, devices and  *)
(* topologies.  IInv is the inductive invariant; a request is followed     *)
(* from its timer to its current call, whose shape decides what a reply    *)
(* may do to it.                                                           *)
(***************************************************************************)
EXTENDS StorageController, TLAPS

(* Where a request is in its life and what it was asked. *)
LifeInv ==
  \A r \in RequestIds :
    /\ r \in pending => /\ outcome[r] = "none"
                        /\ asked[r].operation \in Operations
                        /\ asked[r].target \in Targets
    /\ r \notin pending => request[r] = Blank
    /\ (r \notin pending /\ outcome[r] = "none") => steps[r] = {}

(* The timer of an open request: nothing issued, refused iff nothing held. *)
TimerInv ==
  \A t \in timers :
    /\ t.request \in pending => /\ request[t.request].step = 0
                                /\ (t.refusal = "none") <=> (request[t.request].scope # {})
    /\ t.request \notin pending => outcome[t.request] # "none"
    /\ \A u \in timers : u.request = t.request => u = t

(* The unanswered call of an open request is its current step. *)
CallInv ==
  \A c \in calls :
    /\ c.request \in pending =>
         /\ c.step = request[c.request].step
         /\ c.target \in request[c.request].scope
         /\ c.operation \in Removals => c.operation = asked[c.request].operation
         /\ request[c.request].final => /\ c.operation = asked[c.request].operation
                                        /\ c.target = asked[c.request].target
    /\ c.request \notin pending => outcome[c.request] # "none"
    /\ \A e \in calls : (c.request \in pending /\ e.request = c.request) => e = c

(* Every open request has something that will wake it. *)
WakeInv ==
  \A r \in pending :
    /\ request[r].step = 0 => \E t \in timers : t.request = r
    /\ request[r].step # 0 => \E c \in calls : c.request = r

(* What an accepted request holds. *)
ScopeInv ==
  \A r \in pending :
    /\ request[r].scope # {} =>
         /\ asked[r].target \in request[r].scope
         /\ request[r].unmounts \subseteq request[r].scope
         /\ asked[r].operation = "PowerOff" => request[r].scope = asked[r].confirmed
    /\ request[r].scope = {} => request[r].step = 0
    /\ request[r].step = 0 => ~request[r].final

AwayInv ==
  ~available => /\ topology = NoTopology
                /\ \A r \in pending : request[r].scope = {}

StepInv == \A r \in pending : \A s \in steps[r] : s.error = "none"

RequestInv ==
  /\ LifeInv
  /\ TimerInv
  /\ CallInv
  /\ WakeInv
  /\ ScopeInv
  /\ ScopesDisjoint
  /\ StepInv
  /\ SuccessIsEarned

IInv == TypeOK /\ RequestInv /\ AwayInv

-----------------------------------------------------------------------------
(* What removalScope() and begin() compute is a set of devices.             *)
LEMMA RemovalScopeType ==
  ASSUME TypeOK, NEW d, NEW powerOff
  PROVE  removalScope(d, powerOff) \in SUBSET Targets
  BY DEF TypeOK, Topology, removalScope, Targets

(* The scope of a request is a set of devices with its target among them.   *)
LEMMA ScopeOfType ==
  ASSUME TypeOK, NEW operation \in Operations, NEW target \in Targets
  PROVE  /\ ScopeOf(operation, target) \in SUBSET Targets
         /\ Present(operation, target) => target \in ScopeOf(operation, target)
<1>1. CASE operation \in Removals
  <2>1. ScopeOf(operation, target) = removalScope(target, operation = "PowerOff")
    BY <1>1 DEF ScopeOf
  <2>2. Present(operation, target) => target \in removalScope(target, operation = "PowerOff")
    BY <1>1 DEF Present, removalScope
  <2>. QED  BY <2>1, <2>2, RemovalScopeType
<1>2. CASE operation \notin Removals
  BY <1>2 DEF ScopeOf, TypeOK, Topology, Targets
<1>. QED  BY <1>1, <1>2

(* Ending requests that are open keeps RequestInv, provided the others keep *)
(* their timers and calls and success was earned (finish()).                *)
LEMMA FinishInv ==
  ASSUME TypeOK, RequestInv,
         NEW R \in SUBSET pending, NEW result \in Errors \cup {"ok"},
         Finish(R, result), asked' = asked,
         calls' \in SUBSET calls, timers' \in SUBSET timers,
         \A c \in calls : c.request \in pending \ R => c \in calls',
         \A t \in timers : t.request \in pending \ R => t \in timers',
         \A r \in RequestIds \ R : steps'[r] = steps[r],
         result = "ok" =>
           \A r \in R : /\ [operation |-> asked[r].operation,
                            target |-> asked[r].target, error |-> "none"] \in steps'[r]
                        /\ \A s \in steps'[r] : s.error = "none"
  PROVE  RequestInv'
<1>1. pending' = pending \ R /\ pending \subseteq RequestIds /\ R \subseteq RequestIds
  BY DEF Finish, TypeOK
<1>2. \A r \in pending' : request'[r] = request[r] /\ outcome'[r] = outcome[r]
                          /\ steps'[r] = steps[r]
  BY <1>1 DEF Finish
<1>3. \A r \in R : request'[r] = Blank /\ outcome'[r] = result /\ r \notin pending'
  BY <1>1 DEF Finish
<1>4. \A r \in RequestIds \ pending :
        request'[r] = request[r] /\ outcome'[r] = outcome[r] /\ steps'[r] = steps[r]
  BY <1>1 DEF Finish
<1>5. /\ result # "none"
      /\ \A t \in timers : t.request \in RequestIds
      /\ \A c \in calls : c.request \in RequestIds
  BY DEF TypeOK, Errors, Call
<1>6. LifeInv'
  BY <1>1, <1>2, <1>3, <1>4, <1>5 DEF RequestInv, LifeInv
<1>7. TimerInv'
  BY <1>1, <1>2, <1>3, <1>4, <1>5 DEF RequestInv, TimerInv
<1>8. CallInv'
  <2>1. ASSUME NEW c \in calls', c.request \in pending'
        PROVE  /\ c.step = request'[c.request].step
               /\ c.target \in request'[c.request].scope
               /\ c.operation \in Removals => c.operation = asked'[c.request].operation
               /\ request'[c.request].final => /\ c.operation = asked'[c.request].operation
                                               /\ c.target = asked'[c.request].target
               /\ \A e \in calls' : e.request = c.request => e = c
    BY <2>1, <1>1, <1>2 DEF RequestInv, CallInv
  <2>2. ASSUME NEW c \in calls', c.request \notin pending'
        PROVE  outcome'[c.request] # "none"
    <3>1. c \in calls /\ c.request \in RequestIds
      BY <1>5
    <3>2. CASE c.request \in R
      BY <3>2, <1>3, <1>5
    <3>3. CASE c.request \notin R
      BY <2>2, <3>1, <3>3, <1>1, <1>4 DEF RequestInv, CallInv
    <3>. QED  BY <3>2, <3>3
  <2>. QED  BY <2>1, <2>2 DEF CallInv
<1>9. WakeInv'
  BY <1>1, <1>2 DEF RequestInv, WakeInv
<1>10. ScopeInv' /\ ScopesDisjoint'
  BY <1>1, <1>2 DEF RequestInv, ScopeInv, ScopesDisjoint
<1>11. StepInv'
  BY <1>1, <1>2 DEF RequestInv, StepInv
<1>12. SuccessIsEarned'
  <2>. SUFFICES ASSUME NEW r \in RequestIds, outcome'[r] = "ok"
                PROVE  /\ [operation |-> asked[r].operation,
                           target |-> asked[r].target, error |-> "none"] \in steps'[r]
                       /\ \A s \in steps'[r] : s.error = "none"
    BY DEF SuccessIsEarned
  <2>1. CASE r \in R
    BY <2>1, <1>3
  <2>2. CASE r \notin R
    BY <2>2, <1>1, <1>2, <1>4 DEF RequestInv, SuccessIsEarned
  <2>. QED  BY <2>1, <2>2
<1>. QED
  BY <1>6, <1>7, <1>8, <1>9, <1>10, <1>11, <1>12 DEF RequestInv

(* Issuing the next step of an open request keeps RequestInv: its timer and *)
(* its earlier call are gone, and the new call touches what it holds.       *)
LEMMA ExecuteInv ==
  ASSUME TypeOK, RequestInv,
         NEW r \in pending, NEW operation \in Operations, NEW target \in request[r].scope,
         NEW final \in BOOLEAN, NEW others \in SUBSET calls,
         Execute(r, operation, target, final, others), asked' = asked,
         operation \in Removals \/ final =>
           operation = asked[r].operation /\ target = asked[r].target,
         timers' \in SUBSET timers,
         \A t \in timers : t \in timers' <=> t.request # r,
         \A c \in calls : c \in others <=> c.request # r,
         \A q \in RequestIds \ {r} : steps'[q] = steps[q],
         \A s \in steps'[r] : s.error = "none"
  PROVE  RequestInv'
<1> DEFINE n == request[r].issued + 1
           new == [request |-> r, step |-> n, operation |-> operation, target |-> target]
<1>1. /\ r \in RequestIds /\ pending \subseteq RequestIds
      /\ n \in Nat /\ n # 0
      /\ request \in [RequestIds -> Request] /\ request[r] \in Request
  BY DEF TypeOK, Request
<1>2. /\ pending' = pending /\ outcome' = outcome
      /\ calls' = others \cup {new}
      /\ request' = [request EXCEPT ![r] =
           [scope |-> request[r].scope, unmounts |-> request[r].unmounts \ {target},
            step |-> n, issued |-> n, final |-> final]]
  BY DEF Execute
<1>3. \A q \in RequestIds \ {r} : request'[q] = request[q]
  BY <1>1, <1>2
<1>4. /\ request'[r].scope = request[r].scope
      /\ request'[r].unmounts \subseteq request[r].unmounts
      /\ request'[r].step = n /\ request'[r].final = final
  BY <1>1, <1>2
<1>5. request[r].scope # {} /\ request'[r].scope # {}
  BY <1>4
<1>6. /\ \A t \in timers : t.request \in RequestIds
      /\ \A c \in calls : c.request \in RequestIds
  BY DEF TypeOK, Call
<1>7. LifeInv'
  BY <1>1, <1>2, <1>3 DEF RequestInv, LifeInv
<1>8. TimerInv'
  BY <1>2, <1>3, <1>6 DEF RequestInv, TimerInv
<1>9. CallInv'
  <2>1. ASSUME NEW c \in others
        PROVE  /\ c.request \in RequestIds \ {r} /\ c \in calls
               /\ request'[c.request] = request[c.request]
    <3>1. c \in calls /\ c.request # r
      OBVIOUS
    <3>. QED  BY <3>1, <1>3, <1>6
  <2>2. ASSUME NEW c \in calls', c.request \in pending
        PROVE  /\ c.step = request'[c.request].step
               /\ c.target \in request'[c.request].scope
               /\ c.operation \in Removals => c.operation = asked'[c.request].operation
               /\ request'[c.request].final => /\ c.operation = asked'[c.request].operation
                                               /\ c.target = asked'[c.request].target
    <3>1. CASE c = new
      BY <3>1, <1>4
    <3>2. CASE c \in others
      BY <3>2, <2>1, <2>2 DEF RequestInv, CallInv
    <3>. QED  BY <3>1, <3>2, <1>2
  <2>3. ASSUME NEW c \in calls', c.request \notin pending
        PROVE  outcome'[c.request] # "none"
    BY <2>1, <2>3, <1>2 DEF RequestInv, CallInv
  <2>4. ASSUME NEW c \in calls', NEW e \in calls', c.request \in pending, e.request = c.request
        PROVE  e = c
    BY <2>1, <2>4, <1>2 DEF RequestInv, CallInv
  <2>. QED  BY <2>2, <2>3, <2>4, <1>2 DEF CallInv
<1>10. WakeInv'
  <2>1. ASSUME NEW q \in pending, q # r
        PROVE  /\ request'[q].step = 0 => \E t \in timers' : t.request = q
               /\ request'[q].step # 0 => \E c \in calls' : c.request = q
    <3>1. request'[q] = request[q]
      BY <2>1, <1>1, <1>3
    <3>2. \A t \in timers : t.request = q => t \in timers'
      BY <2>1
    <3>3. \A c \in calls : c.request = q => c \in calls'
      BY <2>1, <1>2
    <3>. QED  BY <3>1, <3>2, <3>3 DEF RequestInv, WakeInv
  <2>2. new \in calls' /\ new.request = r
    BY <1>2
  <2>3. request'[r].step # 0
    BY <1>1, <1>4
  <2>. QED  BY <2>1, <2>2, <2>3, <1>2 DEF WakeInv
<1>11. ScopeInv'
  BY <1>1, <1>2, <1>3, <1>4, <1>5 DEF RequestInv, ScopeInv
<1>12. ScopesDisjoint'
  BY <1>1, <1>2, <1>3, <1>4 DEF RequestInv, ScopesDisjoint
<1>13. StepInv'
  BY <1>1, <1>2 DEF RequestInv, StepInv
<1>14. SuccessIsEarned'
  <2>1. outcome[r] # "ok"
    BY <1>1 DEF RequestInv, LifeInv
  <2>. QED  BY <2>1, <1>1, <1>2 DEF RequestInv, SuccessIsEarned
<1>. QED
  BY <1>7, <1>8, <1>9, <1>10, <1>11, <1>12, <1>13, <1>14 DEF RequestInv

(* advance() keeps RequestInv.                                              *)
LEMMA AdvanceInv ==
  ASSUME TypeOK, RequestInv, AwayInv,
         NEW r \in pending, request[r].scope # {},
         NEW others \in SUBSET calls, Advance(r, others), asked' = asked,
         timers' \in SUBSET timers,
         \A t \in timers : t \in timers' <=> t.request # r,
         \A c \in calls : c \in others <=> c.request # r,
         \A q \in RequestIds \ {r} : steps'[q] = steps[q],
         \A s \in steps'[r] : s.error = "none"
  PROVE  RequestInv'
<1>1. r \in RequestIds /\ asked[r].operation \in Operations /\ asked[r].target \in Targets
  BY DEF TypeOK, RequestInv, LifeInv
<1>2. /\ asked[r].target \in request[r].scope
      /\ request[r].unmounts \subseteq request[r].scope
  BY DEF RequestInv, ScopeInv
<1>3. ASSUME NEW error \in Errors, FinishOne(r, error, others)
      PROVE  RequestInv'
  <2>1. error # "ok"
    BY DEF Errors
  <2>. QED  BY <1>1, <1>3, <2>1, FinishInv DEF FinishOne
<1>4. ASSUME NEW v \in request[r].unmounts, Execute(r, "Unmount", v, FALSE, others)
      PROVE  RequestInv'
  BY <1>2, <1>4, ExecuteInv DEF Operations, Removals
<1>5. ASSUME Execute(r, asked[r].operation, asked[r].target, TRUE, others)
      PROVE  RequestInv'
  BY <1>1, <1>2, <1>5, ExecuteInv
<1>6. FinalRefusal(r) = "none" \/ FinalRefusal(r) \in Errors
  BY DEF FinalRefusal, Errors
<1>. QED
  BY <1>3, <1>4, <1>5, <1>6 DEF Advance, Errors

-----------------------------------------------------------------------------
(* The types of what the shared pieces assign.                              *)
RequestTypes ==
  /\ pending \in SUBSET RequestIds
  /\ request \in [RequestIds -> Request]
  /\ outcome \in [RequestIds -> Errors \cup {"none", "ok"}]
  /\ calls \in SUBSET Call

(* finish() keeps the types.                                                *)
LEMMA FinishType ==
  ASSUME TypeOK, NEW R, NEW result \in Errors \cup {"ok"},
         Finish(R, result), calls' \in SUBSET calls
  PROVE  RequestTypes'
<1>1. Blank \in Request
  BY DEF Blank, Request
<1>. QED
  BY <1>1 DEF TypeOK, Finish, RequestTypes

(* Issuing a step keeps the types.                                          *)
LEMMA ExecuteType ==
  ASSUME TypeOK, NEW r \in RequestIds, NEW operation \in Operations,
         NEW target \in Targets, NEW final \in BOOLEAN, NEW others \in SUBSET calls,
         Execute(r, operation, target, final, others)
  PROVE  RequestTypes'
<1>1. request[r] \in Request /\ request[r].issued + 1 \in Nat
  BY DEF TypeOK, Request
<1>2. /\ [request |-> r, step |-> request[r].issued + 1, operation |-> operation,
          target |-> target] \in Call
      /\ [scope |-> request[r].scope, unmounts |-> request[r].unmounts \ {target},
          step |-> request[r].issued + 1, issued |-> request[r].issued + 1,
          final |-> final] \in Request
  BY <1>1 DEF Call, Request
<1>. QED
  BY <1>2 DEF TypeOK, Execute, RequestTypes

(* advance() keeps the types.                                               *)
LEMMA AdvanceType ==
  ASSUME TypeOK, NEW r \in RequestIds,
         asked[r].operation \in Operations, asked[r].target \in Targets,
         NEW others \in SUBSET calls, Advance(r, others)
  PROVE  RequestTypes'
<1>1. ASSUME NEW error \in Errors, FinishOne(r, error, others)
      PROVE  RequestTypes'
  BY <1>1, FinishType DEF FinishOne
<1>2. ASSUME NEW v \in request[r].unmounts, Execute(r, "Unmount", v, FALSE, others)
      PROVE  RequestTypes'
  <2>1. v \in Targets
    BY DEF TypeOK, Request, Targets
  <2>. QED  BY <1>2, <2>1, ExecuteType DEF Operations
<1>3. ASSUME Execute(r, asked[r].operation, asked[r].target, TRUE, others)
      PROVE  RequestTypes'
  BY <1>3, ExecuteType
<1>4. FinalRefusal(r) = "none" \/ FinalRefusal(r) \in Errors
  BY DEF FinalRefusal, Errors
<1>. QED
  BY <1>1, <1>2, <1>3, <1>4 DEF Advance, Errors

-----------------------------------------------------------------------------
(* The handlers, one lemma each.                                            *)

(* A scope computed while another request holds part of it is refused.      *)
LEMMA RefusalFacts ==
  ASSUME NEW operation \in Operations, NEW target, NEW confirmed,
         Refusal(operation, target, confirmed) = "none"
  PROVE  /\ \A q \in pending : request[q].scope \cap ScopeOf(operation, target) = {}
         /\ Present(operation, target)
         /\ operation = "PowerOff" => ScopeOf(operation, target) = confirmed
         /\ available
  BY DEF Refusal, busy

(* begin() keeps the invariant.                                             *)
LEMMA BeginInv ==
  ASSUME IInv, NEW r \in RequestIds, NEW operation \in Operations,
         NEW target \in Targets, NEW confirmed \in SUBSET Targets,
         operation \in Removals \/ target \in VolumeIds,
         Begin(r, operation, target, confirmed)
  PROVE  IInv'
<1> DEFINE refusal == Refusal(operation, target, confirmed)
           scope == ScopeOf(operation, target)
           posted == [request |-> r, refusal |-> refusal]
           held == IF refusal = "none" THEN scope ELSE {}
           entry == [scope |-> held,
                     unmounts |-> IF operation \in Removals THEN MountedIn(scope) ELSE {},
                     step |-> 0, issued |-> 0, final |-> FALSE]
<1>1. /\ TypeOK /\ RequestInv /\ AwayInv
      /\ r \notin pending /\ outcome[r] = "none" /\ steps[r] = {}
      /\ pending' = pending \cup {r}
      /\ request' = [request EXCEPT ![r] = entry]
      /\ timers' = timers \cup {posted}
      /\ asked' = [asked EXCEPT ![r] = [operation |-> operation, target |-> target,
                                        confirmed |-> confirmed]]
      /\ UNCHANGED <<available, topology, calls, steps, outcome>>
  BY DEF IInv, Begin, RequestInv, LifeInv
<1>2. /\ scope \in SUBSET Targets
      /\ refusal = "none" => target \in scope
  BY <1>1, ScopeOfType, RefusalFacts
<1>3. refusal \in Errors \cup {"none"}
  BY DEF Refusal, Errors
<1>4. MountedIn(scope) \subseteq scope /\ MountedIn(scope) \subseteq VolumeIds
  BY <1>1 DEF MountedIn, TypeOK, Topology
<1>5. entry \in Request
  BY <1>2, <1>4 DEF Request
<1>6. /\ request'[r] = entry /\ asked'[r].operation = operation
      /\ asked'[r].target = target /\ asked'[r].confirmed = confirmed
      /\ \A q \in RequestIds \ {r} : request'[q] = request[q] /\ asked'[q] = asked[q]
      /\ pending \subseteq RequestIds \ {r}
  BY <1>1 DEF TypeOK
<1>7. /\ \A t \in timers : t.request \in RequestIds /\ t.request # r
      /\ \A c \in calls : c.request \in RequestIds /\ c.request # r
  BY <1>1 DEF TypeOK, Call, RequestInv, TimerInv, CallInv
<1>8. TypeOK'
  BY <1>1, <1>3, <1>5 DEF TypeOK
<1>9. LifeInv'
  BY <1>1, <1>6 DEF RequestInv, LifeInv
<1>10. TimerInv'
  <2>1. ASSUME NEW t \in timers
        PROVE  /\ t.request \in pending' => /\ request'[t.request].step = 0
                                            /\ (t.refusal = "none") <=> (request'[t.request].scope # {})
               /\ t.request \notin pending' => outcome'[t.request] # "none"
               /\ \A u \in timers' : u.request = t.request => u = t
    BY <2>1, <1>1, <1>6, <1>7 DEF RequestInv, TimerInv
  <2>2. /\ posted.request \in pending'
        /\ request'[r].step = 0
        /\ (refusal = "none") <=> (request'[r].scope # {})
        /\ \A u \in timers' : u.request = r => u = posted
    BY <1>1, <1>2, <1>6, <1>7
  <2>. QED  BY <2>1, <2>2, <1>1 DEF TimerInv
<1>11. CallInv'
  BY <1>1, <1>6, <1>7 DEF RequestInv, CallInv
<1>12. WakeInv'
  <2>1. posted \in timers' /\ posted.request = r /\ request'[r].step = 0
    BY <1>1, <1>6
  <2>2. \A q \in pending : request'[q] = request[q] /\ timers \subseteq timers'
    BY <1>1, <1>6
  <2>. QED  BY <2>1, <2>2, <1>1 DEF RequestInv, WakeInv
<1>13. ScopeInv'
  BY <1>1, <1>2, <1>4, <1>6, RefusalFacts DEF RequestInv, ScopeInv
<1>14. ScopesDisjoint'
  <2>1. \A q \in pending : request[q].scope \cap held = {}
    BY RefusalFacts
  <2>. QED  BY <2>1, <1>1, <1>6 DEF RequestInv, ScopesDisjoint
<1>15. StepInv' /\ SuccessIsEarned'
  BY <1>1, <1>6 DEF RequestInv, StepInv, SuccessIsEarned
<1>16. AwayInv'
  BY <1>1, <1>6, RefusalFacts DEF AwayInv
<1>. QED
  BY <1>8, <1>9, <1>10, <1>11, <1>12, <1>13, <1>14, <1>15, <1>16 DEF IInv, RequestInv

(* The posted timer keeps the invariant.                                    *)
LEMMA TimerStepInv ==
  ASSUME IInv, NEW t \in timers, Timer(t)
  PROVE  IInv'
<1> DEFINE r == t.request
<1>1. /\ TypeOK /\ RequestInv /\ AwayInv
      /\ t.refusal \in Errors \cup {"none"} /\ r \in RequestIds
      /\ timers' = timers \ {t}
      /\ UNCHANGED <<available, topology, asked, steps>>
  BY DEF IInv, TypeOK, Timer
<1>2. \A u \in timers : u \in timers' <=> u.request # r
  BY <1>1 DEF RequestInv, TimerInv
<1>3. CASE r \notin pending
  <2>1. UNCHANGED <<pending, request, outcome, calls>>
    BY <1>3 DEF Timer
  <2>2. RequestInv'
    <3>1. LifeInv' /\ CallInv' /\ ScopeInv' /\ ScopesDisjoint' /\ StepInv' /\ SuccessIsEarned'
      BY <1>1, <2>1 DEF RequestInv, LifeInv, CallInv, ScopeInv, ScopesDisjoint, StepInv,
                        SuccessIsEarned
    <3>2. TimerInv'
      BY <1>1, <2>1 DEF RequestInv, TimerInv
    <3>3. WakeInv'
      BY <1>1, <1>2, <1>3, <2>1 DEF RequestInv, WakeInv
    <3>. QED  BY <3>1, <3>2, <3>3 DEF RequestInv
  <2>3. TypeOK' /\ AwayInv'
    BY <1>1, <2>1 DEF TypeOK, AwayInv
  <2>. QED  BY <2>2, <2>3 DEF IInv
<1>4. CASE r \in pending /\ t.refusal # "none"
  <2>1. Finish({r}, t.refusal) /\ calls' = calls /\ t.refusal \in Errors
    BY <1>1, <1>4 DEF Timer, FinishOne
  <2>2. t.refusal # "ok"
    BY <2>1 DEF Errors
  <2>3. RequestInv'
    BY <1>1, <1>2, <1>4, <2>1, <2>2, FinishInv
  <2>4. TypeOK'
    BY <1>1, <2>1, FinishType DEF TypeOK, RequestTypes
  <2>5. AwayInv'
    BY <1>1, <2>1 DEF AwayInv, Finish, TypeOK
  <2>. QED  BY <2>3, <2>4, <2>5 DEF IInv
<1>5. CASE r \in pending /\ t.refusal = "none"
  <2>1. Advance(r, calls)
    BY <1>5 DEF Timer
  <2>2. request[r].scope # {} /\ request[r].step = 0
    BY <1>1, <1>5 DEF RequestInv, TimerInv
  <2>3. \A c \in calls : c.request # r
    BY <1>1, <1>5, <2>2 DEF RequestInv, CallInv, TypeOK, Call
  <2>4. \A s \in steps'[r] : s.error = "none"
    BY <1>1, <1>5 DEF RequestInv, StepInv
  <2>5. RequestInv'
    BY <1>1, <1>2, <1>5, <2>1, <2>2, <2>3, <2>4, AdvanceInv
  <2>6. TypeOK'
    BY <1>1, <1>5, <2>1, AdvanceType DEF TypeOK, RequestTypes, RequestInv, LifeInv
  <2>7. AwayInv'
    BY <1>1, <1>5, <2>2 DEF AwayInv
  <2>. QED  BY <2>5, <2>6, <2>7 DEF IInv
<1>. QED  BY <1>3, <1>4, <1>5

(* An answer of the backend keeps the invariant.                            *)
LEMMA ReplyInv ==
  ASSUME IInv, NEW c \in calls, NEW error \in Answers, Reply(c, error)
  PROVE  IInv'
<1> DEFINE r == c.request
           others == calls \ {c}
           answer == [operation |-> c.operation, target |-> c.target, error |-> error]
<1>1. /\ TypeOK /\ RequestInv /\ AwayInv
      /\ c \in Call /\ r \in RequestIds
      /\ UNCHANGED <<available, topology, timers, asked>>
  BY DEF IInv, TypeOK, Reply, Call
<1>2. CASE r \notin pending
  <2>1. calls' = others /\ UNCHANGED <<pending, request, outcome, steps>>
    BY <1>2 DEF Reply
  <2>2. WakeInv'
    BY <1>1, <1>2, <2>1 DEF RequestInv, WakeInv
  <2>3. CallInv'
    BY <1>1, <2>1 DEF RequestInv, CallInv
  <2>4. LifeInv' /\ TimerInv' /\ ScopeInv' /\ ScopesDisjoint' /\ StepInv' /\ SuccessIsEarned'
    BY <1>1, <2>1 DEF RequestInv, LifeInv, TimerInv, ScopeInv, ScopesDisjoint, StepInv,
                      SuccessIsEarned
  <2>5. TypeOK' /\ AwayInv'
    BY <1>1, <2>1 DEF TypeOK, AwayInv
  <2>. QED  BY <2>2, <2>3, <2>4, <2>5 DEF IInv, RequestInv
<1>3. CASE r \in pending
  <2>1. /\ c.step = request[r].step /\ c.step # 0
        /\ c.target \in request[r].scope
        /\ request[r].final => /\ c.operation = asked[r].operation
                               /\ c.target = asked[r].target
        /\ \A e \in calls : e \in others <=> e.request # r
    BY <1>1, <1>3 DEF RequestInv, CallInv, Call
  <2>2. /\ steps' = [steps EXCEPT ![r] = @ \cup {answer}]
        /\ error # "none" => FinishOne(r, error, others)
        /\ error = "none" /\ request[r].final => FinishOne(r, "ok", others)
        /\ error = "none" /\ ~request[r].final => Advance(r, others)
    BY <1>3, <2>1 DEF Reply
  <2>3. /\ steps' \in [RequestIds -> SUBSET [operation : Operations, target : Targets,
                                             error : Errors \cup {"none"}]]
        /\ \A q \in RequestIds \ {r} : steps'[q] = steps[q]
        /\ steps'[r] = steps[r] \cup {answer}
    BY <1>1, <2>2 DEF TypeOK, Call, Answers, Errors
  <2>4. error = "none" => \A s \in steps'[r] : s.error = "none"
    BY <1>1, <1>3, <2>3 DEF RequestInv, StepInv
  <2>5. \A t \in timers : t.request # r
    BY <1>1, <1>3, <2>1 DEF RequestInv, TimerInv
  <2>6. error = "none" \/ (error \in Errors /\ error # "ok")
    BY DEF Answers, Errors
  <2>7. CASE error # "none"
    <3>1. Finish({r}, error) /\ calls' = others
      BY <2>2, <2>7 DEF FinishOne
    <3>2. RequestInv'
      BY <1>1, <1>3, <2>1, <2>3, <2>6, <2>7, <3>1, FinishInv
    <3>3. TypeOK'
      BY <1>1, <2>3, <2>6, <2>7, <3>1, FinishType DEF TypeOK, RequestTypes
    <3>4. AwayInv'
      BY <1>1, <3>1 DEF AwayInv, Finish, TypeOK
    <3>. QED  BY <3>2, <3>3, <3>4 DEF IInv
  <2>8. CASE error = "none" /\ request[r].final
    <3>1. Finish({r}, "ok") /\ calls' = others
      BY <2>2, <2>8 DEF FinishOne
    <3>2. [operation |-> asked[r].operation, target |-> asked[r].target,
           error |-> "none"] \in steps'[r]
      BY <2>1, <2>3, <2>8
    <3>3. RequestInv'
      BY <1>1, <1>3, <2>1, <2>3, <2>4, <2>8, <3>1, <3>2, FinishInv
    <3>4. TypeOK'
      BY <1>1, <2>3, <3>1, FinishType DEF TypeOK, RequestTypes
    <3>5. AwayInv'
      BY <1>1, <3>1 DEF AwayInv, Finish, TypeOK
    <3>. QED  BY <3>3, <3>4, <3>5 DEF IInv
  <2>9. CASE error = "none" /\ ~request[r].final
    <3>1. Advance(r, others) /\ request[r].scope # {}
      BY <2>1, <2>2, <2>9
    <3>2. RequestInv'
      BY <1>1, <1>3, <2>1, <2>3, <2>4, <2>5, <2>9, <3>1, AdvanceInv
    <3>3. TypeOK'
      BY <1>1, <1>3, <2>3, <3>1, AdvanceType DEF TypeOK, RequestTypes, RequestInv, LifeInv
    <3>4. AwayInv'
      BY <1>1, <1>3, <3>1 DEF AwayInv
    <3>. QED  BY <3>2, <3>3, <3>4 DEF IInv
  <2>. QED  BY <2>7, <2>8, <2>9
<1>. QED  BY <1>2, <1>3

(* A snapshot changes nothing the requests are about.                       *)
LEMMA SnapshotInv ==
  ASSUME IInv, NEW t \in Topologies, Snapshot(t)
  PROVE  IInv'
<1>1. /\ topology' \in Topology /\ available' = TRUE
      /\ UNCHANGED <<pending, request, timers, calls, asked, steps, outcome>>
  BY StorageConstants DEF Snapshot
<1>2. TypeOK' /\ AwayInv'
  BY <1>1 DEF IInv, TypeOK, AwayInv
<1>3. LifeInv' /\ TimerInv' /\ CallInv'
  BY <1>1 DEF IInv, RequestInv, LifeInv, TimerInv, CallInv
<1>4. WakeInv' /\ ScopeInv' /\ ScopesDisjoint'
  BY <1>1 DEF IInv, RequestInv, WakeInv, ScopeInv, ScopesDisjoint
<1>5. StepInv' /\ SuccessIsEarned'
  BY <1>1 DEF IInv, RequestInv, StepInv, SuccessIsEarned
<1>. QED  BY <1>2, <1>3, <1>4, <1>5 DEF IInv, RequestInv

(* A disconnection ends every request at once.                              *)
LEMMA DisconnectInv ==
  ASSUME IInv, Disconnect
  PROVE  IInv'
<1>1. /\ TypeOK /\ RequestInv
      /\ Finish(pending, "Unavailable")
      /\ topology' = NoTopology /\ available' = FALSE
      /\ UNCHANGED <<timers, calls, asked, steps>>
  BY DEF IInv, Disconnect
<1>2. "Unavailable" \in Errors /\ "Unavailable" # "ok"
  BY DEF Errors
<1>3. RequestInv'
  BY <1>1, <1>2, FinishInv
<1>4. NoTopology \in Topology
  BY DEF NoTopology, Topology
<1>5. TypeOK'
  BY <1>1, <1>2, <1>4, FinishType DEF TypeOK, RequestTypes
<1>6. AwayInv'
  BY <1>1 DEF AwayInv, Finish
<1>. QED  BY <1>3, <1>5, <1>6 DEF IInv

(* Dropping a call nobody waits for keeps the invariant.                    *)
LEMMA ForgetInv ==
  ASSUME IInv, NEW c \in calls, Forget(c)
  PROVE  IInv'
<1>1. /\ c.request \notin pending /\ calls' = calls \ {c}
      /\ UNCHANGED <<available, topology, pending, request, timers, asked, steps, outcome>>
  BY DEF Forget
<1>2. WakeInv' /\ CallInv'
  BY <1>1 DEF IInv, RequestInv, WakeInv, CallInv
<1>3. LifeInv' /\ TimerInv' /\ ScopeInv' /\ ScopesDisjoint' /\ StepInv' /\ SuccessIsEarned'
  BY <1>1 DEF IInv, RequestInv, LifeInv, TimerInv, ScopeInv, ScopesDisjoint, StepInv,
              SuccessIsEarned
<1>4. TypeOK' /\ AwayInv'
  BY <1>1 DEF IInv, TypeOK, AwayInv
<1>. QED  BY <1>2, <1>3, <1>4 DEF IInv, RequestInv

-----------------------------------------------------------------------------
(* IInv holds of every reachable state.                                     *)
LEMMA InvariantInit == Init => IInv
<1>. SUFFICES ASSUME Init PROVE IInv
  OBVIOUS
<1>1. NoTopology \in Topology /\ Blank \in Request
  BY DEF NoTopology, Topology, Blank, Request
<1>2. TypeOK
  BY <1>1 DEF Init, TypeOK, Unasked, Errors, Call
<1>3. RequestInv /\ AwayInv
  BY DEF Init, RequestInv, LifeInv, TimerInv, CallInv, WakeInv, ScopeInv, ScopesDisjoint,
         StepInv, SuccessIsEarned, AwayInv
<1>. QED  BY <1>2, <1>3 DEF IInv

(* Every handler keeps IInv.                                                *)
LEMMA InvariantNext == IInv /\ [Next]_vars => IInv'
<1>. SUFFICES ASSUME IInv, [Next]_vars PROVE IInv'
  OBVIOUS
<1>1. ASSUME NEW r \in RequestIds, NEW v \in VolumeIds, NEW operation \in {"Mount", "Unmount"},
             Begin(r, operation, v, {})
      PROVE  IInv'
  BY <1>1, BeginInv DEF Operations, Targets
<1>2. ASSUME NEW r \in RequestIds, NEW d \in DriveIds, Begin(r, "Eject", d, {})
      PROVE  IInv'
  BY <1>2, BeginInv DEF Operations, Targets, Removals
<1>3. ASSUME NEW r \in RequestIds, NEW d \in DriveIds, NEW confirmed \in Confirmations,
             Begin(r, "PowerOff", d, confirmed)
      PROVE  IInv'
  BY <1>3, BeginInv, StorageConstants DEF Operations, Targets, Removals
<1>4. CASE UNCHANGED vars
  BY <1>4 DEF vars, IInv, TypeOK, AwayInv, RequestInv, LifeInv, TimerInv, CallInv, WakeInv,
              ScopeInv, ScopesDisjoint, StepInv, SuccessIsEarned
<1>. QED
  BY <1>1, <1>2, <1>3, <1>4, TimerStepInv, ReplyInv, SnapshotInv, DisconnectInv, ForgetInv
  DEF Next

(* The invariant the theorems below are read off.                           *)
THEOREM Invariant == Spec => []IInv
  BY InvariantInit, InvariantNext, PTL DEF Spec

(* Every variable keeps its type (StorageController.h's fields).            *)
THEOREM TypeCorrect == Spec => []TypeOK
<1>1. IInv => TypeOK
  BY DEF IInv
<1>. QED  BY <1>1, Invariant, PTL

(* Open requests never hold a common drive or volume, for any topology      *)
(* changes between their steps (busy() in begin()).                         *)
THEOREM Disjointness == Spec => []ScopesDisjoint
<1>1. IInv => ScopesDisjoint
  BY DEF IInv, RequestInv
<1>. QED  BY <1>1, Invariant, PTL

(* The calls of open requests stay in their reservation and touch           *)
(* different devices (advance() and begin() together).                      *)
THEOREM Isolation == Spec => []LiveCallsIsolated
<1>1. ASSUME IInv, NEW c \in calls, Live(c)
      PROVE  Footprint(c) \subseteq request[c.request].scope
  BY <1>1 DEF IInv, RequestInv, CallInv, Footprint, Live
<1>2. ASSUME IInv, NEW c \in calls, NEW e \in calls, Live(c), Live(e), c # e
      PROVE  Footprint(c) \cap Footprint(e) = {}
  <2>1. c.request # e.request
    BY <1>2 DEF IInv, RequestInv, CallInv, Live
  <2>2. request[c.request].scope \cap request[e.request].scope = {}
    BY <1>2, <2>1 DEF IInv, RequestInv, ScopesDisjoint, Live
  <2>. QED  BY <1>1, <1>2, <2>2
<1>3. IInv => LiveCallsIsolated
  BY <1>1, <1>2 DEF LiveCallsIsolated
<1>. QED  BY <1>3, Invariant, PTL

(* An open request waits for its timer or for its current step, never for   *)
(* both, never for neither.                                                 *)
THEOREM Wakeup == Spec => []ExactlyOneWakeup
<1>1. ASSUME IInv, NEW r \in pending
      PROVE  LET posted == {t \in timers : t.request = r}
                 awaited == {c \in calls : c.request = r}
             IN /\ (posted = {}) # (awaited = {})
                /\ \A t, u \in posted : t = u
                /\ \A c, e \in awaited : c = e /\ c.step = request[r].step
  <2>1. \A t, u \in timers : t.request = r /\ u.request = r => t = u
    BY <1>1 DEF IInv, RequestInv, TimerInv
  <2>2. \A c, e \in calls : c.request = r /\ e.request = r =>
          c = e /\ c.step = request[r].step /\ request[r].step # 0
    BY <1>1 DEF IInv, RequestInv, CallInv, TypeOK, Call
  <2>3. \A t \in timers : t.request = r => request[r].step = 0
    BY <1>1 DEF IInv, RequestInv, TimerInv
  <2>4. \/ \E t \in timers : t.request = r
        \/ \E c \in calls : c.request = r
    BY <1>1 DEF IInv, RequestInv, WakeInv
  <2>. QED  BY <2>1, <2>2, <2>3, <2>4
<1>2. IInv => ExactlyOneWakeup
  BY <1>1 DEF ExactlyOneWakeup
<1>. QED  BY <1>2, Invariant, PTL

(* Nothing is reserved or outstanding for an open request while the service *)
(* is away (snapshot() with available = false).                             *)
THEOREM NothingHeldWhenAway == Spec => []DisconnectedHoldsNothing
<1>1. IInv => DisconnectedHoldsNothing
  BY DEF IInv, RequestInv, AwayInv, CallInv, DisconnectedHoldsNothing
<1>. QED  BY <1>1, Invariant, PTL

(* A successful request had its operation and every unmount succeed.        *)
THEOREM Earned == Spec => []SuccessIsEarned
<1>1. IInv => SuccessIsEarned
  BY DEF IInv, RequestInv
<1>. QED  BY <1>1, Invariant, PTL

-----------------------------------------------------------------------------
(* The removals advance() issues are of unmounted, confirmed scopes.        *)
LEMMA AdvanceConfirmed ==
  ASSUME IInv, NEW r \in pending, request[r].scope # {},
         NEW others \in SUBSET calls, Advance(r, others),
         NEW c \in calls' \ calls, c.operation \in Removals
  PROVE  LET scope == removalScope(c.target, c.operation = "PowerOff")
         IN /\ MountedIn(scope) = {}
            /\ c.operation = "PowerOff" => scope = asked[c.request].confirmed
<1>1. ASSUME NEW error, FinishOne(r, error, others)
      PROVE  FALSE
  BY <1>1 DEF FinishOne
<1>2. ASSUME NEW v, Execute(r, "Unmount", v, FALSE, others)
      PROVE  FALSE
  BY <1>2 DEF Execute, Removals
<1>3. /\ ~Invalidated(r) /\ FinalRefusal(r) = "none"
      /\ Execute(r, asked[r].operation, asked[r].target, TRUE, others)
  BY <1>1, <1>2 DEF Advance
<1>4. /\ c.request = r /\ c.operation = asked[r].operation /\ c.target = asked[r].target
  BY <1>3 DEF Execute
<1>5. removalScope(c.target, c.operation = "PowerOff") = request[r].scope
  BY <1>3, <1>4 DEF Invalidated
<1>6. MountedIn(request[r].scope) = {}
  BY <1>3, <1>4 DEF FinalRefusal
<1>7. c.operation = "PowerOff" => request[r].scope = asked[r].confirmed
  BY <1>4 DEF IInv, RequestInv, ScopeInv
<1>. QED  BY <1>4, <1>5, <1>6, <1>7

(* No Eject or PowerOff is sent while an affected volume is mounted, nor    *)
(* for a scope other than the confirmed one (end of advance()).             *)
THEOREM Confirmed == Spec => RemovalsConfirmed
<1>1. ASSUME IInv, Next, NEW c \in calls' \ calls, c.operation \in Removals
      PROVE  LET scope == removalScope(c.target, c.operation = "PowerOff")
             IN /\ MountedIn(scope) = {}
                /\ c.operation = "PowerOff" => scope = asked[c.request].confirmed
  <2>1. ASSUME NEW t \in timers, Timer(t)
        PROVE  /\ t.request \in pending /\ request[t.request].scope # {}
               /\ Advance(t.request, calls)
    <3>1. t.request \in pending /\ t.refusal = "none"
      BY <1>1, <2>1 DEF Timer, FinishOne
    <3>. QED  BY <1>1, <2>1, <3>1 DEF Timer, IInv, RequestInv, TimerInv
  <2>2. ASSUME NEW e \in calls, NEW error \in Answers, Reply(e, error)
        PROVE  /\ e.request \in pending /\ request[e.request].scope # {}
               /\ Advance(e.request, calls \ {e})
    <3>1. e.request \in pending /\ Advance(e.request, calls \ {e})
      BY <1>1, <2>2 DEF Reply, FinishOne
    <3>. QED  BY <1>1, <2>2, <3>1 DEF IInv, RequestInv, CallInv
  <2>3. calls' # calls /\ ~(calls' \subseteq calls)
    BY <1>1
  <2>4. \/ \E t \in timers : Timer(t)
        \/ \E e \in calls, error \in Answers : Reply(e, error)
    BY <1>1, <2>3 DEF Next, Begin, Snapshot, Disconnect, Forget
  <2>. QED  BY <1>1, <2>1, <2>2, <2>4, AdvanceConfirmed
<1>2. IInv /\ [Next]_vars =>
        [\A c \in calls' \ calls :
           c.operation \in Removals =>
             LET scope == removalScope(c.target, c.operation = "PowerOff")
             IN /\ MountedIn(scope) = {}
                /\ c.operation = "PowerOff" => scope = asked[c.request].confirmed]_vars
  BY <1>1
<1>. QED  BY <1>2, Invariant, PTL DEF Spec, RemovalsConfirmed

-----------------------------------------------------------------------------
(* The refinement of StorageReservation.                                    *)
phaseBar == [r \in RequestIds |-> PhaseOf(r)]
heldBar == [r \in RequestIds |-> request[r].scope]

(* The phase of an open request is decided by its scope and its step.       *)
LEMMA OpenPhase ==
  ASSUME IInv, NEW r \in pending
  PROVE  /\ phaseBar[r] \in {"refused", "accepted", "working"}
         /\ request[r].scope # {} /\ request[r].step = 0 => phaseBar[r] = "accepted"
         /\ request[r].scope # {} /\ request[r].step # 0 => phaseBar[r] = "working"
  BY DEF IInv, TypeOK, RequestInv, LifeInv, phaseBar, PhaseOf

(* finish() with an error is a Fail step.                                   *)
LEMMA FinishMaps ==
  ASSUME IInv, NEW R \in SUBSET pending, NEW error \in Errors, Finish(R, error)
  PROVE  Reservation!Next
<1>1. R \in SUBSET RequestIds /\ pending \subseteq RequestIds
  BY DEF IInv, TypeOK
<1>2. \A r \in R : phaseBar[r] \in {"refused", "accepted", "working"}
  BY OpenPhase
<1>3. phaseBar' = [r \in RequestIds |-> IF r \in R THEN "error" ELSE phaseBar[r]]
  BY <1>1 DEF Finish, phaseBar, PhaseOf, Errors
<1>4. heldBar' = [r \in RequestIds |-> IF r \in R THEN {} ELSE heldBar[r]]
  BY <1>1 DEF Finish, heldBar, Blank
<1>. QED
  BY <1>1, <1>2, <1>3, <1>4 DEF Reservation!Next, Reservation!Fail, phaseBar, heldBar

(* Issuing a step is the Work step the first time and no step after that.   *)
LEMMA ExecuteMaps ==
  ASSUME IInv, NEW r \in pending, request[r].scope # {},
         NEW operation, NEW target, NEW final, NEW others,
         Execute(r, operation, target, final, others)
  PROVE  [Reservation!Next]_(Reservation!vars)
<1>1. /\ r \in RequestIds /\ request[r] \in Request
      /\ request \in [RequestIds -> Request]
      /\ phaseBar \in [RequestIds -> {"new", "refused", "accepted", "working", "ok", "error"}]
  BY DEF IInv, TypeOK, phaseBar, PhaseOf
<1>2. /\ request'[r].scope = request[r].scope
      /\ request'[r].step = request[r].issued + 1 /\ request'[r].step # 0
      /\ \A q \in RequestIds \ {r} : request'[q] = request[q]
  BY <1>1 DEF Execute, Request
<1>3. heldBar' = heldBar
  BY <1>1, <1>2 DEF heldBar
<1>4. phaseBar' = [phaseBar EXCEPT ![r] = "working"]
  BY <1>1, <1>2 DEF phaseBar, PhaseOf, Execute, IInv, RequestInv, LifeInv
<1>5. CASE request[r].step = 0
  <2>1. phaseBar[r] = "accepted"
    BY <1>5, OpenPhase
  <2>. QED
    BY <1>1, <1>3, <1>4, <2>1 DEF Reservation!Next, Reservation!Work, phaseBar, heldBar
<1>6. CASE request[r].step # 0
  <2>1. phaseBar[r] = "working"
    BY <1>6, OpenPhase
  <2>2. phaseBar' = phaseBar
    BY <1>1, <1>4, <2>1
  <2>. QED
    BY <1>3, <2>2 DEF Reservation!vars, phaseBar, heldBar
<1>. QED  BY <1>5, <1>6

(* advance() maps to a step of the reservation or to none.                  *)
LEMMA AdvanceMaps ==
  ASSUME IInv, NEW r \in pending, request[r].scope # {}, NEW others, Advance(r, others)
  PROVE  [Reservation!Next]_(Reservation!vars)
<1>1. ASSUME NEW error \in Errors, FinishOne(r, error, others)
      PROVE  Reservation!Next
  BY <1>1, FinishMaps DEF FinishOne
<1>2. FinalRefusal(r) = "none" \/ FinalRefusal(r) \in Errors
  BY DEF FinalRefusal, Errors
<1>. QED
  BY <1>1, <1>2, ExecuteMaps DEF Advance, Errors

(* begin() is a Refuse or an Accept step.                                   *)
LEMMA BeginMaps ==
  ASSUME IInv, NEW r \in RequestIds, NEW operation \in Operations,
         NEW target \in Targets, NEW confirmed,
         Begin(r, operation, target, confirmed)
  PROVE  Reservation!Next
<1> DEFINE refusal == Refusal(operation, target, confirmed)
           scope == ScopeOf(operation, target)
<1>1. /\ r \notin pending /\ outcome[r] = "none" /\ outcome' = outcome
      /\ pending' = pending \cup {r}
      /\ request \in [RequestIds -> Request] /\ pending \subseteq RequestIds
  BY DEF IInv, TypeOK, Begin
<1>2. /\ request'[r].scope = (IF refusal = "none" THEN scope ELSE {})
      /\ request'[r].step = 0
      /\ \A q \in RequestIds \ {r} : request'[q] = request[q]
  BY <1>1 DEF Begin
<1>3. /\ phaseBar \in [RequestIds -> {"new", "refused", "accepted", "working", "ok", "error"}]
      /\ phaseBar[r] = "new"
  BY <1>1 DEF phaseBar, PhaseOf
<1>4. phaseBar' = [phaseBar EXCEPT ![r] =
                     IF request'[r].scope = {} THEN "refused" ELSE "accepted"]
  BY <1>1, <1>2, <1>3 DEF phaseBar, PhaseOf
<1>5. /\ heldBar[r] = {}
      /\ heldBar' = [heldBar EXCEPT ![r] = request'[r].scope]
  <2>1. request[r].scope = {}
    BY <1>1 DEF Blank, IInv, RequestInv, LifeInv
  <2>. QED  BY <1>1, <1>2, <2>1 DEF heldBar
<1>6. CASE refusal # "none"
  <2>1. phaseBar' = [phaseBar EXCEPT ![r] = "refused"] /\ heldBar' = heldBar
    BY <1>2, <1>4, <1>5, <1>6 DEF heldBar
  <2>. QED
    BY <1>3, <2>1 DEF Reservation!Next, Reservation!Refuse, phaseBar, heldBar
<1>7. CASE refusal = "none"
  <2>1. scope \in SUBSET Targets /\ scope # {}
    BY <1>7, ScopeOfType, RefusalFacts DEF IInv
  <2>2. \A q \in RequestIds : heldBar[q] \cap scope = {}
    <3>1. \A q \in pending : request[q].scope \cap scope = {}
      BY <1>7, RefusalFacts
    <3>2. \A q \in RequestIds \ pending : request[q].scope = {}
      BY DEF IInv, RequestInv, LifeInv, Blank
    <3>. QED  BY <3>1, <3>2 DEF heldBar
  <2>3. /\ phaseBar' = [phaseBar EXCEPT ![r] = "accepted"]
        /\ heldBar' = [heldBar EXCEPT ![r] = scope]
    BY <1>2, <1>4, <1>5, <1>7, <2>1
  <2>. QED
    BY <1>3, <2>1, <2>2, <2>3 DEF Reservation!Next, Reservation!Accept, phaseBar, heldBar
<1>. QED  BY <1>6, <1>7

(* An answer is a Succeed or Fail step, or a step advance() takes.          *)
LEMMA ReplyMaps ==
  ASSUME IInv, NEW c \in calls, NEW error \in Answers, Reply(c, error)
  PROVE  [Reservation!Next]_(Reservation!vars)
<1> DEFINE r == c.request
<1>1. CASE ~(r \in pending /\ request[r].step = c.step)
  BY <1>1 DEF Reply, Reservation!vars, PhaseOf
<1>2. CASE r \in pending /\ request[r].step = c.step
  <2>1. /\ request[r].scope # {} /\ request[r].step # 0 /\ r \in RequestIds
        /\ pending \subseteq RequestIds
    BY <1>2 DEF IInv, RequestInv, CallInv, TypeOK, Call
  <2>2. CASE error # "none"
    <3>1. Finish({r}, error) /\ error \in Errors
      BY <1>2, <2>2 DEF Reply, FinishOne, Answers, Errors
    <3>. QED  BY <1>2, <3>1, FinishMaps
  <2>3. CASE error = "none" /\ request[r].final
    <3>1. Finish({r}, "ok")
      BY <1>2, <2>3 DEF Reply, FinishOne
    <3>2. phaseBar[r] = "working"
      BY <1>2, <2>1, OpenPhase
    <3>3. /\ phaseBar \in [RequestIds -> {"new", "refused", "accepted", "working", "ok", "error"}]
          /\ phaseBar' = [phaseBar EXCEPT ![r] = "ok"]
      BY <2>1, <3>1 DEF Finish, phaseBar, PhaseOf
    <3>4. heldBar' = [heldBar EXCEPT ![r] = {}]
      BY <2>1, <3>1 DEF Finish, heldBar, Blank
    <3>. QED
      BY <2>1, <3>2, <3>3, <3>4 DEF Reservation!Next, Reservation!Succeed, phaseBar, heldBar
  <2>4. CASE error = "none" /\ ~request[r].final
    BY <1>2, <2>1, <2>4, AdvanceMaps DEF Reply
  <2>. QED  BY <2>2, <2>3, <2>4
<1>. QED  BY <1>1, <1>2

(* A timer is a Fail step, a step advance() takes, or none.                 *)
LEMMA TimerMaps ==
  ASSUME IInv, NEW t \in timers, Timer(t)
  PROVE  [Reservation!Next]_(Reservation!vars)
<1> DEFINE r == t.request
<1>1. CASE r \notin pending
  BY <1>1 DEF Timer, Reservation!vars, PhaseOf
<1>2. CASE r \in pending /\ t.refusal # "none"
  <2>1. Finish({r}, t.refusal) /\ t.refusal \in Errors
    BY <1>2 DEF Timer, FinishOne, IInv, TypeOK
  <2>. QED  BY <1>2, <2>1, FinishMaps
<1>3. CASE r \in pending /\ t.refusal = "none"
  <2>1. request[r].scope # {} /\ Advance(r, calls)
    BY <1>3 DEF Timer, IInv, RequestInv, TimerInv
  <2>. QED  BY <1>3, <2>1, AdvanceMaps
<1>. QED  BY <1>1, <1>2, <1>3

(* The controller implements the reservation protocol: the initial state is *)
(* one of StorageReservation, and every handler is one of its steps or      *)
(* changes neither phase nor held.                                          *)
THEOREM Implements == Spec => ImplementsReservation
<1>1. Init => Reservation!Init
  BY DEF Init, Reservation!Init, PhaseOf, Blank
<1>2. IInv /\ [Next]_vars => [Reservation!Next]_(Reservation!vars)
  <2>. SUFFICES ASSUME IInv, [Next]_vars
                PROVE  [Reservation!Next]_(Reservation!vars)
    OBVIOUS
  <2>1. ASSUME NEW r \in RequestIds, NEW v \in VolumeIds, NEW operation \in {"Mount", "Unmount"},
               Begin(r, operation, v, {})
        PROVE  Reservation!Next
    BY <2>1, BeginMaps DEF Operations, Targets
  <2>2. ASSUME NEW r \in RequestIds, NEW d \in DriveIds, NEW confirmed,
               \/ Begin(r, "Eject", d, {})
               \/ Begin(r, "PowerOff", d, confirmed)
        PROVE  Reservation!Next
    BY <2>2, BeginMaps DEF Operations, Targets
  <2>3. ASSUME Disconnect
        PROVE  Reservation!Next
    BY <2>3, FinishMaps DEF Disconnect, Errors
  <2>4. CASE \/ \E t \in Topologies : Snapshot(t)
             \/ \E c \in calls : Forget(c)
             \/ UNCHANGED vars
    BY <2>4 DEF Snapshot, Forget, vars, Reservation!vars, PhaseOf
  <2>. QED
    BY <2>1, <2>2, <2>3, <2>4, TimerMaps, ReplyMaps DEF Next
<1>. QED
  BY <1>1, <1>2, Invariant, PTL DEF Spec, ImplementsReservation, Reservation!Spec

=============================================================================
