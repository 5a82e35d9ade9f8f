--------------------------- MODULE WindowActivation ---------------------------
(***************************************************************************)
(* src/compositor/WindowActivation.cpp: which of the windows a compositor  *)
(* lists a request means.  A request names processes, the nearest first,   *)
(* and perhaps a title; a window has the process and the title that the    *)
(* compositor gives it.  Titles that are too long or hold a null character *)
(* are not told apart from titles that are not.                            *)
(***************************************************************************)
EXTENDS Naturals, SequencesExt

NoTitle == "" \* an empty title_hint
MaximumLineageEntries == 64

isValidWindowActivationRequest(request) ==
  /\ Len(request.process_lineage) \in 1..MaximumLineageEntries
  /\ 0 \notin ToSet(request.process_lineage)

Resolution(result, indexes) == [result |-> result, candidate_index |-> indexes]

(* One turn of the loop over the candidates: those found at the best place   *)
(* of the lineage so far.                                                    *)
Considered(request, candidates, best, index) ==
  LET position == SelectInSeq(request.process_lineage, LAMBDA pid : pid = candidates[index].pid)
  IN IF position = 0 \/ position > best.position THEN best
     ELSE [position |-> position,
           matches |-> IF position = best.position THEN best.matches \cup {index} ELSE {index}]

matches(request, candidates) ==
  FoldLeft(LAMBDA best, index : Considered(request, candidates, best, index),
           [position |-> MaximumLineageEntries + 1, matches |-> {}],
           [i \in DOMAIN candidates |-> i]).matches

(* The only one of several; with none or with more there is no answer. *)
Only(indexes) ==
  Resolution(CASE Cardinality(indexes) = 0 -> "Missing"
               [] Cardinality(indexes) = 1 -> "Accepted"
               [] OTHER -> "Ambiguous",
             IF Cardinality(indexes) = 1 THEN indexes ELSE {})

resolveWindowActivation(request, candidates) ==
  LET found == matches(request, candidates)
      titled == {i \in found : candidates[i].title = request.title_hint}
  IN IF ~isValidWindowActivationRequest(request) THEN Resolution("InvalidRequest", {})
     ELSE IF Cardinality(found) > 1 /\ request.title_hint # NoTitle THEN Only(titled)
     ELSE Only(found)

-----------------------------------------------------------------------------
(* What a resolution has to be, without a loop: a window is meant when no     *)
(* other is in a nearer process of the lineage, nor in the same one, unless   *)
(* the title tells the two apart.                                             *)
Distance(request, candidate) ==
  CHOOSE d \in DOMAIN request.process_lineage :
    /\ request.process_lineage[d] = candidate.pid
    /\ \A e \in 1..(d - 1) : request.process_lineage[e] # candidate.pid

Related(request, candidate) == candidate.pid \in ToSet(request.process_lineage)

(* The index of a window outranks that of another. *)
Outranks(request, candidates, i, j) ==
  \/ ~Related(request, candidates[j])
  \/ Distance(request, candidates[i]) < Distance(request, candidates[j])
  \/ /\ Distance(request, candidates[i]) = Distance(request, candidates[j])
     /\ request.title_hint # NoTitle
     /\ candidates[i].title = request.title_hint /\ candidates[j].title # request.title_hint

(* "Accepted" is answered for exactly the window that outranks all others,    *)
(* and never for one of a process that was not named.                         *)
ResolvesTheWindowMeant(request, candidates) ==
  isValidWindowActivationRequest(request) =>
    LET resolution == resolveWindowActivation(request, candidates)
    IN resolution.candidate_index =
         {i \in DOMAIN candidates :
            /\ Related(request, candidates[i])
            /\ \A j \in DOMAIN candidates \ {i} : Outranks(request, candidates, i, j)}
=============================================================================
