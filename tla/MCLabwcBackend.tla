---------------------------- MODULE MCLabwcBackend ----------------------------
(* One protocol in depth under a compositor that lacks the other, or both     *)
(* with MaxTogether things to happen: with 2, a protocol of the two can be    *)
(* withdrawn and come back, and both are there at last.                       *)
EXTENDS LabwcBackend, FiniteSetsExt

CONSTANTS MaxTogether

Total(counters) == FoldFunction(+, 0, counters)

Within ==
  \/ ~global /\ spent.stops + spent.edits + spent.arrivals + spent.activations = 0
  \/ ~toplevelGlobal /\ Total(windowsSpent) = 0
  \/ Total(windowsSpent) + spent.stops + spent.edits + spent.arrivals + spent.activations
       <= MaxTogether

MCSpec == LabwcInit /\ [][LabwcNext /\ Within']_allVars /\ LabwcFairness
=============================================================================
