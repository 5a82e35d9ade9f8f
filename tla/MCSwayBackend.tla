----------------------------- MODULE MCSwayBackend -----------------------------
(* One workspace that is there from the second version on, and one that is   *)
(* there before; they are named so that the slots can be told apart.  With   *)
(* it, the resolver of window activations is compared with what it has to    *)
(* answer, for every request and list of windows of up to three.             *)
EXTENDS SwayBackend, WindowActivation

CONSTANTS w1, w2

MCWorkspacesAt(version) == IF version = 1 THEN {w1} ELSE {w2}

Titles == {NoTitle, "editor", "shell"}
Requests == [process_lineage : SeqOf(1..3, 3), title_hint : {NoTitle, "editor"}]
Candidates == SeqOf([pid : 1..3, title : Titles], 2) \cup
              SeqOf([pid : 1..2, title : {"editor", "shell"}], 3)

ASSUME WindowsResolved ==
  \A asked \in Requests, listed \in Candidates : ResolvesTheWindowMeant(asked, listed)
=============================================================================
