------------------------- MODULE MCHyprlandIpcClient -------------------------
(* Delays of 1, 2 and 3 seconds stand for 1, 2, 4, 8, 16 and 30. *)
EXTENDS HyprlandIpcClient
=============================================================================
