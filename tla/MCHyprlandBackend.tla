-------------------------- MODULE MCHyprlandBackend --------------------------
(* Two windows and two workspaces, or one of each. *)
EXTENDS HyprlandBackend
=============================================================================
