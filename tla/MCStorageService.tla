-------------------------- MODULE MCStorageService --------------------------
(* One drive with one volume, and two requests. *)
EXTENDS StorageService, TLC

CONSTANTS d, v

MCDriveOf == [x \in {v} |-> d]

Symmetry == Permutations(RequestIds)
=============================================================================
