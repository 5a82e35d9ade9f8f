-------------------------- MODULE MCUDisks2Backend --------------------------
(* One drive with one volume. *)
EXTENDS UDisks2Backend

CONSTANTS d, v

MCDriveOf == [x \in {v} |-> d]
=============================================================================
