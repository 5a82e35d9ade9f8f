------------------------- MODULE MCStorageController -------------------------
(* Two sibling drives with a volume each.  One drive may be unplugged, its  *)
(* volume staying without a drive, volumes may be mounted by anyone, and    *)
(* the drives may lose their capabilities.                                  *)
EXTENDS StorageController

CONSTANTS d1, d2, v1, v2, s

Shape(D, M, removable) ==
  [drives      |-> D,
   volumes     |-> {v1, v2},
   sibling     |-> [d \in {d1, d2} |-> s],
   driveOf     |-> [v \in {v1, v2} |->
                      IF v = v1 THEN d1 ELSE IF d2 \in D THEN d2 ELSE None],
   canEject    |-> removable,
   canPowerOff |-> removable,
   filesystem  |-> {v1, v2},
   mounted     |-> M]

MCTopologies ==
  {Shape({d1, d2}, M, {d1, d2}) : M \in {{}, {v1}, {v1, v2}}}
    \cup {Shape({d1}, {v1}, {d1, d2}), Shape({d1}, {v2}, {})}

MCConfirmations == {{d1, v1}, {d1, d2, v1, v2}}
=============================================================================
