----------------------- MODULE MCBluetoothController -----------------------
(* One adapter and at most one device: two requests for discovery on the    *)
(* adapter alone, or any single request; after the second event no request, *)
(* or one StartDiscovery on the adapter alone.  The requests are alike, so  *)
(* the first one is r1.                                                     *)
EXTENDS BluetoothController

CONSTANTS a, d, r1, r2

MCAdapterOf == [x \in {d} |-> a]

Used == {r \in RequestIds : request[r].operation # "none"}

AdapterOnly ==
  /\ world.present \cup {o \in Objects : backend.minted[o] > 0} \subseteq Adapters
  /\ \A r \in Used : request[r].operation \in Discovery

Within ==
  /\ r2 \in Used => r1 \in Used
  /\ AdapterOnly \/ Used \subseteq {r1}
  /\ Events = MaxEvents =>
       \/ Used = {}
       \/ AdapterOnly /\ Used = {r1} /\ request[r1].operation = "StartDiscovery"

MCSpec == Init /\ [][Next /\ Within']_vars /\ Fairness
=============================================================================
