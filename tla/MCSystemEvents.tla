--------------------------- MODULE MCSystemEvents ---------------------------
(* Instances of SystemEvents for TLC. *)
EXTENDS SystemEvents, TLC

CONSTANTS k1, k2, k3, c1, c2

(* Two keys in the first configuration, one in the second. *)
TwoConfigs == (k1 :> c1) @@ (k2 :> c1) @@ (k3 :> c2)
OneConfig  == (k1 :> c1) @@ (k2 :> c1)

(* At most one overlapping request, rotation, rollback or repeated outcome. *)
OneFault == overlaps + rotations + rollbacks + redeliveries <= 1

Symmetric == Permutations(Slots) \union Permutations(Systems)
=============================================================================
