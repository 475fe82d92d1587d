-------------------------- MODULE MCApiLayerLoading --------------------------
(* An instance of ApiLayerLoading for TLC: two manifests carry the same     *)
(* layer name, a third another, and one name has no manifest.               *)
EXTENDS ApiLayerLoading

CONSTANTS m1, m2, m3, overlay, validation, absent

MCManifests == {m1, m2, m3}
MCNames == {overlay, validation, absent}
MCNameOf == [m \in MCManifests |-> IF m = m3 THEN validation ELSE overlay]
=============================================================================
