--------------------------- MODULE MCInstanceChain ---------------------------
(* An instance of InstanceChain for TLC: manifests and names as in          *)
(* MCApiLayerLoading; the layer of m1 supports an extension of its own.     *)
EXTENDS InstanceChain

CONSTANTS m1, m2, m3, overlay, validation, absent, debug_utils, visibility

MCManifests == {m1, m2, m3}
MCNames == {overlay, validation, absent}
MCNameOf == [m \in MCManifests |-> IF m = m3 THEN validation ELSE overlay]
MCExtensions == {debug_utils, visibility}
MCOffers == {{}, {debug_utils, visibility}}
MCSupportedBy == [m \in MCManifests |-> IF m = m1 THEN {visibility} ELSE {}]
=============================================================================
