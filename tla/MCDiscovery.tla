----------------------------- MODULE MCDiscovery ------------------------------
(* An instance of Discovery for TLC.  i1 is an implicit layer with an       *)
(* enable_environment, i2 one without, i3 a file that cannot be used; e1    *)
(* and e2 are found in the default directories of explicit layers, e2 also  *)
(* in the one that XR_API_LAYER_PATH names.  Both layers i1 and i2 list     *)
(* hand_tracking, i1 and e2 debug_utils, with versions on both sides of the *)
(* runtimes' and the loader's.                                              *)
EXTENDS Discovery

CONSTANTS r1, r2, i1, i2, i3, e1, e2, debug_utils, hand_tracking, standard, own, On

Prop(name, version) == [name |-> name, version |-> version]

MCImplicit == <<i1, i3, i2>>
MCExplicit == [d \in {standard, own} |-> IF d = own THEN <<e2>> ELSE <<e1, e2>>]
MCValid == {i1, i2, e1, e2}
MCLayerName == [f \in {i1, i2, i3, e1, e2} |-> CASE f = e2 -> "validation" [] f = i3 -> "unusable" [] OTHER -> "overlay"]
MCEnableVar == [f \in {i1, i2, i3} |-> IF f = i1 THEN "ENABLE_1" ELSE None]
MCDisableVar == [f \in {i1, i2, i3} |-> IF f = i1 THEN "DISABLE_1" ELSE "DISABLE_2"]
MCListing ==
  [f \in {i1, i2, i3, e1, e2} |->
     CASE f = i1 -> <<Prop(hand_tracking, 3), Prop(debug_utils, 1)>>
       [] f = i2 -> <<Prop(hand_tracking, 4)>>
       [] f = e2 -> <<Prop(debug_utils, 3)>>
       [] OTHER  -> <<>>]
MCVersionOf == [r \in {r1, r2} |-> [e \in {debug_utils, hand_tracking} |-> IF r = r1 THEN 1 ELSE 5]]

MCEnvironments ==
  {[v \in {"DISABLE_2", "XR_ENABLE_API_LAYERS"} |-> IF v = "DISABLE_2" THEN On ELSE {"validation"}],
   [v \in {"ENABLE_1", "XR_RUNTIME_JSON", "XR_API_LAYER_PATH"} |->
      CASE v = "ENABLE_1" -> Empty [] v = "XR_RUNTIME_JSON" -> r1 [] OTHER -> own]}
MCPropertyLists ==
  {<<>>, <<<<None, On>>>>,
   <<<<"DISABLE_2", Empty>>, <<"XR_RUNTIME_JSON", r2>>>>,
   <<<<"ENABLE_1", On>>, <<"XR_ENABLE_API_LAYERS", {"overlay"}>>, <<"ENABLE_1", Empty>>>>}
=============================================================================
