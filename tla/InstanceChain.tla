---------------------------- MODULE InstanceChain ----------------------------
(***************************************************************************)
(* LoaderInstance::CreateInstance on the layers ApiLayerLoading leaves:    *)
(* the check and the filter of the requested extensions, the linking of    *)
(* one XrApiLayerNextInfo per layer, the call of the layers down to the    *)
(* loader's terminator and the runtime, and the LoaderInstance that owns   *)
(* the layers until xrDestroyInstance (loader_instance.cpp,                *)
(* loader_core.cpp).                                                       *)
(*                                                                         *)
(* Layers are external: one may refuse, may take extensions it supports    *)
(* out of the list, and otherwise calls the function its next info names,  *)
(* with the info after it.  No name is requested twice: the filter takes   *)
(* out one occurrence only.  xrDestroyInstance reaches the terminator.     *)
(***************************************************************************)
EXTENDS ApiLayerLoading

CONSTANTS
  Extensions,
  DebugUtils,  \* XR_EXT_debug_utils
  SupportedBy, \* per manifest: the extensions its layer supports
  Offers,      \* what runtimes support: sets of extensions
  Term         \* the loader's terminators

ASSUME InstanceChainAssumption ==
  /\ DebugUtils \in Extensions
  /\ SupportedBy \in [Manifests -> SUBSET Extensions]
  /\ Offers \subseteq SUBSET Extensions
  /\ Term \notin Manifests

VARIABLES
  asked,   \* info->enabledExtensionNames
  runtime, \* the runtime's _supported_extensions
  passed,  \* extensions in the create info the next function is given
  infos,   \* next_info_list, from the index last linked on
  top,     \* topmost_nextinfo (an index), topmost_gipa, topmost_cali_fp
  callee,  \* the create function called next: a layer's or Term
  given,   \* the index of the next info it is given, or 0
  visited, \* layers called, each with the next info it was given
  made,    \* does the runtime have an instance?
  enabled, \* _enabled_extensions of the LoaderInstance
  stage    \* the next step

request == <<asked, runtime>>
linking == <<infos, top>>
calling == <<passed, callee, given, visited>>
chain   == <<request, linking, calling, made, enabled, stage>>
allVars == <<vars, chain>>

Stages == {"layers", "check", "link", "call", "made", "fail", "alive", "destroyed", "done"}

NoLink == [info |-> 0, gipa |-> Term, cali |-> Term]

ChainInit ==
  /\ Init
  /\ asked = {} /\ runtime = {} /\ passed = {}
  /\ infos = <<>> /\ top = NoLink
  /\ callee = Term /\ given = 0 /\ visited = <<>>
  /\ made = FALSE
  /\ enabled = {}
  /\ stage = "layers"

To(from, to) == stage = from /\ stage' = to

-----------------------------------------------------------------------------
(* LoadApiLayers has returned.  What the application asks for and what the *)
(* runtime supports was fixed before, and is chosen where it is first read. *)

LayersFailed ==
  /\ pc = "returned" /\ result # "success"
  /\ To("layers", "done")
  /\ UNCHANGED <<vars, request, linking, calling, made, enabled>>

LayersLoaded ==
  /\ pc = "returned" /\ result = "success"
  /\ To("layers", "check")
  /\ asked' \in SUBSET Extensions
  /\ runtime' \in Offers
  /\ UNCHANGED <<vars, linking, calling, made, enabled>>

LoaderSpecificExtensions == {DebugUtils}

LayersSupport == UNION {SupportedBy[m] : m \in ToSet(interfaces)}
Supported == runtime \cup LoaderSpecificExtensions \cup LayersSupport

ExtensionMissing ==
  /\ ~ asked \subseteq Supported
  /\ To("check", "fail")
  /\ UNCHANGED <<vars, request, linking, calling, made, enabled>>

(* Seeded defect: what the loader supports is always taken out.            *)
FilterAll ==
  /\ asked \subseteq Supported
  /\ To("check", "link")
  /\ passed' = asked \ LoaderSpecificExtensions
  /\ UNCHANGED <<vars, request, linking, callee, given, visited, made, enabled>>

(* What only the loader supports is taken out of the list.                 *)
FilterOutExtensions ==
  /\ asked \subseteq Supported
  /\ To("check", "link")
  /\ passed' = asked \ (LoaderSpecificExtensions \ runtime)
  /\ UNCHANGED <<vars, request, linking, callee, given, visited, made, enabled>>

-----------------------------------------------------------------------------
(* The chain of next infos, from the layer nearest to the runtime up       *)

Linked == Cardinality(DOMAIN infos)
LinkIndex == Len(interfaces) - Linked  \* ni_index
LinkInfo == [layer |-> interfaces[LinkIndex], next |-> top.info, gipa |-> top.gipa,
             cali |-> top.cali]

(* Seeded defect: the pointers are moved on before the info is filled in.  *)
LinkLate ==
  LET layer == interfaces[LinkIndex] IN
  /\ Linked < Len(interfaces)
  /\ To("link", "link")
  /\ infos' = [i \in LinkIndex..Len(interfaces) |->
                 IF i = LinkIndex THEN [LinkInfo EXCEPT !.gipa = layer] ELSE infos[i]]
  /\ top' = [info |-> LinkIndex, gipa |-> layer, cali |-> layer]
  /\ UNCHANGED <<vars, request, calling, made, enabled>>

LinkLayer ==
  LET layer == interfaces[LinkIndex] IN
  /\ Linked < Len(interfaces)
  /\ To("link", "link")
  /\ infos' = [i \in LinkIndex..Len(interfaces) |->
                 IF i = LinkIndex THEN LinkInfo ELSE infos[i]]
  /\ top' = [info |-> LinkIndex, gipa |-> layer, cali |-> layer]
  /\ UNCHANGED <<vars, request, calling, made, enabled>>

(* api_layer_ci.nextInfo is the start of the list.                         *)
CallTopmost ==
  /\ Linked = Len(interfaces)
  /\ To("link", "call")
  /\ callee' = top.cali
  /\ given' = IF interfaces = <<>> THEN 0 ELSE 1
  /\ UNCHANGED <<vars, request, linking, passed, visited, made, enabled>>

-----------------------------------------------------------------------------
(* Down the chain and back                                                 *)

LayerCallsNext ==
  /\ callee # Term
  /\ To("call", "call")
  /\ \E taken \in SUBSET SupportedBy[callee] : passed' = passed \ taken
  /\ visited' = Append(visited, [by |-> callee, info |-> infos[given]])
  /\ callee' = infos[given].cali
  /\ given' = infos[given].next
  /\ UNCHANGED <<vars, request, linking, made, enabled>>

LayerRefuses ==
  /\ callee # Term
  /\ To("call", "fail")
  /\ UNCHANGED <<vars, request, linking, calling, made, enabled>>

(* ValidateInstanceCreateInfo or the runtime's xrCreateInstance fails.     *)
TermFails ==
  /\ callee = Term
  /\ To("call", "fail")
  /\ UNCHANGED <<vars, request, linking, calling, made, enabled>>

TermCreates ==
  /\ callee = Term
  /\ To("call", "made")
  /\ made' = TRUE
  /\ UNCHANGED <<vars, request, linking, calling, enabled>>

(* A layer that cannot go on destroys what was made below it.              *)
LayerGivesUp ==
  /\ visited # <<>>
  /\ To("made", "fail")
  /\ made' = FALSE
  /\ UNCHANGED <<vars, request, linking, calling, enabled>>

(* Seeded defect: the layers stay with the call, which returns.            *)
LayersNotMoved ==
  /\ To("made", "alive")
  /\ enabled' = asked
  /\ DestroyInterfaces
  /\ UNCHANGED <<input, selection, next, forwarded, initCalls, lastError, result, pc>>
  /\ UNCHANGED <<request, linking, calling, made>>

NewLoaderInstance ==
  /\ To("made", "alive")
  /\ enabled' = asked
  /\ UNCHANGED <<vars, request, linking, calling, made>>

(* Only api_layer_interfaces, a parameter by value, has the layers.        *)
CreationFails ==
  /\ To("fail", "done")
  /\ DestroyInterfaces
  /\ UNCHANGED <<input, selection, next, forwarded, initCalls, lastError, result, pc>>
  /\ UNCHANGED <<request, linking, calling, made, enabled>>

-----------------------------------------------------------------------------
(* xrDestroyInstance: down the chain to the runtime, then the              *)
(* LoaderInstance goes, and its layers with it.                            *)

DestroyInstance ==
  /\ To("alive", "destroyed")
  /\ made' = FALSE
  /\ UNCHANGED <<vars, request, linking, calling, enabled>>

RemoveInstance ==
  /\ To("destroyed", "done")
  /\ DestroyInterfaces
  /\ enabled' = {}
  /\ UNCHANGED <<input, selection, next, forwarded, initCalls, lastError, result, pc>>
  /\ UNCHANGED <<request, linking, calling, made>>

CreateStep ==
  \/ LayersFailed \/ LayersLoaded \/ ExtensionMissing \/ FilterOutExtensions
  \/ LinkLayer \/ CallTopmost \/ LayerCallsNext \/ LayerRefuses
  \/ TermFails \/ TermCreates \/ LayerGivesUp \/ NewLoaderInstance \/ CreationFails

ChainNext ==
  \/ Next /\ UNCHANGED chain
  \/ CreateStep
  \/ DestroyInstance \/ RemoveInstance

ChainSpec == ChainInit /\ [][ChainNext]_allVars

(* The layers' functions and the runtime's return.                         *)
ChainFairSpec == ChainSpec /\ WF_allVars((Next /\ UNCHANGED chain) \/ CreateStep)

-----------------------------------------------------------------------------
(* Properties                                                              *)

(* A creation goes on only with a manifest for every name asked for, and   *)
(* not if all planned layers failed.                                       *)
CreationIsEarned == stage = "check" => SuccessIsEarned

(* The layers are called in the order of the plan, each once, with the     *)
(* info that names it and that gives it the functions of the layer below;  *)
(* the last one calls the terminator ("go backwards through the layer list *)
(* so we replace in reverse order so the layers can call their next        *)
(* function appropriately", loader_instance.cpp:213).  xrGetInstanceProcAddr *)
(* starts at the first.                                                    *)
Below(i) == IF i < Len(interfaces) THEN interfaces[i + 1] ELSE Term

CalledInOrder ==
  stage \in {"call", "made", "alive"} =>
    /\ Len(visited) <= Len(interfaces)
    /\ \A i \in DOMAIN visited :
         /\ visited[i].by = interfaces[i] /\ visited[i].info.layer = interfaces[i]
         /\ visited[i].info.gipa = Below(i) /\ visited[i].info.cali = Below(i)
    /\ callee = Below(Len(visited))
    /\ top.gipa = Below(0)

(* An instance has every extension asked for: the runtime is given it if   *)
(* it supports it and no layer took it over, a layer supports it, or it is *)
(* the loader's own, whose functions xrGetInstanceProcAddr then hands out. *)
(* The runtime is given none that neither it nor a loaded layer supports.  *)
ExtensionsHonoured ==
  stage = "alive" =>
    /\ asked \subseteq (passed \cap runtime) \cup LayersSupport \cup LoaderSpecificExtensions
    /\ passed \subseteq asked \cap (runtime \cup LayersSupport)
    /\ (asked \cap runtime) \ LayersSupport \subseteq passed
    /\ DebugUtils \in asked <=> DebugUtils \in enabled

(* Layers are open as long as an instance was made through them, and once  *)
(* creation has failed or the instance is gone, none is: "If we failed     *)
(* catastrophically for some reason, clean up everything"                  *)
(* (api_layer_interface.cpp:437).                                          *)
LayersOutliveInstance ==
  /\ made => \A i \in DOMAIN visited : visited[i].by \in open
  /\ stage = "done" => open = {} /\ ~made

(* xrCreateInstance returns, with an instance or a failure.                *)
CreationReturns == <>(stage \in {"alive", "done"})

-----------------------------------------------------------------------------
(* The inductive invariant behind CalledInOrder: with the layers above k   *)
(* linked, each info leads to the layer below its own, and the next layer  *)
(* called is the one below those called before.                            *)
IndexBelow(i) == IF i < Len(interfaces) THEN i + 1 ELSE 0

InfoFor(i) ==
  [layer |-> interfaces[i], next |-> IndexBelow(i), gipa |-> Below(i), cali |-> Below(i)]

LinkedFrom(k) ==
  /\ DOMAIN infos = (k + 1)..Len(interfaces)
  /\ top = [info |-> IndexBelow(k), gipa |-> Below(k), cali |-> Below(k)]
  /\ \A i \in DOMAIN infos : infos[i] = InfoFor(i)

CalledDown ==
  /\ visited \in Seq([by : ToSet(interfaces), info : {infos[i] : i \in DOMAIN infos}])
  /\ Len(visited) <= Len(interfaces)
  /\ \A i \in DOMAIN visited : visited[i] = [by |-> interfaces[i], info |-> infos[i]]
  /\ callee = Below(Len(visited)) /\ given = IndexBelow(Len(visited))

ChainInv ==
  /\ stage \in Stages
  /\ interfaces \in Seq(ToSet(interfaces))
  /\ stage # "layers" => pc = "returned"
  /\ stage \in {"layers", "check"} => infos = <<>> /\ top = NoLink /\ visited = <<>>
  /\ stage = "link" => visited = <<>> /\ \E k \in 0..Len(interfaces) : LinkedFrom(k)
  /\ stage \in {"call", "made", "alive"} => LinkedFrom(0) /\ CalledDown

(* The invariant behind the others: from the filter on, all that was asked *)
(* for is supported, and is passed on unless it is the loader's alone or a *)
(* layer's; the layers are held until creation has failed or the instance  *)
(* is gone.                                                                *)
PassedOn ==
  /\ asked \subseteq Supported
  /\ passed \subseteq asked \ (LoaderSpecificExtensions \ runtime)
  /\ (asked \cap runtime) \ LayersSupport \subseteq passed

HandoverInv ==
  /\ stage \in {"layers", "check"} => SuccessIsEarned
  /\ stage \in {"link", "call", "made", "alive"} => PassedOn
  /\ stage = "alive" => enabled = asked
  /\ made => stage \in {"made", "alive"}
  /\ stage = "done" => interfaces = <<>>
=============================================================================
