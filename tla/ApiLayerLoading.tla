--------------------------- MODULE ApiLayerLoading ---------------------------
(***************************************************************************)
(* ApiLayerInterface::LoadApiLayers: which API layers an xrCreateInstance  *)
(* enables, in which order, and how each library is opened, told of the    *)
(* platform's init data, negotiated with, and kept or closed again.  The   *)
(* call runs under the loader's mutex, so this is one sequential machine;  *)
(* what makes it hard is that every step may fail, for each layer in its   *)
(* own way, with the libraries of other layers open.                       *)
(*                                                                         *)
(* Manifests are found in search order.  Two of them may carry the same    *)
(* layer name; nothing in the loader forbids that.  Layers are external:   *)
(* what their functions answer is any of the outcomes the loader tells     *)
(* apart.  The loader is initialised wherever that is required, as the     *)
(* runtime has been loaded before (LoaderCore, CreateLoadRuntime).         *)
(***************************************************************************)
EXTENDS Naturals, FiniteSets, Sequences, SequencesExt

CONSTANTS
  Manifests,  \* API layer manifest files, implicit and explicit
  Names,      \* layer names, the empty one included
  NameOf,     \* the LayerName() of each manifest
  MaxNames    \* bound: names in XR_ENABLE_API_LAYERS, and in the create info

ASSUME ApiLayerLoadingAssumption ==
  /\ IsFiniteSet(Manifests)
  /\ NameOf \in [Manifests -> Names]
  /\ MaxNames \in Nat

VARIABLES
  input,      \* the manifests found, the names asked for in XR_ENABLE_API_LAYERS and in
              \* the create info, and whether getPlatformParam() is not nullptr, which is the
              \* platform's choice
  explicit,   \* explicit_layer_manifest_files, without those already moved
  requests,   \* enabled_explicit_api_layer_names still to be looked up
  it,         \* index in explicit the name is compared at, or 0
  found,      \* layers_already_found
  foundAll,   \* found_all_layers
  plan,       \* enabled_layer_manifest_files_in_init_order
  next,       \* index of the manifest the loading loop is at
  open,       \* manifests whose library is open
  forwarded,  \* forwardedInitLoader of this iteration
  initCalls,  \* per manifest: calls of its xrInitializeLoaderKHR
  interfaces, \* api_layer_interfaces, each named by its manifest
  lastError,  \* last_error
  result,     \* what LoadApiLayers returned
  pc          \* the next step

selection == <<explicit, requests, it, found, foundAll, plan>>
loading   == <<next, open, forwarded, initCalls, interfaces, lastError>>
vars      == <<input, selection, loading, result, pc>>

Errors  == {"success", "file_access", "not_present", "negotiation"}

Requested == input.environment \o input.application
NamesOf(s) == {NameOf[m] : m \in ToSet(s)}
Current == plan[next]

Init ==
  /\ input \in [implicit : SetToAllKPermutations(Manifests),
                explicit : SetToAllKPermutations(Manifests),
                environment : BoundedSeq(Names, MaxNames),
                application : BoundedSeq(Names, MaxNames),
                platform : BOOLEAN]
  /\ ToSet(input.implicit) \cap ToSet(input.explicit) = {}
  /\ explicit = input.explicit
  /\ requests = <<>>
  /\ it = 0
  /\ found = NamesOf(input.implicit)
  /\ foundAll = TRUE
  /\ plan = input.implicit
  /\ next = 1
  /\ open = {}
  /\ forwarded = FALSE
  /\ initCalls = [m \in Manifests |-> 0]
  /\ interfaces = <<>>
  /\ lastError = "success"
  /\ result = "none"
  /\ pc = "names"

Goto(from, to) == pc = from /\ pc' = to

-----------------------------------------------------------------------------
(* Which layers: the implicit ones, then those the environment and the     *)
(* application ask for.                                                    *)

(* enabledApiLayerCount is not 0 and enabledApiLayerNames is nullptr.      *)
NullNames ==
  /\ input.application # <<>>
  /\ Goto("names", "drop")
  /\ result' = "validation"
  /\ UNCHANGED <<input, selection, loading>>

AddNames ==
  /\ Goto("names", "select")
  /\ requests' = Requested
  /\ UNCHANGED <<input, explicit, it, found, foundAll, plan, loading, result>>

(* Seeded defect: layers_already_found is not consulted.                   *)
NewNameForgetful == requests # <<>>

NewName == requests # <<>> /\ Head(requests) \notin found

SelectAgain ==
  /\ requests # <<>> /\ Head(requests) \in found
  /\ Goto("select", "select")
  /\ requests' = Tail(requests)
  /\ UNCHANGED <<input, explicit, it, found, foundAll, plan, loading, result>>

SelectName ==
  /\ NewName
  /\ Goto("select", "match")
  /\ it' = 1
  /\ UNCHANGED <<input, explicit, requests, found, foundAll, plan, loading, result>>

(* All explicit manifests of that name are moved, not just the first.      *)
SelectMatching ==
  /\ Goto("match", "match")
  /\ it <= Len(explicit) /\ NameOf[explicit[it]] = Head(requests)
  /\ found' = found \cup {Head(requests)}
  /\ plan' = Append(plan, explicit[it])
  /\ explicit' = RemoveAt(explicit, it)
  /\ UNCHANGED <<input, requests, it, foundAll, loading, result>>

SelectOther ==
  /\ Goto("match", "match")
  /\ it <= Len(explicit) /\ NameOf[explicit[it]] # Head(requests)
  /\ it' = it + 1
  /\ UNCHANGED <<input, explicit, requests, found, foundAll, plan, loading, result>>

(* The name has been compared with every manifest.                         *)
Compared ==
  /\ Goto("match", "select")
  /\ it > Len(explicit)
  /\ requests' = Tail(requests)
  /\ it' = 0
  /\ UNCHANGED <<input, explicit, found, plan, loading, result>>

SelectMatched == Compared /\ Head(requests) \in found /\ UNCHANGED foundAll

(* Seeded defect: a name without a manifest is not remembered.             *)
SelectMissingIgnored == Compared /\ Head(requests) \notin found /\ UNCHANGED foundAll

SelectMissing == Compared /\ Head(requests) \notin found /\ foundAll' = FALSE

SelectDone ==
  /\ requests = <<>>
  /\ Goto("select", "open")
  /\ UNCHANGED <<input, selection, loading, result>>

-----------------------------------------------------------------------------
(* The loading loop.                                                       *)

(* Go on with the next manifest; only with nothing loaded yet is the error *)
(* remembered.                                                             *)
Skip(from, error) ==
  /\ Goto(from, "open")
  /\ next' = next + 1
  /\ lastError' = IF interfaces = <<>> THEN error ELSE lastError
  /\ UNCHANGED <<input, selection, interfaces, result>>

OpenFails ==
  /\ next <= Len(plan)
  /\ Skip("open", "file_access")
  /\ UNCHANGED <<open, forwarded, initCalls>>

OpenLibrary ==
  /\ next <= Len(plan)
  /\ Goto("open", IF input.platform THEN "init" ELSE "negotiate")
  /\ open' = open \cup {Current}
  /\ forwarded' = FALSE
  /\ UNCHANGED <<input, selection, next, initCalls, interfaces, lastError, result>>

NotExported ==
  /\ Goto("init", "negotiate")
  /\ UNCHANGED <<input, selection, loading, result>>

(* Seeded defect: forwardedInitLoader stays false.                         *)
ForwardInitUnrecorded ==
  /\ Goto("init", "negotiate")
  /\ initCalls' = [initCalls EXCEPT ![Current] = @ + 1]
  /\ UNCHANGED <<input, selection, next, open, forwarded, interfaces, lastError, result>>

ForwardInit ==
  /\ Goto("init", "negotiate")
  /\ initCalls' = [initCalls EXCEPT ![Current] = @ + 1]
  /\ forwarded' = TRUE
  /\ UNCHANGED <<input, selection, next, open, interfaces, lastError, result>>

(* The layer's error is returned at once; layers already loaded are left   *)
(* to the caller.                                                          *)
ForwardInitFails ==
  /\ Goto("init", "drop")
  /\ initCalls' = [initCalls EXCEPT ![Current] = @ + 1]
  /\ open' = open \ {Current}
  /\ result' = "init_failed"
  /\ UNCHANGED <<input, selection, next, forwarded, interfaces, lastError>>

(* The negotiation function is not exported.  Unlike the other skips this  *)
(* one sets last_error even when layers have been loaded.                  *)
NegotiateMissing ==
  /\ Goto("negotiate", "open")
  /\ next' = next + 1
  /\ open' = open \ {Current}
  /\ lastError' = "not_present"
  /\ UNCHANGED <<input, selection, forwarded, initCalls, interfaces, result>>

(* Seeded defect: the library of a layer that is skipped stays open.       *)
NegotiateFailsLeaking ==
  /\ Skip("negotiate", "negotiation")
  /\ UNCHANGED <<open, forwarded, initCalls>>

(* It fails, or succeeds without a getInstanceProcAddr.                    *)
NegotiateFails ==
  /\ Skip("negotiate", "negotiation")
  /\ open' = open \ {Current}
  /\ UNCHANGED <<forwarded, initCalls>>

Negotiate ==
  /\ Goto("negotiate", IF input.platform /\ ~forwarded THEN "late_init" ELSE "commit")
  /\ UNCHANGED <<input, selection, loading, result>>

(* The layer's xrGetInstanceProcAddr does not know xrInitializeLoaderKHR.  *)
LateInitNotOffered ==
  /\ Goto("late_init", "commit")
  /\ UNCHANGED <<input, selection, loading, result>>

LateInit ==
  /\ Goto("late_init", "commit")
  /\ initCalls' = [initCalls EXCEPT ![Current] = @ + 1]
  /\ UNCHANGED <<input, selection, next, open, forwarded, interfaces, lastError, result>>

(* The call fails, or was offered as a null pointer and is not made.       *)
LateInitFails ==
  \E called \in BOOLEAN :
    /\ Skip("late_init", "negotiation")
    /\ open' = open \ {Current}
    /\ initCalls' = IF called THEN [initCalls EXCEPT ![Current] = @ + 1] ELSE initCalls
    /\ UNCHANGED forwarded

(* Seeded defect: the loop is not advanced.                                *)
CommitAgain ==
  /\ Goto("commit", "open")
  /\ interfaces' = IF Current \in ToSet(interfaces) THEN interfaces
                   ELSE Append(interfaces, Current)
  /\ lastError' = "success"
  /\ UNCHANGED <<input, selection, next, open, forwarded, initCalls, result>>

(* Seeded defect: the layer is put before those loaded so far.             *)
CommitInFront ==
  /\ Goto("commit", "open")
  /\ interfaces' = <<Current>> \o interfaces
  /\ lastError' = "success"
  /\ next' = next + 1
  /\ UNCHANGED <<input, selection, open, forwarded, initCalls, result>>

Commit ==
  /\ Goto("commit", "open")
  /\ interfaces' = Append(interfaces, Current)
  /\ lastError' = "success"
  /\ next' = next + 1
  /\ UNCHANGED <<input, selection, open, forwarded, initCalls, result>>

(* api_layer_interfaces.clear(), or the vector's destructor: every         *)
(* ApiLayerInterface closes its library.                                   *)
DestroyInterfaces ==
  /\ interfaces' = <<>>
  /\ open' = open \ ToSet(interfaces)

Finish ==
  LET error == IF foundAll THEN lastError ELSE "not_present" IN
  /\ next > Len(plan)
  /\ Goto("open", "returned")
  /\ lastError' = error
  /\ result' = error
  /\ IF error = "success" THEN UNCHANGED <<open, interfaces>> ELSE DestroyInterfaces
  /\ UNCHANGED <<input, selection, next, forwarded, initCalls>>

(* xrCreateInstance, whose local vector the interfaces are in, fails.      *)
CallerDrops ==
  /\ Goto("drop", "returned")
  /\ DestroyInterfaces
  /\ UNCHANGED <<input, selection, next, forwarded, initCalls, lastError, result>>

Returned == pc = "returned" /\ UNCHANGED vars

Next ==
  \/ NullNames \/ AddNames
  \/ SelectAgain \/ SelectName \/ SelectMatching \/ SelectOther
  \/ SelectMatched \/ SelectMissing \/ SelectDone
  \/ OpenFails \/ OpenLibrary
  \/ NotExported \/ ForwardInit \/ ForwardInitFails
  \/ NegotiateMissing \/ NegotiateFails \/ Negotiate
  \/ LateInitNotOffered \/ LateInit \/ LateInitFails
  \/ Commit \/ Finish \/ CallerDrops \/ Returned

Spec == Init /\ [][Next]_vars

-----------------------------------------------------------------------------
(* Properties                                                              *)

AtLayer == pc \in {"init", "negotiate", "late_init", "commit"}

(* Every open library belongs to one ApiLayerInterface or is the one the   *)
(* loop is at, so it is closed exactly once, whatever step fails.          *)
LibrariesOwned ==
  /\ open = ToSet(interfaces) \cup (IF AtLayer THEN {Current} ELSE {})
  /\ AtLayer => Current \notin ToSet(interfaces)
  /\ Cardinality(ToSet(interfaces)) = Len(interfaces)

(* The layers to load are the implicit ones in search order, then each     *)
(* requested explicit layer once, at its first request: an implicit layer  *)
(* hides the explicit ones of its name and asking twice changes nothing.   *)
FirstRequest(m) ==
  CHOOSE i \in DOMAIN Requested :
    Requested[i] = NameOf[m] /\ \A j \in 1..(i - 1) : Requested[j] # NameOf[m]
SearchIndex(m) == CHOOSE i \in DOMAIN input.explicit : input.explicit[i] = m
EnabledExplicit ==
  {m \in ToSet(input.explicit) :
     NameOf[m] \in ToSet(Requested) \ NamesOf(input.implicit)}
Later == (Len(input.implicit) + 1)..Len(plan)
Before(m, n) ==
  \/ FirstRequest(m) < FirstRequest(n)
  \/ NameOf[m] = NameOf[n] /\ SearchIndex(m) < SearchIndex(n)

PlanIsSelection ==
  pc \in {"open", "returned"} /\ result # "validation" =>
    /\ IsPrefix(input.implicit, plan)
    /\ {plan[i] : i \in Later} = EnabledExplicit
    /\ Cardinality(ToSet(plan)) = Len(plan)
    /\ \A i, j \in Later : i < j => Before(plan[i], plan[j])

(* Success means that a manifest was found for every name asked for ("If   *)
(* even one of the layers wasn't found, we want to return an error",       *)
(* api_layer_interface.cpp:262), and that not all planned layers failed.   *)
SuccessIsEarned ==
  pc = "returned" /\ result = "success" =>
    /\ ToSet(Requested) \subseteq NamesOf(plan)
    /\ plan # <<>> => interfaces # <<>>

(* A layer is initialised at most once, whichever way it offers            *)
(* xrInitializeLoaderKHR ("if we did not do so before",                    *)
(* api_layer_interface.cpp:364).                                           *)
InitForwardedOnce == \A m \in Manifests : initCalls[m] <= 1

(* The layers loaded are in the order they were planned in: the first is   *)
(* the one nearest to the application.                                     *)
PlannedOrderKept ==
  \A i, j \in DOMAIN interfaces :
    i < j => \E k, l \in DOMAIN plan :
               k < l /\ plan[k] = interfaces[i] /\ plan[l] = interfaces[j]

(* "If we load one, clear all errors" (api_layer_interface.cpp:427): with  *)
(* every name found and a layer loaded, the loading succeeds.              *)
OneLoadedClearsErrors ==
  [][foundAll /\ interfaces # <<>> /\ result' \in Errors /\ result = "none"
       => result' = "success"]_vars

-----------------------------------------------------------------------------
(* The inductive invariants behind these properties                        *)

InputInv ==
  /\ input.implicit \in Seq(Manifests) /\ IsInjective(input.implicit)
  /\ input.explicit \in Seq(Manifests) /\ IsInjective(input.explicit)
  /\ ToSet(input.implicit) \cap ToSet(input.explicit) = {}
  /\ input.environment \in Seq(Names) /\ input.application \in Seq(Names)

(* The manifests are shared out between the plan and those left, neither   *)
(* out of order.                                                           *)
ManifestsShared ==
  /\ explicit \in Seq(Manifests) /\ IsInjective(explicit)
  /\ plan \in Seq(Manifests) /\ IsInjective(plan)
  /\ ToSet(plan) \cap ToSet(explicit) = {}
  /\ ToSet(plan) \cup ToSet(explicit) = ToSet(input.implicit) \cup ToSet(input.explicit)
  /\ IsPrefix(input.implicit, plan)
  /\ \A i, j \in DOMAIN explicit :
       i < j => SearchIndex(explicit[i]) < SearchIndex(explicit[j])
  /\ found = NamesOf(plan)

(* The names looked up so far, and the one that is being compared.         *)
LookedUp == Len(Requested) - Len(requests)
Seen == IF pc = "match" THEN LookedUp + 1 ELSE LookedUp

(* A name that was looked up has no explicit manifest left, unless an      *)
(* implicit layer hides them, and was found if all were.  What was moved   *)
(* to the plan was asked for, and is in order.                             *)
NamesLookedUp ==
  /\ requests \in Seq(Names) /\ LookedUp \in Nat
  /\ \A i \in DOMAIN requests : requests[i] = Requested[LookedUp + i]
  /\ \A i \in 1..LookedUp :
       /\ Requested[i] \in NamesOf(explicit) => Requested[i] \in NamesOf(input.implicit)
       /\ foundAll => Requested[i] \in found
  /\ \A i \in Later :
       /\ \E k \in 1..Seen : Requested[k] = NameOf[plan[i]]
       /\ NameOf[plan[i]] \notin NamesOf(input.implicit)
  /\ \A i, j \in Later : i < j => Before(plan[i], plan[j])

(* The manifests before it have been compared with the name; those with    *)
(* this name that were moved come before all that are left to compare.     *)
NameCompared ==
  /\ requests # <<>> /\ it \in 1..(Len(explicit) + 1)
  /\ Head(requests) \notin NamesOf(input.implicit)
  /\ \A i \in 1..(it - 1) : NameOf[explicit[i]] # Head(requests)
  /\ \A i \in Later, j \in it..Len(explicit) :
       NameOf[plan[i]] = Head(requests) => SearchIndex(plan[i]) < SearchIndex(explicit[j])

SelectionInv ==
  /\ InputInv
  /\ ManifestsShared
  /\ pc \notin {"drop", "returned"} => result = "none"
  /\ pc = "names" => plan = input.implicit /\ foundAll
  /\ pc # "names" /\ result # "validation" => NamesLookedUp
  /\ pc = "match" => NameCompared
  /\ pc \notin {"select", "match"} => requests = <<>>

(* The layers loaded are among those the loop is past; unless one is       *)
(* loaded, an error is remembered as soon as the loop is past one.         *)
LayersHeld ==
  /\ next \in 1..(Len(plan) + 1)
  /\ AtLayer => next <= Len(plan)
  /\ pc \in {"names", "select", "match"} => next = 1 /\ open = {} /\ interfaces = <<>>
  /\ pc = "drop" => result \in {"validation", "init_failed"}
  /\ interfaces \in Seq(Manifests)
  /\ \A i \in DOMAIN interfaces : \E k \in 1..(next - 1) : plan[k] = interfaces[i]
  /\ PlannedOrderKept
  /\ open = ToSet(interfaces) \cup (IF AtLayer THEN {Current} ELSE {})
  /\ pc # "returned" /\ interfaces = <<>> /\ lastError = "success" => next = 1
  /\ pc = "returned" /\ result # "success" => interfaces = <<>>

(* The layers the loop has not got to yet were not initialised.            *)
InitStillDue(i) ==
  \/ i > next
  \/ i = next /\ pc \in {"open", "init"}
  \/ i = next /\ pc \in {"negotiate", "late_init"} /\ ~forwarded

InitCallsCounted ==
  /\ initCalls \in [Manifests -> Nat]
  /\ pc \in {"names", "select", "match"} => \A m \in Manifests : initCalls[m] = 0
  /\ InitForwardedOnce
  /\ \A i \in DOMAIN plan : InitStillDue(i) => initCalls[plan[i]] = 0
  /\ pc = "late_init" => ~forwarded

LoadingInv == LayersHeld /\ InitCallsCounted
=============================================================================
