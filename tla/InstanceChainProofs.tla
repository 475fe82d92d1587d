------------------------- MODULE InstanceChainProofs -------------------------
(***************************************************************************)
(* However many layers are loaded, each is called once, in order, with the *)
(* next info that leads to the layer below it, and is loaded and open for  *)
(* as long as an instance was made through it; an instance has every       *)
(* extension asked for.  What LoadApiLayers guarantees holds on through    *)
(* the life of the instance.                                               *)
(***************************************************************************)
EXTENDS InstanceChain, ApiLayerLoadingProofs

(* Sequences of the layers loaded so far stay sequences as they grow.      *)
LEMMA AppendLayer ==
  ASSUME NEW s, s \in Seq(ToSet(s)), NEW e
  PROVE  Append(s, e) \in Seq(ToSet(Append(s, e)))
<1> DEFINE t == Append(s, e)
<1>1. s \in Seq(ToSet(s) \cup {e}) /\ e \in ToSet(s) \cup {e}
  OBVIOUS
<1>2. t \in Seq(ToSet(s) \cup {e}) /\ Len(t) \in Nat /\ DOMAIN t = 1..Len(t)
  BY <1>1
<1>3. \A i \in DOMAIN t : t[i] \in ToSet(t)
  BY DEF ToSet
<1> HIDE DEF t
<1>4. t \in Seq(ToSet(t))
  BY <1>2, <1>3
<1> QED
  BY <1>4 DEF t

LEMMA EmptyLayers == <<>> \in Seq(ToSet(<<>>))
  OBVIOUS

(* The number of layers linked says how far the linking has come.          *)
LEMMA LinkedCount ==
  ASSUME interfaces \in Seq(ToSet(interfaces)), NEW k \in 0..Len(interfaces), LinkedFrom(k)
  PROVE  Linked = Len(interfaces) - k /\ LinkIndex = k
<1>1. Len(interfaces) \in Nat
  OBVIOUS
<1>2. Cardinality((k + 1)..Len(interfaces)) = Len(interfaces) - k
  <2>1. CASE k = Len(interfaces)
    <3>1. (k + 1)..Len(interfaces) = {}
      BY <1>1, <2>1
    <3> QED
      BY <1>1, <2>1, <3>1, FS_EmptySet
  <2>2. CASE k # Len(interfaces)
    <3>1. k + 1 \in Int /\ Len(interfaces) \in Int /\ k + 1 <= Len(interfaces)
      BY <1>1, <2>2
    <3> QED
      BY <1>1, <3>1, FS_Interval
  <2> QED
    BY <2>1, <2>2
<1> QED
  BY <1>1, <1>2 DEF LinkedFrom, Linked, LinkIndex

-----------------------------------------------------------------------------
LEMMA LayersKeepInv ==
  ASSUME ChainInv, Next, UNCHANGED chain
  PROVE  ChainInv'
<1> USE DEF chain, request, linking, calling
<1>1. CASE Returned
  BY <1>1 DEF Returned, vars, loading, ChainInv, LinkedFrom, CalledDown, InfoFor, IndexBelow, Below
<1>2. CASE /\ interfaces' \in Seq(ToSet(interfaces')) /\ pc # "returned"
  BY <1>2 DEF ChainInv, Stages
<1>3. CASE Commit
  <2>1. interfaces' \in Seq(ToSet(interfaces'))
    BY <1>3, AppendLayer DEF Commit, ChainInv
  <2> QED
    BY <1>2, <1>3, <2>1 DEF Commit, Goto
<1>4. CASE Finish \/ CallerDrops
  <2>1. interfaces' \in Seq(ToSet(interfaces'))
    BY <1>4, EmptyLayers DEF Finish, CallerDrops, DestroyInterfaces, ChainInv
  <2> QED
    BY <1>2, <1>4, <2>1 DEF Finish, CallerDrops, Goto
<1>5. CASE \/ NullNames \/ AddNames \/ SelectAgain \/ SelectName \/ SelectMatching
           \/ SelectOther \/ SelectMatched \/ SelectMissing \/ SelectDone
           \/ OpenFails \/ OpenLibrary \/ NotExported \/ ForwardInit \/ ForwardInitFails
           \/ NegotiateMissing \/ NegotiateFails \/ Negotiate
           \/ LateInitNotOffered \/ LateInit \/ LateInitFails
  <2>1. UNCHANGED interfaces /\ pc # "returned"
    BY <1>5 DEF NullNames, AddNames, SelectAgain, SelectName, SelectMatching, SelectOther,
                SelectMatched, SelectMissing, SelectDone, Compared,
                OpenFails, OpenLibrary, NotExported, ForwardInit, ForwardInitFails, Negotiate,
                NegotiateMissing, NegotiateFails, LateInitNotOffered, LateInit, LateInitFails,
                Skip, Goto, loading
  <2> QED
    BY <1>2, <2>1 DEF ChainInv
<1> QED
  BY <1>1, <1>3, <1>4, <1>5 DEF Next

LEMMA LinkKeepsInv ==
  ASSUME ChainInv, LinkLayer
  PROVE  ChainInv'
<1> DEFINE n == Len(interfaces)
<1>1. PICK k \in 0..n : LinkedFrom(k)
  BY DEF LinkLayer, To, ChainInv
<1>2. interfaces \in Seq(ToSet(interfaces)) /\ n \in Nat
  BY DEF ChainInv
<1>3. LinkIndex = k /\ Linked = n - k /\ k > 0 /\ k - 1 \in 0..n
  BY <1>1, <1>2, LinkedCount DEF LinkLayer
<1>4. UNCHANGED <<interfaces, pc, visited>> /\ stage = "link" /\ stage' = "link"
  BY DEF LinkLayer, To, vars, loading, calling
<1>5. DOMAIN infos' = ((k - 1) + 1)..n
  BY <1>2, <1>3 DEF LinkLayer
<1>6. top' = [info |-> k, gipa |-> interfaces[k], cali |-> interfaces[k]]
  BY <1>3 DEF LinkLayer
<1>7. IndexBelow(k - 1) = k /\ Below(k - 1) = interfaces[k]
  BY <1>2, <1>3 DEF IndexBelow, Below
<1>8. ASSUME NEW i \in k..n PROVE infos'[i] = InfoFor(i)
  <2>1. CASE i = k
    <3>1. infos'[i] = [layer |-> interfaces[k], next |-> top.info, gipa |-> top.gipa, cali |-> top.cali]
      BY <1>3, <2>1 DEF LinkLayer, LinkInfo
    <3> QED
      BY <1>1, <2>1, <3>1 DEF LinkedFrom, InfoFor
  <2>2. CASE i # k
    <3>1. infos'[i] = infos[i]
      BY <1>3, <2>2 DEF LinkLayer
    <3>2. i \in DOMAIN infos
      BY <1>1, <1>2, <2>2 DEF LinkedFrom
    <3> QED
      BY <1>1, <3>1, <3>2 DEF LinkedFrom
  <2> QED
    BY <2>1, <2>2
<1>9. LinkedFrom(k - 1)'
  BY <1>2, <1>3, <1>4, <1>5, <1>6, <1>7, <1>8 DEF LinkedFrom, InfoFor, IndexBelow, Below
<1> QED
  BY <1>3, <1>4, <1>9 DEF ChainInv, Stages

LEMMA CallKeepsInv ==
  ASSUME ChainInv, CallTopmost
  PROVE  ChainInv'
<1> DEFINE n == Len(interfaces)
<1>1. PICK k \in 0..n : LinkedFrom(k)
  BY DEF CallTopmost, To, ChainInv
<1>2. interfaces \in Seq(ToSet(interfaces)) /\ n \in Nat
  BY DEF ChainInv
<1>3. k = 0
  BY <1>1, <1>2, LinkedCount DEF CallTopmost
<1>4. UNCHANGED <<interfaces, pc, visited, infos, top>> /\ stage = "link" /\ stage' = "call"
  BY DEF CallTopmost, To, vars, loading, linking
<1>5. LinkedFrom(0)'
  BY <1>1, <1>3, <1>4 DEF LinkedFrom, InfoFor, IndexBelow, Below
<1>6. visited = <<>>
  BY <1>4 DEF ChainInv
<1>7. callee' = Below(0) /\ given' = IndexBelow(0)
  BY <1>1, <1>2, <1>3 DEF CallTopmost, LinkedFrom, IndexBelow
<1>8. CalledDown'
  BY <1>2, <1>4, <1>6, <1>7 DEF CalledDown, Below, IndexBelow
<1> QED
  BY <1>4, <1>5, <1>8 DEF ChainInv, Stages

LEMMA DownKeepsInv ==
  ASSUME ChainInv, LayerCallsNext
  PROVE  ChainInv'
<1> DEFINE n == Len(interfaces)  k == Len(visited)
           e == [by |-> callee, info |-> infos[given]]
           R == [by : ToSet(interfaces), info : {infos[i] : i \in DOMAIN infos}]
<1>1. interfaces \in Seq(ToSet(interfaces)) /\ n \in Nat /\ LinkedFrom(0) /\ CalledDown
  BY DEF ChainInv, LayerCallsNext, To
<1>2. visited \in Seq(R) /\ k \in Nat /\ k <= n
  BY <1>1 DEF CalledDown
<1>3. k < n /\ callee = interfaces[k + 1] /\ given = k + 1 /\ k + 1 \in DOMAIN infos
  BY <1>1, <1>2 DEF LayerCallsNext, CalledDown, LinkedFrom, Below, IndexBelow
<1>4. UNCHANGED <<interfaces, pc, infos, top>> /\ stage = "call" /\ stage' = "call"
  BY DEF LayerCallsNext, To, vars, loading, linking
<1>5. e \in R
  BY <1>1, <1>2, <1>3 DEF ToSet
<1>6. visited' = Append(visited, e)
  BY DEF LayerCallsNext
<1>7. visited' \in Seq(R) /\ Len(visited') = k + 1
  BY <1>2, <1>5, <1>6
<1>8. ASSUME NEW i \in DOMAIN visited'
      PROVE  visited'[i] = [by |-> interfaces[i], info |-> infos[i]]
  <2>1. CASE i = k + 1
    BY <1>2, <1>3, <1>5, <1>6, <2>1
  <2>2. CASE i # k + 1
    <3>1. i \in DOMAIN visited /\ visited'[i] = visited[i]
      BY <1>2, <1>5, <1>6, <1>7, <2>2
    <3> QED
      BY <1>1, <3>1 DEF CalledDown
  <2> QED
    BY <2>1, <2>2
<1>9. callee' = Below(k + 1) /\ given' = IndexBelow(k + 1)
  BY <1>1, <1>3 DEF LayerCallsNext, LinkedFrom, InfoFor
<1>10. CalledDown'
  BY <1>2, <1>3, <1>4, <1>7, <1>8, <1>9 DEF CalledDown, Below, IndexBelow
<1>11. LinkedFrom(0)'
  BY <1>1, <1>4 DEF LinkedFrom, InfoFor, IndexBelow, Below
<1> QED
  BY <1>1, <1>4, <1>10, <1>11 DEF ChainInv, Stages

LEMMA OthersKeepInv ==
  ASSUME ChainInv,
         \/ LayersFailed \/ LayersLoaded \/ ExtensionMissing \/ FilterOutExtensions
         \/ LayerRefuses \/ TermFails \/ TermCreates \/ LayerGivesUp \/ NewLoaderInstance
         \/ CreationFails \/ DestroyInstance \/ RemoveInstance
  PROVE  ChainInv'
<1>1. CASE LayersFailed \/ LayersLoaded \/ ExtensionMissing
  BY <1>1 DEF LayersFailed, LayersLoaded, ExtensionMissing, To, ChainInv, Stages, vars, loading,
              linking, calling
<1>2. CASE FilterOutExtensions
  <2>1. /\ UNCHANGED <<interfaces, pc, visited, infos, top>>
        /\ stage = "check" /\ stage' = "link" /\ Len(interfaces) \in Nat
    BY <1>2 DEF FilterOutExtensions, To, vars, loading, linking, ChainInv
  <2>2. LinkedFrom(Len(interfaces))'
    BY <2>1 DEF ChainInv, LinkedFrom, NoLink, Below, IndexBelow
  <2> QED
    BY <2>1, <2>2 DEF ChainInv, Stages
<1>3. CASE LayerRefuses \/ TermFails \/ TermCreates \/ LayerGivesUp \/ NewLoaderInstance \/ DestroyInstance
  <2>1. /\ UNCHANGED <<interfaces, pc, visited, infos, top, callee, given>>
        /\ stage \in {"call", "made", "alive"}
        /\ stage' \in {"fail", "made", "alive", "destroyed"}
    BY <1>3 DEF LayerRefuses, TermFails, TermCreates, LayerGivesUp, NewLoaderInstance, DestroyInstance,
                To, vars, loading, linking, calling
  <2>2. LinkedFrom(0)' /\ CalledDown'
    BY <2>1 DEF ChainInv, LinkedFrom, CalledDown, InfoFor, IndexBelow, Below
  <2> QED
    BY <2>1, <2>2 DEF ChainInv, Stages
<1>4. CASE CreationFails \/ RemoveInstance
  BY <1>4, EmptyLayers DEF CreationFails, RemoveInstance, DestroyInterfaces, To, ChainInv, Stages
<1> QED
  BY <1>1, <1>2, <1>3, <1>4

(* ChainInv holds from the loading of the layers to the instance's end.    *)
THEOREM ChainInvariant == ChainSpec => []ChainInv
<1>1. ChainInit => ChainInv
  BY EmptyLayers DEF ChainInit, Init, ChainInv, Stages
<1>2. ChainInv /\ [ChainNext]_allVars => ChainInv'
  <2> SUFFICES ASSUME ChainInv, [ChainNext]_allVars
               PROVE  ChainInv'
    OBVIOUS
  <2>1. CASE Next /\ UNCHANGED chain
    BY <2>1, LayersKeepInv
  <2>2. CASE CreateStep \/ DestroyInstance \/ RemoveInstance
    BY <2>2, LinkKeepsInv, CallKeepsInv, DownKeepsInv, OthersKeepInv DEF CreateStep
  <2>3. CASE UNCHANGED allVars
    BY <2>3 DEF allVars, vars, loading, chain, linking, calling, ChainInv, LinkedFrom, CalledDown,
                InfoFor, IndexBelow, Below
  <2> QED
    BY <2>1, <2>2, <2>3 DEF ChainNext
<1> QED
  BY <1>1, <1>2, PTL DEF ChainSpec

(* The layers are called in the order they were loaded in, each once, the  *)
(* last one with the functions of the loader's terminators                 *)
(* (loader_instance.cpp 199-251).                                          *)
THEOREM LayersCalledInOrder == ChainSpec => []CalledInOrder
<1>1. ChainInv => CalledInOrder
  <2> SUFFICES ASSUME ChainInv, stage \in {"call", "made", "alive"}
               PROVE  /\ Len(visited) <= Len(interfaces)
                      /\ \A i \in DOMAIN visited :
                           /\ visited[i].by = interfaces[i] /\ visited[i].info.layer = interfaces[i]
                           /\ visited[i].info.gipa = Below(i) /\ visited[i].info.cali = Below(i)
                      /\ callee = Below(Len(visited))
                      /\ top.gipa = Below(0)
    BY DEF CalledInOrder
  <2>1. LinkedFrom(0) /\ CalledDown /\ Len(visited) \in Nat /\ Len(interfaces) \in Nat
    BY DEF ChainInv, CalledDown
  <2>2. \A i \in DOMAIN visited : i \in DOMAIN infos
    BY <2>1 DEF CalledDown, LinkedFrom
  <2> QED
    BY <2>1, <2>2 DEF LinkedFrom, CalledDown, InfoFor
<1> QED
  BY <1>1, ChainInvariant, PTL

-----------------------------------------------------------------------------
(* The layers until the instance is gone                                   *)

Held == SelectionInv /\ LoadingInv

(* LoadApiLayers' invariant is kept by what comes after it.                *)
LEMMA ChainKeepsHeld ==
  ASSUME Held, ChainInv, ChainNext
  PROVE  Held'
<1>1. CASE Next
  BY <1>1, NextSelection, NextLoading DEF Held
<1>2. CASE UNCHANGED vars
  BY <1>2, StutterKeeps DEF Held
<1>3. CASE CreationFails \/ RemoveInstance
  <2>1. /\ DestroyInterfaces /\ pc = "returned"
        /\ UNCHANGED <<input, selection, next, forwarded, initCalls, lastError, result, pc>>
    BY <1>3 DEF CreationFails, RemoveInstance, To, ChainInv
  <2>2. SelectionInv /\ LayersHeld /\ InitCallsCounted
    BY DEF Held, LoadingInv
  <2>3. SelectionInv'
    BY <2>1, <2>2, SelectionFrozen DEF SelectionInv
  <2>4. LayersHeld'
    BY <2>1, <2>2, DestroyedHeld DEF AtLayer, selection
  <2>5. InitCallsCounted'
    BY <2>1, <2>2 DEF InitCallsCounted, InitForwardedOnce, InitStillDue, selection
  <2> QED
    BY <2>3, <2>4, <2>5 DEF Held, LoadingInv
<1> QED
  BY <1>1, <1>2, <1>3
     DEF ChainNext, CreateStep, LayersFailed, LayersLoaded, ExtensionMissing, FilterOutExtensions,
         LinkLayer, CallTopmost, LayerCallsNext, LayerRefuses, TermFails, TermCreates,
         LayerGivesUp, NewLoaderInstance, DestroyInstance

(* Only the layers that are called take extensions out of the list, and    *)
(* only those they support.                                                *)
LEMMA DownPassesOn ==
  ASSUME ChainInv, PassedOn, LayerCallsNext
  PROVE  PassedOn'
<1>1. CalledDown /\ interfaces \in Seq(ToSet(interfaces)) /\ Len(interfaces) \in Nat
  BY DEF ChainInv, LayerCallsNext, To
<1>2. callee \in ToSet(interfaces)
  BY <1>1 DEF LayerCallsNext, CalledDown, Below, ToSet
<1>3. SupportedBy[callee] \subseteq LayersSupport
  BY <1>2 DEF LayersSupport
<1>4. UNCHANGED <<asked, runtime, interfaces>>
  BY DEF LayerCallsNext, request, vars, loading
<1>5. Supported' = Supported /\ LayersSupport' = LayersSupport
  BY <1>4 DEF Supported, LayersSupport
<1>6. PICK taken \in SUBSET SupportedBy[callee] : passed' = passed \ taken
  BY DEF LayerCallsNext
<1> QED
  BY <1>3, <1>4, <1>5, <1>6 DEF PassedOn

LEMMA ChainKeepsHandover ==
  ASSUME Held, ChainInv, HandoverInv, ChainNext
  PROVE  HandoverInv'
<1> USE DEF HandoverInv, To
<1>1. CASE Next /\ UNCHANGED chain
  <2>1. CASE pc = "returned"
    <3>1. UNCHANGED vars
      BY <1>1, <2>1
         DEF Next, Goto, Skip, Returned, NullNames, AddNames, SelectAgain, SelectName,
             SelectMatching, SelectOther, SelectMatched, SelectMissing, Compared, SelectDone,
             OpenFails, OpenLibrary, NotExported, ForwardInit, ForwardInitFails, Negotiate,
             NegotiateMissing, NegotiateFails, LateInitNotOffered, LateInit, LateInitFails,
             Commit, Finish, CallerDrops
    <3> QED
      BY <3>1, <1>1 DEF vars, selection, loading, chain, request, calling, SuccessIsEarned,
         Requested, NamesOf, PassedOn, Supported, LayersSupport
  <2>2. CASE pc # "returned"
    <3>1. stage = "layers" /\ stage' = "layers" /\ ~made'
      BY <1>1, <2>2 DEF ChainInv, chain
    <3>2. SuccessIsEarned'
      BY <1>1, <3>1, NextEarned DEF Held
    <3> QED
      BY <3>1, <3>2
  <2> QED
    BY <2>1, <2>2
<1>2. CASE LayersFailed
  BY <1>2 DEF LayersFailed, Held, LoadingInv, LayersHeld, vars, selection, loading
<1>3. CASE LayersLoaded
  <2>1. SuccessIsEarned'
    BY <1>3 DEF LayersLoaded, SuccessIsEarned, Requested, NamesOf, vars, selection, loading
  <2> QED
    BY <1>3, <2>1 DEF LayersLoaded
<1>4. CASE FilterOutExtensions
  BY <1>4 DEF FilterOutExtensions, PassedOn, Supported, LayersSupport, request, vars, loading
<1>5. CASE LayerCallsNext
  BY <1>5, DownPassesOn DEF LayerCallsNext
<1>6. CASE LinkLayer \/ CallTopmost \/ TermCreates \/ LayerGivesUp \/ NewLoaderInstance
  BY <1>6 DEF LinkLayer, CallTopmost, TermCreates, LayerGivesUp, NewLoaderInstance,
     PassedOn, Supported, LayersSupport, request, calling, vars, loading
<1>7. CASE \/ ExtensionMissing \/ LayerRefuses \/ TermFails \/ CreationFails
           \/ DestroyInstance \/ RemoveInstance
  BY <1>7 DEF ExtensionMissing, LayerRefuses, TermFails, CreationFails, DestroyInstance,
     RemoveInstance, DestroyInterfaces
<1> QED
  BY <1>1, <1>2, <1>3, <1>4, <1>5, <1>6, <1>7 DEF ChainNext, CreateStep

(* The inductive invariant of the layers' life: LoadApiLayers', and what   *)
(* the creation has passed on.                                             *)
THEOREM HandoverInvariant == ChainSpec => [](Held /\ HandoverInv)
<1>1. ChainInit => Held /\ HandoverInv
  BY InitSelection, InitLoading DEF ChainInit, Init, Held, HandoverInv, SuccessIsEarned
<1>2. Held /\ HandoverInv /\ ChainInv /\ [ChainNext]_allVars => (Held /\ HandoverInv)'
  <2>1. Held /\ HandoverInv /\ ChainInv /\ ChainNext => (Held /\ HandoverInv)'
    BY ChainKeepsHeld, ChainKeepsHandover
  <2>2. ASSUME Held, HandoverInv, UNCHANGED allVars
        PROVE  Held' /\ HandoverInv'
    <3>1. UNCHANGED vars /\ UNCHANGED chain
      BY <2>2 DEF allVars
    <3>2. Held'
      BY <2>2, <3>1, StutterKeeps DEF Held
    <3>3. HandoverInv'
      BY <2>2, <3>1 DEF HandoverInv, vars, selection, loading, chain, request, calling,
         SuccessIsEarned, Requested, NamesOf, PassedOn, Supported, LayersSupport
    <3> QED
      BY <3>2, <3>3
  <2> QED
    BY <2>1, <2>2
<1> QED
  BY <1>1, <1>2, ChainInvariant, PTL DEF ChainSpec

(* What LoadApiLayers promises, kept through creation and destruction.     *)
THEOREM LayersKeptInChain ==
  ChainSpec => [](LibrariesOwned /\ PlanIsSelection /\ InitForwardedOnce /\ PlannedOrderKept)
<1>1. Held => LibrariesOwned /\ PlanIsSelection /\ InitForwardedOnce /\ PlannedOrderKept
  BY LoadingOwns, SelectionPlans DEF Held, LoadingInv, LayersHeld, InitCallsCounted
<1> QED
  BY <1>1, HandoverInvariant, PTL

(* Creation goes on only with every requested layer found, and not if all  *)
(* planned layers failed.                                                  *)
THEOREM CreationEarned == ChainSpec => []CreationIsEarned
<1>1. HandoverInv => CreationIsEarned
  BY DEF HandoverInv, CreationIsEarned
<1> QED
  BY <1>1, HandoverInvariant, PTL

(* An instance has every extension asked for, and its runtime is given     *)
(* none that neither it nor a layer supports.                              *)
THEOREM EveryExtensionHonoured == ChainSpec => []ExtensionsHonoured
<1>1. HandoverInv => ExtensionsHonoured
  BY DEF HandoverInv, ExtensionsHonoured, PassedOn, Supported, LoaderSpecificExtensions
<1> QED
  BY <1>1, HandoverInvariant, PTL

(* No layer's library is closed under an instance made through it, and     *)
(* none stays open after it.                                               *)
THEOREM LayersOutliveTheInstance == ChainSpec => []LayersOutliveInstance
<1>1. Held /\ ChainInv /\ HandoverInv => LayersOutliveInstance
  <2> SUFFICES ASSUME Held, ChainInv, HandoverInv
               PROVE  LayersOutliveInstance
    OBVIOUS
  <2>1. stage # "layers" => open = ToSet(interfaces)
    BY DEF Held, LoadingInv, LayersHeld, ChainInv, AtLayer
  <2>2. ASSUME made, NEW i \in DOMAIN visited
        PROVE  visited[i].by \in ToSet(interfaces)
    <3>1. CalledDown
      BY <2>2 DEF HandoverInv, ChainInv
    <3> QED
      BY <3>1, <2>2 DEF CalledDown, ToSet
  <2>3. made => stage # "layers" /\ stage # "done"
    BY DEF HandoverInv
  <2>4. stage = "done" => open = {}
    BY <2>1 DEF HandoverInv, ToSet
  <2> QED
    BY <2>1, <2>2, <2>3, <2>4 DEF LayersOutliveInstance
<1> QED
  BY <1>1, ChainInvariant, HandoverInvariant, PTL
=============================================================================
