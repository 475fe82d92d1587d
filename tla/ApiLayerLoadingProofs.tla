----------------------- MODULE ApiLayerLoadingProofs -------------------------
(***************************************************************************)
(* Which layers LoadApiLayers plans and what becomes of their libraries,   *)
(* for any manifests, names and number of requests.  SelectionInv says     *)
(* what the two loops over the requested names have moved so far;          *)
(* LoadingInv says what the loading loop has opened, initialised and kept  *)
(* so far.  Both are inductive, the second with the first.                 *)
(***************************************************************************)
EXTENDS ApiLayerLoading, SequenceLemmas

USE ApiLayerLoadingAssumption

-----------------------------------------------------------------------------
(* What was found and asked for                                            *)

(* Requested, FirstRequest and SearchIndex depend on the input only.       *)
LEMMA InputKept ==
  ASSUME input' = input
  PROVE  /\ InputInv => InputInv'
         /\ Requested' = Requested
         /\ \A m, n : Before(m, n)' <=> Before(m, n)
         /\ \A m : SearchIndex(m)' = SearchIndex(m)
<1>1. Requested' = Requested
  BY DEF Requested
<1>2. \A m : SearchIndex(m)' = SearchIndex(m)
  BY DEF SearchIndex
<1>3. \A m : FirstRequest(m)' = FirstRequest(m)
  BY <1>1 DEF FirstRequest
<1> QED
  BY <1>1, <1>2, <1>3 DEF InputInv, Before

LEMMA RequestedType ==
  ASSUME InputInv
  PROVE  Requested \in Seq(Names)
BY ConcatProperties DEF InputInv, Requested

(* FirstRequest is the first request, where there is one.                  *)
LEMMA FirstRequestIs ==
  ASSUME InputInv, NEW m \in Manifests, NEW k \in DOMAIN Requested, Requested[k] = NameOf[m]
  PROVE  /\ FirstRequest(m) \in 1..k
         /\ Requested[FirstRequest(m)] = NameOf[m]
         /\ \A j \in 1..(FirstRequest(m) - 1) : Requested[j] # NameOf[m]
<1> DEFINE T == {i \in DOMAIN Requested : Requested[i] = NameOf[m]}
<1>1. DOMAIN Requested = 1..Len(Requested) /\ Len(Requested) \in Nat
  BY RequestedType
<1>2. T \in SUBSET Nat /\ k \in T
  BY <1>1
<1>3. PICK i \in T : \A j \in T : i <= j
  <2> HIDE DEF T
  <2> QED
    BY <1>2, LeastNat
<1>4. \A j \in 1..(i - 1) : Requested[j] # NameOf[m]
  BY <1>1, <1>3
<1> DEFINE First(x) == Requested[x] = NameOf[m]
                         /\ \A j \in 1..(x - 1) : Requested[j] # NameOf[m]
<1>5. i \in DOMAIN Requested /\ First(i)
  BY <1>3, <1>4
<1>6. FirstRequest(m) = CHOOSE x \in DOMAIN Requested : First(x)
  BY DEF FirstRequest
<1>7. FirstRequest(m) \in DOMAIN Requested /\ First(FirstRequest(m))
  <2> HIDE DEF First
  <2> QED
    BY <1>5, <1>6
<1>8. FirstRequest(m) <= k
  BY <1>1, <1>7
<1> QED
  BY <1>1, <1>7, <1>8

(* SearchIndex is the one position of a manifest in the search order.      *)
LEMMA SearchIndexIs ==
  ASSUME InputInv, NEW i \in DOMAIN input.explicit
  PROVE  SearchIndex(input.explicit[i]) = i
BY DEF InputInv, SearchIndex, IsInjective

LEMMA SearchIndexType ==
  ASSUME InputInv, NEW m \in ToSet(input.explicit)
  PROVE  SearchIndex(m) \in 1..Len(input.explicit)
<1>1. PICK i \in DOMAIN input.explicit : m = input.explicit[i]
  BY DEF ToSet
<1> QED
  BY <1>1, SearchIndexIs DEF InputInv

(* The names of the implicit layers are found from the start.              *)
LEMMA ImplicitInPlan ==
  ASSUME InputInv, ManifestsShared
  PROVE  /\ Len(input.implicit) <= Len(plan)
         /\ \A i \in 1..Len(input.implicit) : plan[i] = input.implicit[i]
         /\ ToSet(input.implicit) \subseteq ToSet(plan)
         /\ NamesOf(input.implicit) \subseteq found
<1>1. /\ Len(input.implicit) <= Len(plan)
      /\ \A i \in 1..Len(input.implicit) : plan[i] = input.implicit[i]
  BY PrefixIs DEF InputInv, ManifestsShared
<1>2. ToSet(input.implicit) \subseteq ToSet(plan)
  <2> SUFFICES ASSUME NEW i \in 1..Len(input.implicit)
               PROVE  input.implicit[i] \in ToSet(plan)
    BY DEF ToSet, InputInv
  <2> QED
    BY <1>1 DEF ToSet, ManifestsShared
<1> QED
  BY <1>1, <1>2 DEF ManifestsShared, NamesOf

(* What is left of the explicit manifests is in the search order.          *)
LEMMA ExplicitLeft ==
  ASSUME InputInv, ManifestsShared
  PROVE  \A i \in DOMAIN explicit :
           explicit[i] \in ToSet(input.explicit) /\ SearchIndex(explicit[i]) \in Nat
<1> SUFFICES ASSUME NEW i \in DOMAIN explicit
             PROVE  explicit[i] \in ToSet(input.explicit) /\ SearchIndex(explicit[i]) \in Nat
  OBVIOUS
<1>1. explicit[i] \in ToSet(explicit)
  BY DEF ToSet
<1>2. explicit[i] \in ToSet(input.explicit)
  BY <1>1, ImplicitInPlan DEF ManifestsShared
<1> QED
  BY <1>2, SearchIndexType DEF InputInv

-----------------------------------------------------------------------------
(* Selection                                                               *)

(* Where the loader starts.                                                *)
LEMMA InitSelection == Init => SelectionInv
<1> SUFFICES ASSUME Init
             PROVE  SelectionInv
  OBVIOUS
<1>1. \A s \in SetToAllKPermutations(Manifests) : s \in Seq(Manifests) /\ IsInjective(s)
  <2> SUFFICES ASSUME NEW S \in SUBSET Manifests, NEW s \in SetToSeqs(S)
               PROVE  s \in Seq(Manifests) /\ IsInjective(s)
    BY DEF SetToAllKPermutations
  <2>1. Cardinality(S) \in Nat
    BY FS_Subset, FS_CardinalityType
  <2> QED
    BY <2>1 DEF SetToSeqs, IsInjective
<1>2. \A s \in BoundedSeq(Names, MaxNames) : s \in Seq(Names)
  BY DEF BoundedSeq, SeqOf
<1>3. InputInv
  BY <1>1, <1>2 DEF Init, InputInv
<1>4. IsPrefix(input.implicit, input.implicit)
  BY <1>3, PrefixIs DEF InputInv
<1>5. \A i, j \in DOMAIN explicit : i < j => SearchIndex(explicit[i]) < SearchIndex(explicit[j])
  BY <1>3, SearchIndexIs DEF Init
<1>6. ManifestsShared
  BY <1>3, <1>4, <1>5 DEF Init, InputInv, ManifestsShared
<1> QED
  BY <1>3, <1>6 DEF Init, SelectionInv

(* AddNames: no name has been looked up yet.                               *)
LEMMA AddNamesSelection ==
  ASSUME SelectionInv, AddNames
  PROVE  SelectionInv'
<1> USE DEF AddNames, Goto
<1>1. InputInv' /\ ManifestsShared'
  BY InputKept DEF SelectionInv, ManifestsShared, NamesOf
<1>2. Requested \in Seq(Names) /\ Requested' = Requested
  BY RequestedType, InputKept DEF SelectionInv
<1>3. LookedUp' = 0
  BY <1>2 DEF LookedUp
<1>4. Later' = {}
  BY DEF SelectionInv, Later, InputInv
<1>5. NamesLookedUp'
  BY <1>2, <1>3, <1>4 DEF NamesLookedUp
<1> QED
  BY <1>1, <1>5 DEF SelectionInv

(* The first of the requests left is the next one after those looked up.   *)
LEMMA HeadIsNext ==
  ASSUME InputInv, NamesLookedUp, requests # <<>>
  PROVE  /\ Head(requests) \in Names /\ Tail(requests) \in Seq(Names)
         /\ LookedUp + 1 \in DOMAIN Requested
         /\ Head(requests) = Requested[LookedUp + 1]
         /\ Len(Requested) - Len(Tail(requests)) = LookedUp + 1
         /\ \A i \in DOMAIN Tail(requests) : Tail(requests)[i] = Requested[LookedUp + 1 + i]
<1>1. Requested \in Seq(Names) /\ requests \in Seq(Names) /\ Len(requests) \in Nat \ {0}
  BY RequestedType DEF NamesLookedUp
<1>2. /\ Head(requests) = requests[1] /\ Len(Tail(requests)) = Len(requests) - 1
      /\ Tail(requests) \in Seq(Names)
      /\ \A i \in DOMAIN Tail(requests) : Tail(requests)[i] = requests[i + 1]
                                         /\ i + 1 \in DOMAIN requests
  BY <1>1
<1>3. LookedUp \in Nat /\ Len(Requested) = LookedUp + Len(requests)
  BY <1>1 DEF NamesLookedUp, LookedUp
<1>4. requests[1] = Requested[LookedUp + 1]
  BY <1>1 DEF NamesLookedUp
<1>5. ASSUME NEW i \in DOMAIN Tail(requests)
      PROVE  Tail(requests)[i] = Requested[LookedUp + 1 + i]
  <2>1. Tail(requests)[i] = Requested[LookedUp + (i + 1)]
    BY <1>2 DEF NamesLookedUp
  <2> QED
    BY <2>1, <1>1, <1>2, <1>3
<1> QED
  BY <1>1, <1>2, <1>3, <1>4, <1>5

(* Going on to the next name: what is known of the names before it, and of *)
(* this one, is known of those looked up then.                             *)
LEMMA NextName ==
  ASSUME SelectionInv, pc \in {"select", "match"}, requests # <<>>,
         input' = input, explicit' = explicit, plan' = plan, found' = found,
         requests' = Tail(requests), pc' = "select", result' = result,
         foundAll' => foundAll /\ Head(requests) \in found,
         Head(requests) \in NamesOf(explicit) => Head(requests) \in NamesOf(input.implicit)
  PROVE  SelectionInv'
<1>1. InputInv' /\ ManifestsShared' /\ Requested' = Requested
  BY InputKept DEF SelectionInv, ManifestsShared, NamesOf
<1>2. NamesLookedUp /\ LookedUp \in Nat
  BY DEF SelectionInv, NamesLookedUp
<1>3. LookedUp' = LookedUp + 1
  BY <1>1, <1>2, HeadIsNext DEF LookedUp, SelectionInv
<1>4. /\ requests' \in Seq(Names) /\ LookedUp' \in Nat
      /\ \A i \in DOMAIN requests' : requests'[i] = Requested'[LookedUp' + i]
  BY <1>1, <1>2, <1>3, HeadIsNext DEF SelectionInv
<1>5. ASSUME NEW i \in 1..LookedUp'
      PROVE  /\ Requested[i] \in NamesOf(explicit) => Requested[i] \in NamesOf(input.implicit)
             /\ foundAll' => Requested[i] \in found
  <2>1. i \in 1..LookedUp \/ i = LookedUp + 1
    BY <1>2, <1>3
  <2> QED
    BY <2>1, <1>2, HeadIsNext DEF NamesLookedUp, SelectionInv
<1>6. Later' = Later /\ \A i \in Later : plan'[i] = plan[i]
  BY DEF Later
<1>7. Seen \in Nat /\ Seen' = LookedUp + 1 /\ Seen <= Seen'
  BY <1>2, <1>3 DEF Seen
<1>8. \A i \in Later :
        /\ \E k \in 1..Seen' : Requested[k] = NameOf[plan[i]]
        /\ NameOf[plan[i]] \notin NamesOf(input.implicit)
  BY <1>2, <1>7 DEF NamesLookedUp
<1>9. \A i, j \in Later : i < j => Before(plan[i], plan[j])
  BY <1>2 DEF NamesLookedUp
<1>10. NamesLookedUp'
  BY <1>1, <1>4, <1>5, <1>6, <1>8, <1>9, InputKept DEF NamesLookedUp, NamesOf
<1> QED
  BY <1>1, <1>10 DEF SelectionInv

(* SelectAgain: the manifests of a name found have been moved, or are      *)
(* hidden by an implicit layer.                                            *)
LEMMA SelectAgainSelection ==
  ASSUME SelectionInv, SelectAgain
  PROVE  SelectionInv'
<1> USE DEF SelectAgain, Goto
<1>1. NamesLookedUp /\ InputInv /\ ManifestsShared
  BY DEF SelectionInv
<1>2. PICK m \in ToSet(plan) : NameOf[m] = Head(requests)
  BY <1>1 DEF ManifestsShared, NamesOf
<1>3. PICK i \in 1..Len(plan) : plan[i] = m
  BY <1>1, <1>2 DEF ToSet, ManifestsShared
<1>4. CASE i <= Len(input.implicit)
  <2>1. i \in DOMAIN input.implicit /\ m = input.implicit[i]
    <3>1. Len(plan) \in Nat /\ Len(input.implicit) \in Nat
      BY <1>1 DEF InputInv, ManifestsShared
    <3>2. i \in 1..Len(input.implicit)
      BY <3>1, <1>3, <1>4
    <3> QED
      BY <1>1, <1>3, <3>2, ImplicitInPlan DEF InputInv
  <2>2. Head(requests) \in NamesOf(input.implicit)
    BY <2>1, <1>2 DEF NamesOf, ToSet
  <2> QED
    BY <2>2, NextName DEF SelectionInv
<1>5. CASE i > Len(input.implicit)
  <2>1. i \in Later /\ Seen = LookedUp
    BY <1>1, <1>3, <1>5 DEF Later, InputInv, Seen
  <2>2. PICK k \in 1..LookedUp : Requested[k] = Head(requests)
    BY <1>1, <1>2, <1>3, <2>1 DEF NamesLookedUp
  <2>3. Head(requests) \in NamesOf(explicit) => Head(requests) \in NamesOf(input.implicit)
    BY <2>2, <1>1 DEF NamesLookedUp
  <2> QED
    BY <2>3, NextName DEF SelectionInv
<1> QED
  BY <1>1, <1>3, <1>4, <1>5 DEF InputInv

(* Compared: the name has been compared with every manifest left.          *)
LEMMA ComparedSelection ==
  ASSUME SelectionInv, Compared,
         foundAll' => foundAll /\ Head(requests) \in found
  PROVE  SelectionInv'
<1> USE DEF Compared, Goto
<1>1. NameCompared /\ ManifestsShared
  BY DEF SelectionInv
<1>2. \A i \in 1..Len(explicit) : NameOf[explicit[i]] # Head(requests)
  BY <1>1 DEF NameCompared, ManifestsShared
<1>3. Head(requests) \notin NamesOf(explicit)
  BY <1>1, <1>2 DEF NamesOf, ToSet, ManifestsShared
<1> QED
  BY <1>1, <1>3, NextName DEF NameCompared

(* SelectName: nothing in the plan has the name, so no implicit layer does.*)
LEMMA SelectNameSelection ==
  ASSUME SelectionInv, SelectName
  PROVE  SelectionInv'
<1> USE DEF SelectName, NewName, Goto
<1>1. NamesLookedUp /\ InputInv /\ ManifestsShared
  BY DEF SelectionInv
<1>2. InputInv' /\ ManifestsShared'
  BY <1>1, InputKept DEF ManifestsShared, NamesOf
<1>3. LookedUp' = LookedUp /\ Later' = Later
  BY InputKept DEF LookedUp, Later
<1>4. LookedUp \in Nat /\ Seen = LookedUp /\ Seen' = LookedUp + 1
  BY <1>1, <1>3 DEF NamesLookedUp, Seen
<1>5. \A k : k \in 1..Seen => k \in 1..Seen'
  BY <1>4
<1>6. NamesLookedUp'
  BY <1>1, <1>3, <1>5, InputKept DEF NamesLookedUp, NamesOf
<1>7. Head(requests) \notin NamesOf(input.implicit)
  BY <1>1, ImplicitInPlan
<1>8. \A i \in Later : NameOf[plan[i]] # Head(requests)
  <2>1. \A i \in Later : i \in DOMAIN plan
    BY <1>1 DEF Later, InputInv, ManifestsShared
  <2> QED
    BY <2>1, <1>1 DEF ManifestsShared, NamesOf, ToSet
<1>9. NameCompared'
  BY <1>1, <1>3, <1>7, <1>8 DEF NameCompared, NamesOf, ManifestsShared
<1> QED
  BY <1>2, <1>6, <1>9 DEF SelectionInv

LEMMA SelectOtherSelection ==
  ASSUME SelectionInv, SelectOther
  PROVE  SelectionInv'
<1> USE DEF SelectOther, Goto
<1>1. NamesLookedUp /\ InputInv /\ ManifestsShared /\ NameCompared
  BY DEF SelectionInv
<1>2. InputInv' /\ ManifestsShared'
  BY <1>1, InputKept DEF ManifestsShared, NamesOf
<1>3. LookedUp' = LookedUp /\ Later' = Later /\ Seen' = Seen
  BY InputKept DEF LookedUp, Later, Seen
<1>4. NamesLookedUp'
  BY <1>1, <1>3, InputKept DEF NamesLookedUp, NamesOf
<1>5. it \in Nat /\ it' \in 1..(Len(explicit) + 1) /\ Len(explicit) \in Nat
  BY <1>1 DEF NameCompared, ManifestsShared
<1>6. \A i \in 1..(it' - 1) : i \in 1..(it - 1) \/ i = it
  BY <1>5
<1>7. \A j \in it'..Len(explicit) : j \in it..Len(explicit)
  BY <1>5
<1>8. NameCompared'
  BY <1>1, <1>3, <1>5, <1>6, <1>7, InputKept DEF NameCompared, NamesOf
<1> QED
  BY <1>2, <1>4, <1>8 DEF SelectionInv

(* SelectMatching moves one manifest from those left to the plan.          *)
LEMMA MatchShares ==
  ASSUME SelectionInv, SelectMatching
  PROVE  /\ ManifestsShared'
         /\ \A i \in DOMAIN explicit' : explicit'[i] = IF i < it THEN explicit[i]
                                                       ELSE explicit[i + 1]
         /\ Len(explicit') = Len(explicit) - 1
<1> USE DEF SelectMatching, Goto
<1> DEFINE m == explicit[it]
<1>1. NamesLookedUp /\ InputInv /\ ManifestsShared /\ NameCompared
  BY DEF SelectionInv
<1>2. /\ explicit \in Seq(Manifests) /\ IsInjective(explicit)
      /\ plan \in Seq(Manifests) /\ IsInjective(plan)
      /\ ToSet(plan) \cap ToSet(explicit) = {}
  BY <1>1 DEF ManifestsShared
<1>3. it \in 1..Len(explicit) /\ m \in Manifests /\ m \in ToSet(explicit)
  BY <1>1, <1>2 DEF NameCompared, ToSet
<1>4. /\ explicit' \in Seq(Manifests) /\ IsInjective(explicit')
      /\ Len(explicit') = Len(explicit) - 1
      /\ ToSet(explicit') = ToSet(explicit) \ {m}
  BY <1>2, <1>3, RemoveAtIs, RemoveAtSet
<1>5. \A i \in DOMAIN explicit' : explicit'[i] = IF i < it THEN explicit[i] ELSE explicit[i + 1]
  <2>1. DOMAIN explicit' = 1..(Len(explicit) - 1) /\ explicit' = RemoveAt(explicit, it)
    BY <1>4
  <2> QED
    BY <2>1, <1>2, <1>3, RemoveAtIs
<1>6. /\ plan' \in Seq(Manifests) /\ ToSet(plan') = ToSet(plan) \cup {m}
      /\ Len(plan') = Len(plan) + 1 /\ plan'[Len(plan) + 1] = m
      /\ \A i \in 1..Len(plan) : plan'[i] = plan[i]
  BY <1>2, <1>3, ToSetAppend, AppendProperties
<1> HIDE DEF m
<1>7. IsInjective(plan')
  <2>1. ASSUME NEW i \in 1..Len(plan)
        PROVE  plan[i] # m
    <3>1. plan[i] \in ToSet(plan)
      BY <1>2 DEF ToSet
    <3> QED
      BY <3>1, <1>2, <1>3
  <2>2. DOMAIN plan' = 1..(Len(plan) + 1) /\ Len(plan) \in Nat
    BY <1>2, <1>6
  <2> QED
    BY <2>1, <2>2, <1>2, <1>6 DEF IsInjective
<1>8. ToSet(plan') \cap ToSet(explicit') = {}
  BY <1>2, <1>3, <1>4, <1>6
<1>9. ToSet(plan') \cup ToSet(explicit') = ToSet(input.implicit) \cup ToSet(input.explicit)
  BY <1>1, <1>3, <1>4, <1>6 DEF ManifestsShared
<1>10. IsPrefix(input.implicit, plan')
  <2>1. /\ Len(input.implicit) <= Len(plan) /\ Len(plan) \in Nat
        /\ input.implicit \in Seq(Manifests) /\ Len(input.implicit) \in Nat
    BY <1>1, <1>2, ImplicitInPlan DEF InputInv
  <2>2. Len(input.implicit) <= Len(plan')
    BY <2>1, <1>6
  <2>3. \A i \in 1..Len(input.implicit) : plan'[i] = input.implicit[i]
    BY <2>1, <1>1, <1>6, ImplicitInPlan
  <2> QED
    BY <2>1, <2>2, <2>3, <1>6, PrefixIs
<1>11. ASSUME NEW i \in DOMAIN explicit', NEW j \in DOMAIN explicit', i < j
       PROVE  SearchIndex(explicit'[i]) < SearchIndex(explicit'[j])
  <2> DEFINE Old(k) == IF k < it THEN k ELSE k + 1
  <2>1. Old(i) \in DOMAIN explicit /\ Old(j) \in DOMAIN explicit /\ Old(i) < Old(j)
    BY <1>2, <1>3, <1>4, <1>11
  <2>2. explicit'[i] = explicit[Old(i)] /\ explicit'[j] = explicit[Old(j)]
    BY <1>5
  <2> QED
    BY <2>1, <2>2, <1>1 DEF ManifestsShared
<1>12. found' = NamesOf(plan')
  BY <1>1, <1>6 DEF ManifestsShared, NamesOf, m
<1> QED
  BY <1>4, <1>5, <1>6, <1>7, <1>8, <1>9, <1>10, <1>11, <1>12, InputKept
     DEF ManifestsShared, NamesOf

(* The manifest moved comes after all that were moved before: its name is  *)
(* asked for later, or is theirs, and then it was found later.             *)
LEMMA MatchIsLast ==
  ASSUME SelectionInv, SelectMatching, NEW i \in Later
  PROVE  Before(plan[i], explicit[it])
<1> USE DEF SelectMatching, Goto
<1> DEFINE m == explicit[it]
<1>1. NamesLookedUp /\ InputInv /\ ManifestsShared /\ NameCompared
  BY DEF SelectionInv
<1>2. it \in 1..Len(explicit) /\ m \in Manifests /\ m \in ToSet(explicit)
  BY <1>1 DEF NameCompared, ToSet, ManifestsShared
<1>3. NameOf[m] = Head(requests) /\ NameOf[m] \in NamesOf(explicit)
  BY <1>2 DEF NamesOf
<1>4. i \in DOMAIN plan /\ plan[i] \in Manifests
  BY <1>1 DEF Later, ManifestsShared, InputInv
<1>5. /\ LookedUp \in Nat /\ LookedUp + 1 \in DOMAIN Requested
      /\ Requested[LookedUp + 1] = NameOf[m]
  BY <1>1, <1>3, HeadIsNext DEF NameCompared, NamesLookedUp
<1>6. FirstRequest(m) = LookedUp + 1
  <2>1. \A k \in 1..LookedUp : Requested[k] # NameOf[m]
    BY <1>1, <1>3 DEF NamesLookedUp, NameCompared
  <2>2. FirstRequest(m) \in 1..(LookedUp + 1) /\ Requested[FirstRequest(m)] = NameOf[m]
    BY <1>1, <1>2, <1>5, FirstRequestIs
  <2> QED
    BY <2>1, <2>2, <1>5
<1>7. CASE NameOf[plan[i]] = NameOf[m]
  <2>1. SearchIndex(plan[i]) < SearchIndex(m)
    BY <1>1, <1>2, <1>3, <1>7 DEF NameCompared
  <2> QED
    BY <2>1, <1>7 DEF Before
<1>8. CASE NameOf[plan[i]] # NameOf[m]
  <2>1. PICK k \in 1..(LookedUp + 1) : Requested[k] = NameOf[plan[i]]
    BY <1>1 DEF NamesLookedUp, Seen
  <2>2. k \in 1..LookedUp /\ k \in DOMAIN Requested
    <3>1. k # LookedUp + 1
      BY <2>1, <1>5, <1>8
    <3>2. DOMAIN Requested = 1..Len(Requested) /\ Len(Requested) \in Nat
      BY <1>1, RequestedType
    <3> QED
      BY <3>1, <3>2, <2>1, <1>5
  <2>3. FirstRequest(plan[i]) \in 1..k
    BY <2>1, <2>2, <1>1, <1>4, FirstRequestIs
  <2> QED
    BY <2>2, <2>3, <1>5, <1>6 DEF Before
<1> QED
  BY <1>7, <1>8

LEMMA SelectMatchingSelection ==
  ASSUME SelectionInv, SelectMatching
  PROVE  SelectionInv'
<1> USE DEF SelectMatching, Goto
<1> DEFINE m == explicit[it]
           n == Len(plan)
<1>1. NamesLookedUp /\ InputInv /\ ManifestsShared /\ NameCompared
  BY DEF SelectionInv
<1>2. InputInv' /\ ManifestsShared' /\ Requested' = Requested
  BY <1>1, InputKept, MatchShares
<1>3. /\ it \in 1..Len(explicit) /\ Len(explicit) \in Nat /\ m \in ToSet(explicit)
      /\ n \in Nat /\ plan \in Seq(Manifests) /\ m \in Manifests
  BY <1>1 DEF NameCompared, ManifestsShared, ToSet
<1>4. LookedUp' = LookedUp /\ Seen' = Seen /\ Seen = LookedUp + 1 /\ LookedUp \in Nat
  BY <1>1, <1>2 DEF LookedUp, Seen, NamesLookedUp
<1>5. /\ plan'[n + 1] = m /\ Len(plan') = n + 1
      /\ \A i \in Later : plan'[i] = plan[i]
  BY <1>1, <1>3, AppendProperties DEF Later, InputInv
<1>6. \A i : i \in Later' <=> i \in Later \/ i = n + 1
  <2>1. Len(input.implicit) \in Nat /\ Len(input.implicit) <= n
    BY <1>1, ImplicitInPlan DEF InputInv
  <2> QED
    BY <2>1, <1>3, <1>5 DEF Later
<1>7. NamesOf(explicit)' \subseteq NamesOf(explicit)
  <2>1. ToSet(explicit') = ToSet(explicit) \ {m}
    BY <1>1, <1>3, RemoveAtSet DEF ManifestsShared
  <2> QED
    BY <2>1 DEF NamesOf
<1>8. NameOf[m] = Head(requests) /\ requests # <<>>
  BY <1>1 DEF NameCompared
<1>9. \A i \in Later' : /\ \E k \in 1..Seen : Requested[k] = NameOf[plan'[i]]
                        /\ NameOf[plan'[i]] \notin NamesOf(input.implicit)
  <2>1. Requested[Seen] = NameOf[m] /\ Seen \in 1..Seen
    BY <1>1, <1>4, <1>8, HeadIsNext
  <2>2. NameOf[m] \notin NamesOf(input.implicit)
    BY <1>1, <1>8 DEF NameCompared
  <2>3. \A i \in Later : /\ \E k \in 1..Seen : Requested[k] = NameOf[plan[i]]
                         /\ NameOf[plan[i]] \notin NamesOf(input.implicit)
    BY <1>1 DEF NamesLookedUp
  <2> HIDE DEF m
  <2> QED
    BY <2>1, <2>2, <2>3, <1>5, <1>6
<1>10. ASSUME NEW i \in Later', NEW j \in Later', i < j
       PROVE  Before(plan'[i], plan'[j])
  <2>1. i \in Later
    <3>1. j <= n + 1 /\ j \in Int
      BY <1>3, <1>6 DEF Later
    <3> QED
      BY <3>1, <1>3, <1>6, <1>10
  <2>2. CASE j \in Later
    BY <2>1, <2>2, <1>1, <1>5, <1>10 DEF NamesLookedUp
  <2>3. CASE j = n + 1
    BY <2>1, <2>3, <1>5, MatchIsLast
  <2> QED
    BY <2>2, <2>3, <1>6
<1>11. NamesLookedUp'
  <2>1. /\ requests' \in Seq(Names) /\ LookedUp' \in Nat
        /\ \A i \in DOMAIN requests' : requests'[i] = Requested'[LookedUp' + i]
    BY <1>1, <1>2, <1>4 DEF NamesLookedUp
  <2>2. \A i \in 1..LookedUp' :
          /\ Requested'[i] \in NamesOf(explicit)' => Requested'[i] \in NamesOf(input.implicit)'
          /\ foundAll' => Requested'[i] \in found'
    BY <1>1, <1>2, <1>4, <1>7 DEF NamesLookedUp, NamesOf
  <2> QED
    BY <2>1, <2>2, <1>2, <1>4, <1>9, <1>10, InputKept DEF NamesLookedUp, NamesOf
<1>12. ASSUME NEW i \in Later', NEW j \in it..Len(explicit'), NameOf[plan'[i]] = Head(requests)
       PROVE  SearchIndex(plan'[i]) < SearchIndex(explicit'[j])
  <2>1. explicit'[j] = explicit[j + 1] /\ j + 1 \in it..Len(explicit) /\ it < j + 1
        /\ j + 1 \in DOMAIN explicit /\ it \in DOMAIN explicit
    <3>1. Len(explicit') = Len(explicit) - 1 /\ j \in DOMAIN explicit'
      BY <1>2, <1>3, MatchShares DEF ManifestsShared
    <3> QED
      BY <3>1, <1>1, <1>3, MatchShares DEF ManifestsShared
  <2>2. CASE i \in Later
    BY <2>1, <2>2, <1>1, <1>5, <1>12 DEF NameCompared
  <2>3. CASE i = n + 1
    BY <2>1, <2>3, <1>1, <1>5 DEF ManifestsShared
  <2> QED
    BY <2>2, <2>3, <1>6
<1>13. it \in 1..(Len(explicit') + 1) /\ \A i \in 1..(it - 1) : NameOf[explicit'[i]] # Head(requests)
  <2>1. Len(explicit') = Len(explicit) - 1
    BY MatchShares
  <2>2. ASSUME NEW i \in 1..(it - 1)
        PROVE  explicit'[i] = explicit[i]
    BY <2>1, <1>2, <1>3, MatchShares DEF ManifestsShared
  <2> QED
    BY <2>1, <2>2, <1>1, <1>3 DEF NameCompared
<1>14. NameCompared'
  BY <1>1, <1>8, <1>12, <1>13, InputKept DEF NameCompared, NamesOf
<1> QED
  BY <1>2, <1>11, <1>14 DEF SelectionInv

(* With the names looked up, nothing changes the plan.                     *)
LEMMA SelectionFrozen ==
  ASSUME SelectionInv, UNCHANGED <<input, selection>>, requests = <<>>, pc # "match",
         pc' \notin {"names", "select", "match"},
         pc' \notin {"drop", "returned"} => result' = "none",
         result' # "validation" => pc # "names" /\ result # "validation"
  PROVE  SelectionInv'
<1> USE DEF selection
<1>1. InputInv' /\ ManifestsShared'
  BY InputKept DEF SelectionInv, ManifestsShared, NamesOf
<1>2. LookedUp' = LookedUp /\ Later' = Later /\ Seen' = Seen
  BY InputKept DEF LookedUp, Later, Seen
<1>3. NamesLookedUp => NamesLookedUp'
  BY <1>2, InputKept DEF NamesLookedUp, NamesOf
<1> QED
  BY <1>1, <1>3 DEF SelectionInv

LEMMA NextSelection ==
  ASSUME SelectionInv, Next
  PROVE  SelectionInv'
<1> USE DEF Goto
<1>1. CASE NullNames \/ SelectDone \/ OpenFails \/ OpenLibrary \/ NotExported
  BY <1>1, SelectionFrozen
     DEF NullNames, SelectDone, OpenFails, OpenLibrary, NotExported, Skip, SelectionInv
<1>2. CASE AddNames
  BY <1>2, AddNamesSelection
<1>3. CASE SelectAgain \/ SelectName \/ SelectMatching \/ SelectOther
  BY <1>3, SelectAgainSelection, SelectNameSelection, SelectMatchingSelection,
     SelectOtherSelection
<1>4. CASE SelectMatched \/ SelectMissing
  BY <1>4, ComparedSelection DEF SelectMatched, SelectMissing
<1>5. CASE ForwardInit \/ ForwardInitFails \/ NegotiateMissing \/ NegotiateFails \/ Negotiate
  BY <1>5, SelectionFrozen
     DEF ForwardInit, ForwardInitFails, NegotiateMissing, NegotiateFails, Negotiate, Skip,
         SelectionInv
<1>6. CASE LateInitNotOffered \/ LateInit \/ LateInitFails \/ Commit
  BY <1>6, SelectionFrozen
     DEF LateInitNotOffered, LateInit, LateInitFails, Commit, Skip, SelectionInv
<1>7. CASE Finish \/ CallerDrops
  BY <1>7, SelectionFrozen DEF Finish, CallerDrops, SelectionInv
<1>8. CASE Returned
  BY <1>8, SelectionFrozen DEF Returned, vars, SelectionInv
<1> QED
  BY <1>1, <1>2, <1>3, <1>4, <1>5, <1>6, <1>7, <1>8 DEF Next

-----------------------------------------------------------------------------
(* Loading                                                                 *)

(* The layer the loop is at is none of those loaded.                       *)
LEMMA CurrentIsNew ==
  ASSUME SelectionInv, LayersHeld, next <= Len(plan)
  PROVE  /\ next \in DOMAIN plan /\ Current \in Manifests
         /\ \A k \in DOMAIN plan : plan[k] = Current => k = next
         /\ Current \notin ToSet(interfaces)
<1>1. plan \in Seq(Manifests) /\ IsInjective(plan)
  BY DEF SelectionInv, ManifestsShared
<1>2. next \in DOMAIN plan /\ Current \in Manifests
  BY <1>1 DEF LayersHeld, Current
<1>3. \A k \in DOMAIN plan : plan[k] = Current => k = next
  BY <1>1, <1>2 DEF IsInjective, Current
<1>4. ASSUME NEW i \in DOMAIN interfaces
      PROVE  interfaces[i] # Current
  <2>1. PICK k \in 1..(next - 1) : plan[k] = interfaces[i]
    BY DEF LayersHeld
  <2>2. k \in DOMAIN plan /\ k # next
    BY <1>1, <1>2, <2>1
  <2> QED
    BY <2>1, <2>2, <1>3
<1> QED
  BY <1>2, <1>3, <1>4 DEF ToSet

LEMMA InitLoading == Init => LoadingInv
<1> SUFFICES ASSUME Init
             PROVE  LoadingInv
  OBVIOUS
<1>1. plan \in Seq(Manifests) /\ Len(plan) \in Nat
  BY InitSelection DEF SelectionInv, ManifestsShared
<1> QED
  BY <1>1 DEF Init, LoadingInv, LayersHeld, InitCallsCounted, InitForwardedOnce, PlannedOrderKept,
              AtLayer, ToSet

(* Before the loop nothing is loaded.                                      *)
LEMMA SelectingLoads ==
  ASSUME SelectionInv', LoadingInv, pc \in {"names", "select", "match"},
         UNCHANGED <<next, open, initCalls, interfaces>>,
         pc' \in {"select", "match", "open", "drop"},
         pc' = "drop" => result' = "validation"
  PROVE  LoadingInv'
<1>1. plan' \in Seq(Manifests) /\ Len(plan') \in Nat
  BY DEF SelectionInv, ManifestsShared
<1>2. LayersHeld'
  BY <1>1 DEF LoadingInv, LayersHeld, PlannedOrderKept, AtLayer, ToSet
<1>3. InitCallsCounted'
  BY <1>1 DEF LoadingInv, InitCallsCounted, InitForwardedOnce
<1> QED
  BY <1>2, <1>3 DEF LoadingInv

(* The loop goes on without the layer it was at, whose library is closed.  *)
LEMMA SkippedHeld ==
  ASSUME SelectionInv, LayersHeld, pc \in {"open", "negotiate", "late_init"},
         next <= Len(plan), pc' = "open", next' = next + 1, open' = open \ {Current},
         plan' = plan, interfaces' = interfaces,
         interfaces = <<>> => lastError' # "success"
  PROVE  LayersHeld'
<1>1. plan \in Seq(Manifests) /\ Len(plan) \in Nat /\ next \in Nat
  BY DEF SelectionInv, ManifestsShared, LayersHeld
<1>2. open' = ToSet(interfaces)
  BY CurrentIsNew DEF LayersHeld
<1>3. \A k : k \in 1..(next - 1) => k \in 1..(next' - 1)
  BY <1>1
<1>4. PlannedOrderKept'
  BY DEF LayersHeld, PlannedOrderKept
<1>5. next' \in 1..(Len(plan') + 1)
  BY <1>1
<1>6. \A i \in DOMAIN interfaces : \E k \in 1..(next' - 1) : plan[k] = interfaces[i]
  BY <1>3 DEF LayersHeld
<1> QED
  BY <1>2, <1>4, <1>5, <1>6 DEF LayersHeld, AtLayer

(* The layer the loop is at may have been initialised meanwhile, if it was *)
(* not before.                                                             *)
LEMMA CallsCounted ==
  ASSUME SelectionInv, LayersHeld, InitCallsCounted, next <= Len(plan), plan' = plan,
         pc' \notin {"names", "select", "match"},
         \/ initCalls' = initCalls
         \/ /\ initCalls' = [initCalls EXCEPT ![Current] = @ + 1]
            /\ InitStillDue(next)
            /\ \A i \in DOMAIN plan : InitStillDue(i)' => i # next,
         \A i \in DOMAIN plan : InitStillDue(i)' => InitStillDue(i),
         pc' = "late_init" => ~forwarded'
  PROVE  InitCallsCounted'
<1>1. next \in DOMAIN plan /\ Current \in Manifests /\ Current = plan[next]
      /\ \A k \in DOMAIN plan : plan[k] = Current => k = next
  BY CurrentIsNew DEF Current
<1>2. CASE initCalls' = initCalls
  BY <1>2 DEF InitCallsCounted, InitForwardedOnce
<1>3. CASE /\ initCalls' = [initCalls EXCEPT ![Current] = @ + 1]
           /\ InitStillDue(next)
           /\ \A i \in DOMAIN plan : InitStillDue(i)' => i # next
  <2>1. initCalls[Current] = 0
    BY <1>1, <1>3 DEF InitCallsCounted
  <2>2. /\ initCalls' \in [Manifests -> Nat] /\ initCalls'[Current] = 1
        /\ \A m \in Manifests : m # Current => initCalls'[m] = initCalls[m]
    BY <2>1, <1>1, <1>3 DEF InitCallsCounted
  <2>3. InitForwardedOnce'
    BY <2>2 DEF InitCallsCounted, InitForwardedOnce
  <2>4. ASSUME NEW i \in DOMAIN plan, InitStillDue(i)'
        PROVE  initCalls'[plan[i]] = 0
    <3>1. i # next /\ plan[i] # Current /\ plan[i] \in Manifests
      BY <2>4, <1>1, <1>3 DEF SelectionInv, ManifestsShared
    <3> QED
      BY <3>1, <2>2, <2>4 DEF InitCallsCounted
  <2> QED
    BY <2>2, <2>3, <2>4 DEF InitCallsCounted
<1> QED
  BY <1>2, <1>3

LEMMA SkippedDue ==
  ASSUME SelectionInv, next \in Nat, plan' = plan, next' = next + 1, pc' = "open"
  PROVE  \A i \in DOMAIN plan : InitStillDue(i)' => InitStillDue(i) /\ i # next
<1>1. DOMAIN plan \subseteq Nat
  BY DEF SelectionInv, ManifestsShared
<1> QED
  BY <1>1 DEF InitStillDue

(* A layer is skipped: OpenFails, NegotiateMissing, NegotiateFails and     *)
(* LateInitFails.                                                          *)
LEMMA SkipLoads ==
  ASSUME SelectionInv, LoadingInv, OpenFails \/ NegotiateMissing \/ NegotiateFails \/ LateInitFails
  PROVE  LoadingInv'
<1> USE DEF Goto, Skip, selection
<1>1. LayersHeld /\ InitCallsCounted /\ next \in Nat
  BY DEF LoadingInv, LayersHeld
<1>2. /\ next <= Len(plan) /\ pc' = "open" /\ next' = next + 1
      /\ plan' = plan /\ interfaces' = interfaces
      /\ interfaces = <<>> => lastError' # "success"
      /\ pc \in {"open", "negotiate", "late_init"}
  BY <1>1 DEF OpenFails, NegotiateMissing, NegotiateFails, LateInitFails, LayersHeld, AtLayer
<1>3. open' = open \ {Current}
  <2>1. CASE OpenFails
    <3>1. Current \notin open
      BY <2>1, <1>1, <1>2, CurrentIsNew DEF OpenFails, LayersHeld, AtLayer
    <3> QED
      BY <2>1, <3>1 DEF OpenFails
  <2>2. CASE NegotiateMissing \/ NegotiateFails \/ LateInitFails
    BY <2>2 DEF NegotiateMissing, NegotiateFails, LateInitFails
  <2> QED
    BY <2>1, <2>2
<1>4. LayersHeld'
  BY <1>1, <1>2, <1>3, SkippedHeld
<1>5. \A i \in DOMAIN plan : InitStillDue(i)' => InitStillDue(i) /\ i # next
  BY <1>1, <1>2, SkippedDue
<1>6. \/ initCalls' = initCalls
      \/ initCalls' = [initCalls EXCEPT ![Current] = @ + 1] /\ InitStillDue(next)
  <2>1. CASE OpenFails \/ NegotiateMissing \/ NegotiateFails
    BY <2>1 DEF OpenFails, NegotiateMissing, NegotiateFails
  <2>2. CASE LateInitFails
    BY <2>2, <1>1 DEF LateInitFails, InitStillDue, InitCallsCounted
  <2> QED
    BY <2>1, <2>2
<1>7. InitCallsCounted'
  BY <1>1, <1>2, <1>5, <1>6, CallsCounted
<1> QED
  BY <1>4, <1>7 DEF LoadingInv

(* The library of the layer the loop is at is opened, or stays open.       *)
LEMMA AtLayerLoads ==
  ASSUME SelectionInv, LoadingInv,
         \/ OpenLibrary \/ NotExported \/ ForwardInit \/ Negotiate \/ LateInitNotOffered
         \/ LateInit
  PROVE  LoadingInv'
<1> USE DEF Goto, selection, loading
<1>1. LayersHeld /\ InitCallsCounted /\ next \in Nat
  BY DEF LoadingInv, LayersHeld
<1>2. /\ next <= Len(plan) /\ pc' \in {"init", "negotiate", "late_init", "commit"}
      /\ pc \in {"open", "init", "negotiate", "late_init"}
      /\ plan' = plan /\ next' = next /\ interfaces' = interfaces /\ lastError' = lastError
      /\ result' = result
  BY <1>1 DEF OpenLibrary, NotExported, ForwardInit, Negotiate, LateInitNotOffered, LateInit,
              LayersHeld, AtLayer
<1>3. open' = ToSet(interfaces) \cup {Current}
  BY <1>1 DEF OpenLibrary, NotExported, ForwardInit, Negotiate, LateInitNotOffered, LateInit,
              LayersHeld, AtLayer
<1>4. LayersHeld'
  BY <1>1, <1>2, <1>3 DEF LayersHeld, AtLayer, PlannedOrderKept, Current
<1>5. \A i \in DOMAIN plan : InitStillDue(i)' => InitStillDue(i)
  BY <1>2 DEF InitStillDue, OpenLibrary, NotExported, ForwardInit, Negotiate,
              LateInitNotOffered, LateInit
<1>6. \/ initCalls' = initCalls
      \/ /\ initCalls' = [initCalls EXCEPT ![Current] = @ + 1] /\ InitStillDue(next)
         /\ \A i \in DOMAIN plan : InitStillDue(i)' => i # next
  <2>1. CASE OpenLibrary \/ NotExported \/ Negotiate \/ LateInitNotOffered
    BY <2>1 DEF OpenLibrary, NotExported, Negotiate, LateInitNotOffered
  <2>2. CASE ForwardInit \/ LateInit
    BY <2>2, <1>1 DEF ForwardInit, LateInit, InitStillDue, InitCallsCounted
  <2> QED
    BY <2>1, <2>2
<1>7. pc' = "late_init" => ~forwarded'
  BY <1>1 DEF OpenLibrary, NotExported, ForwardInit, Negotiate, LateInitNotOffered, LateInit
<1>8. InitCallsCounted'
  BY <1>1, <1>2, <1>5, <1>6, <1>7, CallsCounted
<1> QED
  BY <1>4, <1>8 DEF LoadingInv

LEMMA CommitLoads ==
  ASSUME SelectionInv, LoadingInv, Commit
  PROVE  LoadingInv'
<1> USE DEF Commit, Goto, selection
<1>1. LayersHeld /\ InitCallsCounted /\ next \in Nat /\ next <= Len(plan)
  BY DEF LoadingInv, LayersHeld, AtLayer
<1>2. /\ next \in DOMAIN plan /\ Current \in Manifests /\ Current = plan[next]
      /\ plan \in Seq(Manifests) /\ Len(plan) \in Nat
  BY <1>1, CurrentIsNew DEF Current, SelectionInv, ManifestsShared
<1>3. /\ interfaces' \in Seq(Manifests) /\ interfaces' # <<>>
      /\ ToSet(interfaces') = ToSet(interfaces) \cup {Current}
      /\ Len(interfaces') = Len(interfaces) + 1 /\ Len(interfaces) \in Nat
      /\ interfaces'[Len(interfaces) + 1] = Current
      /\ \A i \in 1..Len(interfaces) : interfaces'[i] = interfaces[i]
      /\ DOMAIN interfaces' = 1..(Len(interfaces) + 1)
      /\ DOMAIN interfaces = 1..Len(interfaces)
  BY <1>1, <1>2, ToSetAppend, AppendProperties DEF LayersHeld
<1>4. ASSUME NEW i \in DOMAIN interfaces'
      PROVE  \E k \in 1..(next' - 1) : plan[k] = interfaces'[i]
  <2>1. CASE i \in DOMAIN interfaces
    <3>1. PICK k \in 1..(next - 1) : plan[k] = interfaces[i]
      BY <2>1, <1>1 DEF LayersHeld
    <3> QED
      BY <3>1, <2>1, <1>1, <1>3
  <2>2. CASE i = Len(interfaces) + 1
    BY <2>2, <1>1, <1>2, <1>3
  <2> QED
    BY <2>1, <2>2, <1>3
<1>5. PlannedOrderKept'
  <2> SUFFICES ASSUME NEW i \in DOMAIN interfaces', NEW j \in DOMAIN interfaces', i < j
               PROVE  \E k, l \in DOMAIN plan :
                        k < l /\ plan[k] = interfaces'[i] /\ plan[l] = interfaces'[j]
    BY DEF PlannedOrderKept
  <2>1. i \in 1..Len(interfaces)
    BY <1>3
  <2>2. CASE j \in 1..Len(interfaces)
    BY <2>1, <2>2, <1>1, <1>3 DEF LayersHeld, PlannedOrderKept
  <2>3. CASE j = Len(interfaces) + 1
    <3>1. PICK k \in 1..(next - 1) : plan[k] = interfaces[i]
      BY <2>1, <1>1, <1>3 DEF LayersHeld
    <3>2. k \in DOMAIN plan /\ k < next
      BY <3>1, <1>1, <1>2
    <3> QED
      BY <3>1, <3>2, <2>1, <2>3, <1>2, <1>3
  <2> QED
    BY <2>2, <2>3, <1>3
<1>6. LayersHeld'
  BY <1>1, <1>2, <1>3, <1>4, <1>5 DEF LayersHeld, AtLayer
<1>7. InitCallsCounted'
  BY <1>1, SkippedDue, CallsCounted
<1> QED
  BY <1>6, <1>7 DEF LoadingInv

(* The layers go, with their libraries.                                    *)
LEMMA DestroyedHeld ==
  ASSUME SelectionInv, LayersHeld, DestroyInterfaces, ~AtLayer, UNCHANGED <<plan, next>>,
         pc' = "returned"
  PROVE  LayersHeld' /\ open' = {}
BY DEF DestroyInterfaces, LayersHeld, AtLayer, PlannedOrderKept, ToSet

LEMMA EndLoads ==
  ASSUME SelectionInv, LoadingInv, ForwardInitFails \/ Finish \/ CallerDrops
  PROVE  LoadingInv'
<1> USE DEF Goto, selection
<1>1. LayersHeld /\ InitCallsCounted /\ next \in Nat
  BY DEF LoadingInv, LayersHeld
<1>2. CASE ForwardInitFails
  <2>1. next <= Len(plan)
    BY <1>1, <1>2 DEF ForwardInitFails, LayersHeld, AtLayer
  <2>2. LayersHeld'
    BY <1>1, <1>2, <2>1, CurrentIsNew
       DEF ForwardInitFails, LayersHeld, AtLayer, PlannedOrderKept
  <2>3. InitCallsCounted'
    BY <1>1, <1>2, <2>1, CallsCounted DEF ForwardInitFails, InitStillDue
  <2> QED
    BY <2>2, <2>3 DEF LoadingInv
<1>3. CASE Finish \/ CallerDrops
  <2>1. /\ ~AtLayer /\ pc' = "returned" /\ pc \in {"open", "drop"}
        /\ UNCHANGED <<plan, next, initCalls>>
    BY <1>3 DEF Finish, CallerDrops, AtLayer
  <2>2. DestroyInterfaces \/ UNCHANGED <<open, interfaces>>
    BY <1>3 DEF Finish, CallerDrops
  <2>3. LayersHeld'
    <3>0. interfaces' = <<>> \/ result' = "success"
      BY <1>3 DEF Finish, CallerDrops, DestroyInterfaces
    <3>1. CASE DestroyInterfaces
      BY <3>1, <1>1, <2>1, DestroyedHeld
    <3>2. CASE UNCHANGED <<open, interfaces>>
      BY <3>0, <3>2, <1>1, <2>1 DEF LayersHeld, AtLayer, PlannedOrderKept
    <3> QED
      BY <3>1, <3>2, <2>2
  <2>4. InitCallsCounted'
    BY <1>1, <2>1 DEF InitCallsCounted, InitForwardedOnce, InitStillDue
  <2> QED
    BY <2>3, <2>4 DEF LoadingInv
<1> QED
  BY <1>2, <1>3

LEMMA NextLoading ==
  ASSUME SelectionInv, LoadingInv, Next
  PROVE  LoadingInv'
<1>1. SelectionInv'
  BY NextSelection
<1>2. CASE \/ NullNames \/ AddNames \/ SelectAgain \/ SelectName \/ SelectMatching
           \/ SelectOther \/ SelectMatched \/ SelectMissing \/ SelectDone
  BY <1>1, <1>2, SelectingLoads
     DEF NullNames, AddNames, SelectAgain, SelectName, SelectMatching, SelectOther,
         SelectMatched, SelectMissing, SelectDone, Compared, Goto, loading
<1>3. CASE OpenFails \/ NegotiateMissing \/ NegotiateFails \/ LateInitFails
  BY <1>3, SkipLoads
<1>4. CASE \/ OpenLibrary \/ NotExported \/ ForwardInit \/ Negotiate
           \/ LateInitNotOffered \/ LateInit
  BY <1>4, AtLayerLoads
<1>5. CASE Commit
  BY <1>5, CommitLoads
<1>6. CASE ForwardInitFails \/ Finish \/ CallerDrops
  BY <1>6, EndLoads
<1>7. CASE Returned
  BY <1>7 DEF Returned, vars, selection, loading, LoadingInv, LayersHeld, InitCallsCounted,
              InitForwardedOnce, InitStillDue, PlannedOrderKept, AtLayer, Current
<1> QED
  BY <1>2, <1>3, <1>4, <1>5, <1>6, <1>7 DEF Next

(* A step of something else.                                               *)
LEMMA StutterKeeps ==
  ASSUME SelectionInv, LoadingInv, UNCHANGED vars
  PROVE  SelectionInv' /\ LoadingInv'
<1> USE DEF vars, selection, loading
<1>1. InputInv' /\ ManifestsShared'
  BY InputKept DEF SelectionInv, ManifestsShared, NamesOf
<1>2. LookedUp' = LookedUp /\ Later' = Later /\ Seen' = Seen
  BY InputKept DEF LookedUp, Later, Seen
<1>3. NamesLookedUp => NamesLookedUp'
  BY <1>2, InputKept DEF NamesLookedUp, NamesOf
<1>4. NameCompared => NameCompared'
  BY <1>2, InputKept DEF NameCompared, NamesOf
<1>5. SelectionInv'
  BY <1>1, <1>3, <1>4 DEF SelectionInv
<1>6. LoadingInv'
  BY DEF LoadingInv, LayersHeld, InitCallsCounted, InitForwardedOnce, InitStillDue,
         PlannedOrderKept, AtLayer, Current
<1> QED
  BY <1>5, <1>6

-----------------------------------------------------------------------------
(* What the invariants say of the plan, the libraries and the result       *)

(* With every name looked up, the explicit part of the plan is what was    *)
(* asked for.                                                              *)
LEMMA PlanIsEnabled ==
  ASSUME SelectionInv, NamesLookedUp, requests = <<>>, pc # "match"
  PROVE  {plan[i] : i \in Later} = EnabledExplicit
<1>1. /\ InputInv /\ ManifestsShared /\ LookedUp = Len(Requested) /\ Seen = Len(Requested)
      /\ DOMAIN Requested = 1..Len(Requested) /\ Len(Requested) \in Nat
  BY RequestedType DEF SelectionInv, LookedUp, Seen
<1>2. /\ Len(input.implicit) \in Nat /\ Len(plan) \in Nat /\ DOMAIN plan = 1..Len(plan)
      /\ DOMAIN input.implicit = 1..Len(input.implicit)
      /\ Len(input.implicit) <= Len(plan)
  BY <1>1, ImplicitInPlan DEF InputInv, ManifestsShared
<1>3. ASSUME NEW i \in Later
      PROVE  plan[i] \in EnabledExplicit
  <2>1. i \in DOMAIN plan /\ i \notin DOMAIN input.implicit
    BY <1>2 DEF Later
  <2>2. plan[i] \notin ToSet(input.implicit)
    <3> SUFFICES ASSUME NEW j \in DOMAIN input.implicit, plan[i] = input.implicit[j]
                 PROVE  FALSE
      BY DEF ToSet
    <3>1. plan[j] = plan[i] /\ j \in DOMAIN plan
      BY <1>1, <1>2, ImplicitInPlan
    <3> QED
      BY <3>1, <2>1, <1>1 DEF ManifestsShared, IsInjective
  <2>3. plan[i] \in ToSet(plan)
    BY <2>1 DEF ToSet
  <2>4. plan[i] \in ToSet(input.explicit)
    BY <2>2, <2>3, <1>1 DEF ManifestsShared
  <2>5. PICK k \in 1..Seen : Requested[k] = NameOf[plan[i]]
    BY DEF NamesLookedUp
  <2>6. NameOf[plan[i]] \in ToSet(Requested)
    BY <2>5, <1>1 DEF ToSet
  <2> QED
    BY <2>4, <2>6 DEF EnabledExplicit, NamesLookedUp
<1>4. ASSUME NEW m \in EnabledExplicit
      PROVE  \E i \in Later : plan[i] = m
  <2>1. /\ m \in ToSet(input.explicit) /\ NameOf[m] \in ToSet(Requested)
        /\ NameOf[m] \notin NamesOf(input.implicit)
    BY DEF EnabledExplicit
  <2>2. PICK k \in 1..Len(Requested) : Requested[k] = NameOf[m]
    BY <2>1, <1>1 DEF ToSet
  <2>3. m \notin ToSet(explicit)
    BY <2>1, <2>2, <1>1 DEF NamesLookedUp, NamesOf
  <2>4. m \in ToSet(plan)
    BY <2>1, <2>3, <1>1 DEF ManifestsShared
  <2>5. PICK i \in DOMAIN plan : plan[i] = m
    BY <2>4 DEF ToSet
  <2>6. m \notin ToSet(input.implicit)
    BY <2>1, <1>1 DEF InputInv
  <2>7. i \notin DOMAIN input.implicit
    <3> SUFFICES ASSUME i \in DOMAIN input.implicit
                 PROVE  FALSE
      OBVIOUS
    <3>1. input.implicit[i] = m
      BY <2>5, <1>1, <1>2, ImplicitInPlan
    <3> QED
      BY <3>1, <2>6 DEF ToSet
  <2> QED
    BY <2>5, <2>7, <1>2 DEF Later
<1> QED
  BY <1>3, <1>4 DEF EnabledExplicit

LEMMA SelectionPlans ==
  ASSUME SelectionInv
  PROVE  PlanIsSelection
<1> SUFFICES ASSUME pc \in {"open", "returned"}, result # "validation"
             PROVE  /\ IsPrefix(input.implicit, plan)
                    /\ {plan[i] : i \in Later} = EnabledExplicit
                    /\ Cardinality(ToSet(plan)) = Len(plan)
                    /\ \A i, j \in Later : i < j => Before(plan[i], plan[j])
  BY DEF PlanIsSelection
<1>1. NamesLookedUp /\ requests = <<>> /\ ManifestsShared
  BY DEF SelectionInv
<1> QED
  BY <1>1, PlanIsEnabled, InjectiveCardinality DEF NamesLookedUp, ManifestsShared

LEMMA LoadingOwns ==
  ASSUME SelectionInv, LoadingInv
  PROVE  LibrariesOwned
<1>1. LayersHeld /\ plan \in Seq(Manifests) /\ IsInjective(plan)
  BY DEF LoadingInv, SelectionInv, ManifestsShared
<1>2. AtLayer => Current \notin ToSet(interfaces)
  BY <1>1, CurrentIsNew DEF LayersHeld
<1>3. IsInjective(interfaces)
  <2>1. ASSUME NEW i \in DOMAIN interfaces, NEW j \in DOMAIN interfaces, i < j
        PROVE  interfaces[i] # interfaces[j]
    <3>1. PICK k, l \in DOMAIN plan :
            k < l /\ plan[k] = interfaces[i] /\ plan[l] = interfaces[j]
      BY <2>1, <1>1 DEF LayersHeld, PlannedOrderKept
    <3>2. k # l
      BY <3>1, <1>1
    <3> QED
      BY <3>1, <3>2, <1>1 DEF IsInjective
  <2>2. \A i, j \in DOMAIN interfaces : i < j \/ j < i \/ i = j
    BY <1>1 DEF LayersHeld
  <2> QED
    BY <2>1, <2>2 DEF IsInjective
<1>4. Cardinality(ToSet(interfaces)) = Len(interfaces)
  BY <1>1, <1>3, InjectiveCardinality DEF LayersHeld
<1> QED
  BY <1>1, <1>2, <1>4 DEF LibrariesOwned, LayersHeld

LEMMA FinishEarned ==
  ASSUME SelectionInv, LayersHeld, Finish
  PROVE  SuccessIsEarned'
<1> USE DEF Finish, Goto, selection
<1> SUFFICES ASSUME result' = "success"
             PROVE  ToSet(Requested') \subseteq NamesOf(plan)' /\ (plan # <<>> => interfaces' # <<>>)
  BY DEF SuccessIsEarned
<1>1. foundAll /\ lastError = "success" /\ interfaces' = interfaces
  BY DEF SelectionInv
<1>2. NamesLookedUp /\ requests = <<>> /\ ManifestsShared /\ Requested' = Requested
  BY InputKept DEF SelectionInv
<1>3. LookedUp = Len(Requested) /\ DOMAIN Requested = 1..Len(Requested)
  BY <1>2, RequestedType DEF LookedUp, SelectionInv
<1>4. ToSet(Requested) \subseteq NamesOf(plan)
  BY <1>1, <1>2, <1>3 DEF NamesLookedUp, ManifestsShared, ToSet
<1>5. ASSUME plan # <<>>
      PROVE  interfaces # <<>>
  <2>1. Len(plan) \in Nat \ {0}
    BY <1>2, <1>5 DEF ManifestsShared
  <2> QED
    BY <2>1, <1>1 DEF LayersHeld
<1> QED
  BY <1>1, <1>2, <1>4, <1>5 DEF NamesOf

LEMMA NextEarned ==
  ASSUME SelectionInv, LoadingInv, SuccessIsEarned, Next
  PROVE  SuccessIsEarned'
<1> USE DEF Goto
<1>1. CASE Finish
  BY <1>1, FinishEarned DEF LoadingInv
<1>2. CASE CallerDrops
  BY <1>2 DEF CallerDrops, SuccessIsEarned, LoadingInv, LayersHeld
<1>3. CASE Returned
  BY <1>3 DEF Returned, vars, selection, loading, SuccessIsEarned, Requested, NamesOf
<1>4. CASE \/ NullNames \/ AddNames \/ SelectAgain \/ SelectName \/ SelectMatching
           \/ SelectOther \/ SelectMatched \/ SelectMissing \/ SelectDone
  BY <1>4 DEF NullNames, AddNames, SelectAgain, SelectName, SelectMatching, SelectOther,
              SelectMatched, SelectMissing, SelectDone, Compared, SuccessIsEarned
<1>5. CASE \/ OpenFails \/ OpenLibrary \/ NotExported \/ ForwardInit \/ ForwardInitFails
           \/ NegotiateMissing \/ NegotiateFails \/ Negotiate
           \/ LateInitNotOffered \/ LateInit \/ LateInitFails \/ Commit
  BY <1>5 DEF OpenFails, OpenLibrary, NotExported, ForwardInit, ForwardInitFails, Skip,
              NegotiateMissing, NegotiateFails, Negotiate, LateInitNotOffered, LateInit,
              LateInitFails, Commit, SuccessIsEarned
<1> QED
  BY <1>1, <1>2, <1>3, <1>4, <1>5 DEF Next

-----------------------------------------------------------------------------
(* Theorems                                                                *)

(* The inductive invariant: what has been looked up and moved, opened,     *)
(* initialised and kept so far.                                            *)
THEOREM LoadingInvariant == Spec => [](SelectionInv /\ LoadingInv)
<1>1. Init => SelectionInv /\ LoadingInv
  BY InitSelection, InitLoading
<1>2. SelectionInv /\ LoadingInv /\ [Next]_vars => (SelectionInv /\ LoadingInv)'
  <2>1. SelectionInv /\ LoadingInv /\ Next => (SelectionInv /\ LoadingInv)'
    BY NextSelection, NextLoading
  <2> QED
    BY <2>1, StutterKeeps
<1> QED
  BY <1>1, <1>2, PTL DEF Spec

(* The plan is the implicit layers in search order and then the requested  *)
(* explicit ones, each once, at its first request.                         *)
THEOREM PlanIsWhatWasAsked == Spec => []PlanIsSelection
<1>1. SelectionInv /\ LoadingInv => PlanIsSelection
  BY SelectionPlans
<1> QED
  BY <1>1, LoadingInvariant, PTL

(* Every open library is held by one ApiLayerInterface, or is at hand.     *)
THEOREM EveryLibraryOwned == Spec => []LibrariesOwned
<1>1. SelectionInv /\ LoadingInv => LibrariesOwned
  BY LoadingOwns
<1> QED
  BY <1>1, LoadingInvariant, PTL

(* No layer is initialised twice, exported or late.                        *)
THEOREM ForwardedAtMostOnce == Spec => []InitForwardedOnce
<1>1. SelectionInv /\ LoadingInv => InitForwardedOnce
  BY DEF LoadingInv, InitCallsCounted
<1> QED
  BY <1>1, LoadingInvariant, PTL

(* The layers loaded keep the order of the plan.                           *)
THEOREM OrderIsKept == Spec => []PlannedOrderKept
<1>1. SelectionInv /\ LoadingInv => PlannedOrderKept
  BY DEF LoadingInv, LayersHeld
<1> QED
  BY <1>1, LoadingInvariant, PTL

(* LoadApiLayers succeeds only with a manifest for every name asked for,   *)
(* and not if all planned layers failed.                                   *)
THEOREM SuccessEarned == Spec => []SuccessIsEarned
<1>1. Init => SuccessIsEarned
  BY DEF Init, SuccessIsEarned
<1>2. SelectionInv /\ LoadingInv /\ SuccessIsEarned /\ [Next]_vars => SuccessIsEarned'
  <2>1. UNCHANGED vars /\ SuccessIsEarned => SuccessIsEarned'
    BY DEF vars, selection, loading, SuccessIsEarned, Requested, NamesOf
  <2> QED
    BY <2>1, NextEarned
<1> QED
  BY <1>1, <1>2, LoadingInvariant, PTL DEF Spec
=============================================================================
