--------------------------- MODULE DiscoveryProofs ---------------------------
(***************************************************************************)
(* With its properties, its enumerations and its initialisation call by    *)
(* call, the loader loads runtimes as RuntimeLoading has it, and the one   *)
(* it loads is the one it was told to.                                     *)
(***************************************************************************)
EXTENDS Discovery, RuntimeLoadingProofs, SequenceLemmas

USE DEF Goto, Trying

LEMMA LoadRuntimeIsNext ==
  ASSUME LoadRuntime
  PROVE  /\ LoadAlready \/ LoadRefused \/ FindFails \/ Find
         /\ pc = "idle" /\ UNCHANGED runtime
BY DEF LoadRuntime, FindNamed, LoadAlready, LoadRefused, FindFails, Find, Goto, runtime

LEMMA LoadIsBusy ==
  ASSUME Load
  PROVE  pc # "idle"
BY DEF Load, GiveUp, OpenFails, OpenLibrary, NotExported, ForwardInit, ForwardInitFails, NegotiateFails,
       Negotiate, LateInitNotOffered, LateInit, LateInitFails, Install, Query, Step, Skip, Goto

(* What an initialisation does to the runtime, in two steps: it unloads it, *)
(* and, if all goes well, marks the loader as initialised.                  *)
LEMMA InitUnloadIsInitialize ==
  ASSUME LoadingInv, InitUnload
  PROVE  /\ Initialize
         /\ pc = "idle" /\ pc' = "idle" /\ result' = "none"
         /\ installed' = None /\ supported' = {} /\ open' = {}
         /\ initPc = "idle" /\ initPc' = "properties"
<1>1. pc = "idle" /\ pc' = "idle"
  BY DEF InitUnload, RuntimeUnused
<1>2. UnloadRuntime /\ result' = "none" /\ UNCHANGED <<initialized, files, forwarded, initCalls>>
  BY DEF InitUnload
<1>3. initialized' = (initialized \/ FALSE)
  <2>1. initialized \in BOOLEAN
    BY DEF LoadingInv, TypeOK
  <2> QED
    BY <1>2, <2>1
<1>4. Initialize
  BY <1>1, <1>2, <1>3 DEF Initialize
<1>5. open' = {}
  BY <1>1, <1>2 DEF LoadingInv, RuntimeLibraryOwned, UnloadRuntime
<1> QED
  BY <1>1, <1>2, <1>4, <1>5 DEF UnloadRuntime, InitUnload, InitGoto

LEMMA InitPlatformIsInitialize ==
  ASSUME InitAlone, InitPlatform
  PROVE  Initialize
<1>1. pc = "idle" /\ pc' = "idle" /\ result' = "none" /\ UNCHANGED <<offers, files, forwarded, initCalls>>
  BY DEF InitAlone, InitPlatform, InitGoto, runtime, loading
<1>2. installed' = None /\ supported' = {} /\ open' = open \ {installed}
  BY DEF InitAlone, InitPlatform, InitGoto, runtime, loading
<1>3. initialized' = (initialized \/ TRUE)
  BY DEF InitPlatform
<1> QED
  BY <1>1, <1>2, <1>3 DEF Initialize, UnloadRuntime

(* Every step is one of RuntimeLoading or leaves its variables alone.       *)
LEMMA StepIsLoading ==
  ASSUME DiscoveryInv, [DNext]_allVars
  PROVE  [Next]_vars
<1>1. CASE CreateLoads
  BY <1>1, LoadRuntimeIsNext DEF CreateLoads, Next
<1>2. CASE LoadStep
  BY <1>2 DEF LoadStep, Next
<1>3. CASE InitUnload
  BY <1>3, InitUnloadIsInitialize DEF DiscoveryInv, Next
<1>4. CASE InitCallStep
  <2>1. CASE InitPlatform
    BY <2>1, InitPlatformIsInitialize DEF DiscoveryInv, Next
  <2>2. CASE UNCHANGED vars
    BY <2>2
  <2> QED
    BY <1>4, <2>1, <2>2 DEF InitCallStep, InitRejects, NoProperties, ClearOverrides, SetOverride,
                            PropertiesSet, InitPlatformFails
<1>5. CASE EnumBegin
  BY <1>5 DEF EnumBegin, Elsewhere
<1>6. CASE EnumStep
  <2>1. CASE EnumLoads
    BY <2>1, LoadRuntimeIsNext DEF EnumLoads, Next
  <2>2. CASE UNCHANGED vars
    BY <2>2
  <2> QED
    BY <1>6, <2>1, <2>2 DEF EnumStep, SkipInvalid, ReadEnable, ReadDisable, ImplicitRead, ReadExplicit,
       ReadEnvironment, ReadNamed, CannotAnswer, AnswerCount, AnswerNoArray, AnswerWrongType,
       AnswerTooSmall, AnswerFull, Answer, EnumReturn, Elsewhere
<1>7. CASE UNCHANGED allVars
  BY <1>7 DEF allVars
<1> QED
  BY <1>1, <1>2, <1>3, <1>4, <1>5, <1>6, <1>7 DEF DNext

-----------------------------------------------------------------------------
LEMMA InitAloneKept ==
  ASSUME DiscoveryInv, [DNext]_allVars
  PROVE  InitAlone'
<1> USE DEF UsesRuntime
<1>1. InitAlone /\ LoadingInv
  BY DEF DiscoveryInv
<1>2. CASE CreateLoads
  <2>1. initPc' = "idle" /\ enumPc' = "idle"
    BY <1>2 DEF CreateLoads, initCall, enum
  <2> QED
    BY <2>1 DEF InitAlone
<1>3. CASE LoadStep
  <2>1. initPc = "idle" /\ UNCHANGED <<initPc, enumPc, call>>
    BY <1>1, <1>3, LoadIsBusy DEF LoadStep, InitAlone, initCall, enum, reading
  <2> QED
    BY <1>1, <2>1 DEF InitAlone
<1>4. CASE InitUnload
  <2>1. UNCHANGED <<enumPc, call>> /\ (enumPc = "idle" \/ call.kind # "extensions")
    BY <1>4 DEF InitUnload, RuntimeUnused, enum, reading
  <2> QED
    BY <1>1, <1>4, <2>1, InitUnloadIsInitialize DEF InitAlone
<1>5. CASE InitCallStep
  <2>1. UNCHANGED <<enumPc, call, pc, installed, supported, open, result>> /\ initPc # "idle"
    BY <1>5 DEF InitCallStep, InitRejects, NoProperties, ClearOverrides, SetOverride, PropertiesSet,
                InitPlatformFails, InitPlatform, InitGoto, enum, reading, vars, runtime, loading
  <2> QED
    BY <1>1, <2>1 DEF InitAlone
<1>6. CASE EnumBegin
  <2>1. UNCHANGED <<pc, installed, supported, open, result, initPc>> /\ enumPc' = "implicit"
    BY <1>6 DEF EnumBegin, EnumGoto, Elsewhere, vars, runtime, loading, initCall
  <2>2. call'.kind = "extensions" => initPc = "idle"
    BY <1>6 DEF EnumBegin
  <2> QED
    BY <1>1, <2>1, <2>2 DEF InitAlone
<1>7. CASE EnumLoads
  <2>1. initPc = "idle" /\ UNCHANGED <<initPc, call>> /\ call.kind = "extensions"
    BY <1>1, <1>7 DEF EnumLoads, EnumGoto, InitAlone, initCall, reading
  <2> QED
    BY <2>1 DEF InitAlone
<1>8. CASE EnumReturn
  <2>1. UNCHANGED <<pc, installed, supported, open, result, initPc>> /\ enumPc' = "idle"
    BY <1>8 DEF EnumReturn, EnumGoto, Elsewhere, vars, runtime, loading, initCall
  <2> QED
    BY <1>1, <2>1 DEF InitAlone
<1>9. CASE EnumStep /\ ~EnumLoads /\ ~EnumReturn
  <2>1. UNCHANGED <<pc, installed, supported, open, result, initPc, call>> /\ enumPc # "idle"
    BY <1>9 DEF EnumStep, SkipInvalid, ReadEnable, ReadDisable, ImplicitRead, ReadExplicit,
       ReadEnvironment, ReadNamed, CannotAnswer, AnswerCount, AnswerNoArray, AnswerWrongType,
       AnswerTooSmall, AnswerFull, CanAnswer, Answer, Ready, EnumGoto, Elsewhere, vars, runtime, loading,
       initCall, reading
  <2>2. enumPc' \in UsesRuntime => enumPc \in UsesRuntime \/ call.kind = "extensions"
    BY <1>9 DEF EnumStep, SkipInvalid, ReadEnable, ReadDisable, ImplicitRead, ReadExplicit,
       ReadEnvironment, ReadNamed, CannotAnswer, AnswerCount, AnswerNoArray, AnswerWrongType,
       AnswerTooSmall, AnswerFull, Answer, EnumGoto
  <2> QED
    BY <1>1, <2>1, <2>2 DEF InitAlone
<1>10. CASE UNCHANGED allVars
  <2>1. UNCHANGED <<pc, installed, supported, open, result, initPc, call, enumPc>>
    BY <1>10 DEF allVars, vars, runtime, loading, initCall, enum, reading
  <2> QED
    BY <1>1, <2>1 DEF InitAlone
<1> QED
  BY <1>2, <1>3, <1>4, <1>5, <1>6, <1>7, <1>8, <1>9, <1>10 DEF DNext, EnumStep

(* A runtime is looked for only while no initialisation runs, under the     *)
(* name that was in force.                                                  *)
LEMMA LoadFollows ==
  ASSUME LoadingInv, FollowsNamed, LoadRuntime \/ Unload \/ Load, UNCHANGED <<NamedRuntime, initPc>>
  PROVE  FollowsNamed'
<1> SUFFICES ASSUME initPc = "idle", NamedRuntime # Empty
             PROVE  /\ pc' # "idle" /\ pc' # "query" => files' \in {<<>>, <<NamedRuntime>>}
                    /\ installed' # None => installed' = NamedRuntime
  BY DEF FollowsNamed
<1>1. /\ pc # "idle" /\ pc # "query" => files \in {<<>>, <<NamedRuntime>>}
      /\ installed # None => installed = NamedRuntime
  BY DEF FollowsNamed
<1>2. CASE LoadRuntime
  BY <1>1, <1>2 DEF LoadRuntime, LoadAlready, LoadRefused, FindNamed, FindFails, Find,
                    MayLoad, NamedRuntime, runtime, loading
<1>3. CASE Unload
  BY <1>3 DEF Unload, UnloadRuntime
<1>4. CASE Install
  <2>1. files = <<NamedRuntime>>
    BY <1>1, <1>4 DEF LoadingInv, RuntimeLibraryOwned, Install
  <2> QED
    BY <1>4, <2>1 DEF Install, Library
<1>5. CASE \/ OpenFails \/ ForwardInitFails \/ NegotiateFails \/ LateInitFails
  <2>1. files = <<NamedRuntime>> /\ files' = Tail(files) /\ UNCHANGED installed
    BY <1>1, <1>5 DEF LoadingInv, RuntimeLibraryOwned, OpenFails, ForwardInitFails, NegotiateFails,
                      LateInitFails, Skip, runtime
  <2> QED
    BY <1>1, <2>1
<1>6. CASE GiveUp \/ Query
  BY <1>1, <1>6 DEF GiveUp, Query, runtime
<1>7. CASE \/ OpenLibrary \/ NotExported \/ ForwardInit \/ Negotiate \/ LateInitNotOffered \/ LateInit
  BY <1>1, <1>7 DEF OpenLibrary, NotExported, ForwardInit, Negotiate, LateInitNotOffered, LateInit, Step,
                    runtime
<1> QED
  BY <1>2, <1>3, <1>4, <1>5, <1>6, <1>7 DEF Load

LEMMA FollowsKept ==
  ASSUME DiscoveryInv, [DNext]_allVars
  PROVE  FollowsNamed'
<1> USE DEF DiscoveryInv
<1>1. CASE CreateLoads \/ LoadStep \/ EnumLoads
  <2>1. UNCHANGED <<NamedRuntime, initPc>>
    BY <1>1 DEF CreateLoads, LoadStep, EnumLoads, store, initCall, NamedRuntime, GetSecure
  <2> QED
    BY <1>1, <2>1, LoadFollows DEF CreateLoads, LoadStep, EnumLoads
<1>2. CASE InitUnload
  BY <1>2, InitUnloadIsInitialize DEF FollowsNamed
<1>3. CASE InitCallStep
  <2>1. pc' = "idle" /\ installed' = None
    BY <1>3 DEF InitCallStep, InitRejects, NoProperties, ClearOverrides, SetOverride, PropertiesSet,
                InitPlatformFails, InitPlatform, InitGoto, InitAlone, vars, runtime, loading
  <2> QED
    BY <2>1 DEF FollowsNamed
<1>4. CASE UNCHANGED <<vars, store, initCall>>
  <2>1. UNCHANGED <<NamedRuntime, initPc, pc, files, installed>>
    BY <1>4 DEF vars, runtime, loading, store, initCall, NamedRuntime, GetSecure
  <2> QED
    BY <2>1 DEF FollowsNamed
<1>5. CASE EnumBegin
  BY <1>4, <1>5 DEF EnumBegin, Elsewhere
<1>6. CASE EnumStep /\ ~EnumLoads
  BY <1>4, <1>6 DEF EnumStep, SkipInvalid, ReadEnable, ReadDisable, ImplicitRead, ReadExplicit,
     ReadEnvironment, ReadNamed, CannotAnswer, AnswerCount, AnswerNoArray, AnswerWrongType,
     AnswerTooSmall, AnswerFull, Answer, EnumReturn, Elsewhere
<1>7. CASE UNCHANGED allVars
  BY <1>4, <1>7 DEF allVars
<1> QED
  BY <1>1, <1>2, <1>3, <1>5, <1>6, <1>7 DEF DNext

-----------------------------------------------------------------------------
(* DiscoveryInv holds however initialisations, creations and enumerations   *)
(* follow or, where they may, overlap one another.                          *)
THEOREM DiscoveryInvariant == DSpec => []DiscoveryInv
<1>1. DInit => DiscoveryInv
  BY LoadingInit DEF DInit, Init, DiscoveryInv, InitAlone, FollowsNamed, UsesRuntime
<1>2. DiscoveryInv /\ [DNext]_allVars => DiscoveryInv'
  <2> SUFFICES ASSUME DiscoveryInv, [DNext]_allVars
               PROVE  DiscoveryInv'
    OBVIOUS
  <2>1. LoadingInv'
    BY StepIsLoading, LoadingStep DEF DiscoveryInv
  <2> QED
    BY <2>1, InitAloneKept, FollowsKept DEF DiscoveryInv
<1> QED
  BY <1>1, <1>2, PTL DEF DSpec

(* The composition implements RuntimeLoading: what is proved there of the   *)
(* runtime's library, extensions and initialisation holds here.             *)
THEOREM DiscoveryImplementsLoading == DSpec => ImplementsLoading
<1>1. DInit => Init
  BY DEF DInit
<1>2. DiscoveryInv /\ [DNext]_allVars => [Next]_vars
  BY StepIsLoading
<1> QED
  BY <1>1, <1>2, DiscoveryInvariant, PTL DEF DSpec, ImplementsLoading, Spec

(* The runtime installed is the one XR_RUNTIME_JSON names.                  *)
THEOREM NamedRuntimeIsUsed == DSpec => []RuntimeFollowsOverride
<1>1. DiscoveryInv => RuntimeFollowsOverride
  BY DEF DiscoveryInv, FollowsNamed, NamedRuntime, RuntimeFollowsOverride
<1> QED
  BY <1>1, DiscoveryInvariant, PTL
-----------------------------------------------------------------------------
(* Keep: what it returns after every file, and its members.                 *)
LEMMA KeptIs ==
  ASSUME NEW T, NEW fs \in Seq(T), NEW S
  PROVE  /\ KeptUpTo(fs, S) \in [0..Len(fs) -> Seq(T)]
         /\ KeptUpTo(fs, S)[0] = <<>>
         /\ \A i \in 1..Len(fs) :
              KeptUpTo(fs, S)[i] = IF fs[i] \in S THEN Append(KeptUpTo(fs, S)[i - 1], fs[i])
                                   ELSE KeptUpTo(fs, S)[i - 1]
<1> DEFINE n == Len(fs)
           none == <<>>
           V == Seq(T)
           step == [i \in 1..n |-> [s \in Seq(T) |-> IF fs[i] \in S THEN Append(s, fs[i]) ELSE s]]
           Is(g) == g = [i \in 0..n |-> IF i = 0 THEN <<>>
                                        ELSE IF fs[i] \in S THEN Append(g[i - 1], fs[i]) ELSE g[i - 1]]
<1>1. n \in Nat /\ none \in V /\ step \in [1..n -> [V -> V]]
  OBVIOUS
<1>2. PICK g : IsRecursion(g, V, none, n, step)
  <2> HIDE DEF n, none, V, step, Is
  <2> QED
    BY <1>1, RecursionExists
<1>3. Is(g)
  <2> USE DEF IsRecursion
  <2>1. \A i \in 0..n : i # 0 => i \in 1..n /\ g[i - 1] \in Seq(T)
    BY <1>1, <1>2
  <2>2. \A i \in 1..n, s \in Seq(T) : step[i][s] = IF fs[i] \in S THEN Append(s, fs[i]) ELSE s
    OBVIOUS
  <2>3. \A i \in 1..n : g[i] = IF fs[i] \in S THEN Append(g[i - 1], fs[i]) ELSE g[i - 1]
    <3>1. \A i \in 1..n : g[i] = step[i][g[i - 1]]
      <4> HIDE DEF n, none, V, step, Is
      <4> QED
        BY <1>2
    <3>2. \A i \in 1..n : g[i - 1] \in Seq(T)
      <4>1. \A i \in 1..n : i \in 0..n /\ i # 0
        OBVIOUS
      <4> HIDE DEF n
      <4> QED
        BY <2>1, <4>1
    <3> HIDE DEF step, Is
    <3> QED
      BY <2>2, <3>1, <3>2
  <2>4. \A i \in 0..n : g[i] = IF i = 0 THEN <<>>
                                ELSE IF fs[i] \in S THEN Append(g[i - 1], fs[i]) ELSE g[i - 1]
    BY <1>2, <2>1, <2>3
  <2>5. g = [i \in 0..n |-> g[i]]
    BY <1>2
  <2> HIDE DEF n
  <2> QED
    BY <2>4, <2>5
<1>4. Is(KeptUpTo(fs, S))
  BY <1>3 DEF KeptUpTo
<1> HIDE DEF n
<1>5. ASSUME NEW f, Is(f)
      PROVE  /\ DOMAIN f = 0..n /\ f = [i \in 0..n |-> f[i]]
             /\ f[0] = <<>>
             /\ \A i \in 1..n : f[i] = IF fs[i] \in S THEN Append(f[i - 1], fs[i]) ELSE f[i - 1]
  <2>1. 0 \in 0..n /\ \A i \in 1..n : i \in 0..n /\ i # 0
    BY <1>1
  <2> QED
    BY <1>5, <2>1
<1>6. ASSUME NEW f, Is(f)
      PROVE  \A i \in 0..n : f[i] \in Seq(T)
  <2> DEFINE R == {k \in Nat : k <= n => f[k] \in Seq(T)}
  <2> HIDE DEF Is
  <2>1. 0 \in R
    <3>1. f[0] = <<>> /\ <<>> \in Seq(T)
      BY <1>5, <1>6
    <3> QED
      BY <3>1
  <2>2. \A k \in Nat : k \in R => k + 1 \in R
    <3> SUFFICES ASSUME NEW k \in Nat, k + 1 <= n, f[k] \in Seq(T)
                 PROVE  f[k + 1] \in Seq(T)
      <4>1. \A k \in Nat : k + 1 <= n => k <= n
        BY <1>1
      <4> QED
        BY <4>1
    <3>1. k + 1 \in 1..n /\ (k + 1) - 1 = k /\ fs[k + 1] \in T
      BY <1>1 DEF n
    <3>2. f[k + 1] = IF fs[k + 1] \in S THEN Append(f[k], fs[k + 1]) ELSE f[k]
      BY <1>5, <1>6, <3>1
    <3> QED
      BY <3>1, <3>2
  <2> HIDE DEF R
  <2>3. Nat \subseteq R
    BY <2>1, <2>2, SetInduction
  <2> QED
    BY <2>3 DEF R
<1> HIDE DEF Is
<1>7. KeptUpTo(fs, S) \in [0..n -> Seq(T)]
  <2> DEFINE h == KeptUpTo(fs, S)
  <2> HIDE DEF h
  <2>1. Is(h)
    BY <1>4 DEF h
  <2>2. DOMAIN h = 0..n /\ h = [i \in 0..n |-> h[i]] /\ \A i \in 0..n : h[i] \in Seq(T)
    BY <2>1, <1>5, <1>6
  <2>3. h \in [0..n -> Seq(T)]
    BY <2>2
  <2> QED
    BY <2>3 DEF h
<1> QED
  BY <1>4, <1>5, <1>7 DEF n

LEMMA KeepMembers ==
  ASSUME NEW T, NEW fs \in Seq(T), NEW S
  PROVE  /\ Keep(fs, S) \in Seq(T)
         /\ ToSet(Keep(fs, S)) = ToSet(fs) \cap S
<1> DEFINE n == Len(fs)
           kept == KeptUpTo(fs, S)
           M(k) == ToSet(kept[k]) = {fs[i] : i \in 1..k} \cap S
           R == {k \in Nat : k <= n => M(k)}
<1>1. /\ kept \in [0..n -> Seq(T)] /\ kept[0] = <<>> /\ n \in Nat
      /\ \A i \in 1..n : kept[i] = IF fs[i] \in S THEN Append(kept[i - 1], fs[i]) ELSE kept[i - 1]
  BY KeptIs
<1> HIDE DEF kept
<1>2. 0 \in R
  BY <1>1 DEF ToSet
<1>3. \A k \in Nat : k \in R => k + 1 \in R
  <2>0. \A k \in Nat : (k \in R <=> (k <= n => M(k))) /\ (k + 1 <= n => k <= n)
    BY <1>1
  <2> HIDE DEF R, M
  <2> SUFFICES ASSUME NEW k \in Nat, k + 1 <= n, M(k)
               PROVE  M(k + 1)
    BY <2>0
  <2> USE DEF M
  <2>1. k + 1 \in 1..n /\ (k + 1) - 1 = k /\ kept[k] \in Seq(T) /\ fs[k + 1] \in T
    <3>1. k + 1 \in 1..n /\ (k + 1) - 1 = k /\ k \in 0..n
      BY <1>1
    <3>2. kept[k] \in Seq(T)
      BY <1>1, <3>1
    <3>3. fs[k + 1] \in T
      BY <3>1
    <3> QED
      BY <3>1, <3>2, <3>3
  <2>2. {fs[i] : i \in 1..(k + 1)} = {fs[i] : i \in 1..k} \cup {fs[k + 1]}
    <3>1. 1..(k + 1) = (1..k) \cup {k + 1}
      OBVIOUS
    <3> QED
      BY <3>1
  <2>3. ToSet(Append(kept[k], fs[k + 1])) = ToSet(kept[k]) \cup {fs[k + 1]}
    BY <2>1, ToSetAppend
  <2>4. kept[k + 1] = IF fs[k + 1] \in S THEN Append(kept[k], fs[k + 1]) ELSE kept[k]
    BY <1>1, <2>1
  <2> QED
    BY <2>2, <2>3, <2>4
<1> HIDE DEF R
<1>4. Nat \subseteq R
  BY <1>2, <1>3, SetInduction
<1>5. ToSet(kept[n]) = {fs[i] : i \in 1..n} \cap S
  BY <1>1, <1>4 DEF R
<1>6. {fs[i] : i \in 1..n} = ToSet(fs)
  BY DEF ToSet
<1> QED
  BY <1>1, <1>5, <1>6 DEF Keep, kept

-----------------------------------------------------------------------------
(* Merge: the entry of ext's name gets the version of the two, or is added, *)
(* and no name appears twice that did not before.                           *)
OncePerName(props) == \A i, j \in DOMAIN props : props[i].name = props[j].name => i = j

LEMMA MergeType ==
  ASSUME NEW props \in Seq(Property), NEW ext \in Property, NEW rule
  PROVE  Merge(props, ext, rule) \in Seq(Property)
<1>1. CASE \E i \in DOMAIN props : props[i].name = ext.name
  <2> DEFINE P(i) == IF props[i].name = ext.name
                       THEN [props[i] EXCEPT !.version = Version(rule, @, ext.version)] ELSE props[i]
  <2>1. \A i \in 1..Len(props) : P(i) \in Property
    <3> SUFFICES ASSUME NEW i \in 1..Len(props)
                 PROVE  P(i) \in Property
      OBVIOUS
    <3>1. props[i] \in Property
      OBVIOUS
    <3>2. Version(rule, props[i].version, ext.version) \in Nat
      BY <3>1 DEF Property, Version
    <3>3. [props[i] EXCEPT !.version = Version(rule, props[i].version, ext.version)] \in Property
      BY <3>1, <3>2 DEF Property
    <3> QED
      BY <3>1, <3>3
  <2>2. Merge(props, ext, rule) = [i \in 1..Len(props) |-> P(i)]
    <3>1. DOMAIN props = 1..Len(props)
      OBVIOUS
    <3> QED
      BY <1>1, <3>1 DEF Merge
  <2> HIDE DEF P
  <2> QED
    BY <2>1, <2>2
<1>2. CASE ~\E i \in DOMAIN props : props[i].name = ext.name
  BY <1>2 DEF Merge
<1> QED
  BY <1>1, <1>2

LEMMA MergeIs ==
  ASSUME NEW props \in Seq(Property), NEW ext \in Property, NEW rule, OncePerName(props)
  PROVE  LET r == Merge(props, ext, rule) IN
         /\ r \in Seq(Property) /\ OncePerName(r)
         /\ \A p \in ToSet(r) :
              \/ p.name # ext.name /\ p \in ToSet(props)
              \/ p = ext /\ \A q \in ToSet(props) : q.name # ext.name
              \/ \E q \in ToSet(props) :
                   q.name = ext.name /\ p = [name |-> ext.name, version |-> Version(rule, q.version, ext.version)]
         /\ \A q \in ToSet(props) : q.name # ext.name => q \in ToSet(r)
         /\ \E p \in ToSet(r) : p.name = ext.name
<1> DEFINE r == Merge(props, ext, rule)
<1>1. CASE \E i \in DOMAIN props : props[i].name = ext.name
  <2>1. PICK k \in 1..Len(props) : props[k].name = ext.name
    BY <1>1
  <2> DEFINE new == [name |-> ext.name, version |-> Version(rule, props[k].version, ext.version)]
  <2>2. DOMAIN r = 1..Len(props) /\ \A i \in 1..Len(props) : r[i] = IF i = k THEN new ELSE props[i]
    <3> DEFINE P(i) == IF props[i].name = ext.name
                         THEN [props[i] EXCEPT !.version = Version(rule, @, ext.version)] ELSE props[i]
    <3>1. DOMAIN props = 1..Len(props)
      OBVIOUS
    <3>2. r = [i \in 1..Len(props) |-> P(i)]
      BY <1>1, <3>1 DEF Merge
    <3>3. \A i \in 1..Len(props) : P(i) = IF i = k THEN new ELSE props[i]
      <4> SUFFICES ASSUME NEW i \in 1..Len(props)
                   PROVE  P(i) = IF i = k THEN new ELSE props[i]
        OBVIOUS
      <4>1. props[i] \in Property
        OBVIOUS
      <4>2. props[i].name = ext.name <=> i = k
        BY <2>1, <3>1 DEF OncePerName
      <4>3. [props[i] EXCEPT !.version = Version(rule, props[i].version, ext.version)]
              = [name |-> props[i].name, version |-> Version(rule, props[i].version, ext.version)]
        BY <4>1 DEF Property
      <4> HIDE DEF Version
      <4> QED
        BY <4>2, <4>3, <2>1
    <3> HIDE DEF P
    <3> QED
      BY <3>2, <3>3
  <2>3. r \in Seq(Property) /\ Len(r) = Len(props)
    <3>1. r \in Seq(Property)
      BY MergeType
    <3> HIDE DEF r, new
    <3> QED
      BY <2>2, <3>1
  <2> HIDE DEF r
  <2>4. \A i \in 1..Len(props) : r[i].name = props[i].name
    BY <2>1, <2>2
  <2>5. OncePerName(r)
    BY <2>2, <2>4 DEF OncePerName
  <2>6. \A i \in 1..Len(props) : r[i] \in ToSet(r) /\ props[i] \in ToSet(props)
    BY <2>2 DEF ToSet
  <2>7. ASSUME NEW p \in ToSet(r)
        PROVE  \/ p.name # ext.name /\ p \in ToSet(props)
               \/ \E q \in ToSet(props) :
                   q.name = ext.name /\ p = [name |-> ext.name, version |-> Version(rule, q.version, ext.version)]
    <3>1. PICK i \in 1..Len(props) : p = r[i]
      BY <2>2 DEF ToSet
    <3>2. CASE i = k
      BY <3>1, <3>2, <2>1, <2>2, <2>6
    <3>3. CASE i # k
      BY <3>1, <3>3, <2>1, <2>2, <2>6 DEF OncePerName
    <3> QED
      BY <3>2, <3>3
  <2>8. ASSUME NEW q \in ToSet(props), q.name # ext.name
        PROVE  q \in ToSet(r)
    <3>1. PICK i \in 1..Len(props) : q = props[i]
      BY DEF ToSet
    <3> QED
      BY <3>1, <2>1, <2>2, <2>6, <2>8
  <2>9. \E p \in ToSet(r) : p.name = ext.name
    BY <2>1, <2>4, <2>6
  <2> QED
    BY <2>3, <2>5, <2>7, <2>8, <2>9 DEF r
<1>2. CASE ~\E i \in DOMAIN props : props[i].name = ext.name
  <2>1. r = Append(props, ext)
    BY <1>2 DEF Merge
  <2>2. ToSet(r) = ToSet(props) \cup {ext}
    BY <2>1, ToSetAppend
  <2>3. r \in Seq(Property)
    BY MergeType
  <2>4. \A q \in ToSet(props) : q.name # ext.name
    BY <1>2 DEF ToSet
  <2>5. OncePerName(r)
    <3>1. DOMAIN r = 1..(Len(props) + 1) /\ r[Len(props) + 1] = ext
          /\ \A i \in 1..Len(props) : r[i] = props[i]
      BY <2>1
    <3>2. DOMAIN props = 1..Len(props)
      OBVIOUS
    <3> HIDE DEF r
    <3> QED
      BY <3>1, <3>2, <1>2 DEF OncePerName
  <2> HIDE DEF r
  <2>6. /\ \A p \in ToSet(r) : \/ p.name # ext.name /\ p \in ToSet(props)
                               \/ p = ext /\ \A q \in ToSet(props) : q.name # ext.name
        /\ \A q \in ToSet(props) : q \in ToSet(r)
        /\ ext \in ToSet(r)
    BY <2>2, <2>4
  <2> QED
    BY <2>3, <2>5, <2>6 DEF r
<1> QED
  BY <1>1, <1>2

(* Sums(props, S): of every name in S, props holds one entry of S with the  *)
(* newest version, and nothing else.                                        *)
Sums(props, S) ==
  /\ props \in Seq(Property) /\ OncePerName(props)
  /\ ToSet(props) \subseteq S
  /\ \A q \in S : \E p \in ToSet(props) : p.name = q.name /\ q.version <= p.version

LEMMA MergeNewest ==
  ASSUME NEW S \in SUBSET Property, NEW props, Sums(props, S), NEW ext \in Property
  PROVE  Sums(Merge(props, ext, "newest"), S \cup {ext})
<1> DEFINE r == Merge(props, ext, "newest")
<1>1. /\ props \in Seq(Property) /\ OncePerName(props) /\ ToSet(props) \subseteq S
      /\ \A q \in S : \E p \in ToSet(props) : p.name = q.name /\ q.version <= p.version
  BY DEF Sums
<1>2. /\ r \in Seq(Property) /\ OncePerName(r)
      /\ \A p \in ToSet(r) :
           \/ p.name # ext.name /\ p \in ToSet(props)
           \/ p = ext /\ \A q \in ToSet(props) : q.name # ext.name
           \/ \E q \in ToSet(props) :
                q.name = ext.name /\ p = [name |-> ext.name, version |-> Version("newest", q.version, ext.version)]
      /\ \A q \in ToSet(props) : q.name # ext.name => q \in ToSet(r)
      /\ \E p \in ToSet(r) : p.name = ext.name
  BY <1>1, MergeIs
<1> HIDE DEF r
<1>3. \A p \in Property : p = [name |-> p.name, version |-> p.version] /\ p.version \in Nat
  BY DEF Property
<1>4. ASSUME NEW p \in ToSet(r)
      PROVE  p \in S \cup {ext}
  <2>1. CASE \E q \in ToSet(props) :
               q.name = ext.name /\ p = [name |-> ext.name, version |-> Version("newest", q.version, ext.version)]
    <3>1. PICK q \in ToSet(props) :
            q.name = ext.name /\ p = [name |-> ext.name, version |-> Version("newest", q.version, ext.version)]
      BY <2>1
    <3>2. p = [name |-> ext.name, version |-> ext.version] \/ p = [name |-> q.name, version |-> q.version]
      BY <3>1 DEF Version
    <3>3. q \in S /\ q \in Property
      BY <1>1
    <3>4. p = ext \/ p = q
      BY <1>3, <3>2, <3>3
    <3> QED
      BY <3>3, <3>4
  <2> QED
    BY <1>1, <1>2, <2>1
<1>5. ASSUME NEW q \in S \cup {ext}
      PROVE  \E p \in ToSet(r) : p.name = q.name /\ q.version <= p.version
  <2>1. CASE q.name # ext.name
    <3>1. PICK p \in ToSet(props) : p.name = q.name /\ q.version <= p.version
      BY <1>1, <2>1
    <3> QED
      BY <1>2, <2>1, <3>1
  <2>2. CASE q.name = ext.name
    <3>1. PICK p \in ToSet(r) : p.name = ext.name
      BY <1>2
    <3>2. \/ p = ext /\ \A x \in ToSet(props) : x.name # ext.name
          \/ \E x \in ToSet(props) :
               x.name = ext.name /\ p = [name |-> ext.name, version |-> Version("newest", x.version, ext.version)]
      BY <1>2, <3>1
    <3>3. CASE p = ext /\ \A x \in ToSet(props) : x.name # ext.name
      <4>1. q = ext
        BY <1>1, <2>2, <3>3
      <4> QED
        BY <1>3, <3>3, <4>1
    <3>4. CASE \E x \in ToSet(props) :
                 x.name = ext.name /\ p = [name |-> ext.name, version |-> Version("newest", x.version, ext.version)]
      <4>1. PICK x \in ToSet(props) :
              x.name = ext.name /\ p = [name |-> ext.name, version |-> Version("newest", x.version, ext.version)]
        BY <3>4
      <4>2. x \in Property /\ x.version \in Nat /\ ext.version \in Nat /\ q.version \in Nat
        BY <1>1, <1>3
      <4>3. q = ext \/ q.version <= x.version
        <5>1. CASE q \in S
          <6>1. PICK y \in ToSet(props) : y.name = q.name /\ q.version <= y.version
            BY <1>1, <5>1
          <6>2. y = x
            <7>1. PICK i \in DOMAIN props : props[i] = x
              BY DEF ToSet
            <7>2. PICK j \in DOMAIN props : props[j] = y
              BY DEF ToSet
            <7> QED
              BY <1>1, <2>2, <4>1, <6>1, <7>1, <7>2 DEF OncePerName
          <6> QED
            BY <6>1, <6>2
        <5> QED
          BY <5>1
      <4>4. p.version = Version("newest", x.version, ext.version)
        BY <4>1
      <4>5. x.version <= p.version /\ ext.version <= p.version /\ p.version \in Nat
        BY <4>2, <4>4 DEF Version
      <4>6. q.version <= p.version
        BY <4>2, <4>3, <4>5
      <4> QED
        BY <2>2, <3>1, <4>6
    <3> QED
      BY <3>2, <3>3, <3>4
  <2> QED
    BY <2>1, <2>2
<1> QED
  BY <1>2, <1>4, <1>5 DEF Sums, r

LEMMA MergeMerged ==
  ASSUME NEW S \in SUBSET Property, NEW props, Sums(props, S), NEW ext \in Property
  PROVE  Sums(Merge(props, ext, "merged"), {p \in S : p.name # ext.name} \cup {ext})
<1> DEFINE r == Merge(props, ext, "merged")
<1>1. /\ props \in Seq(Property) /\ OncePerName(props) /\ ToSet(props) \subseteq S
      /\ \A q \in S : \E p \in ToSet(props) : p.name = q.name /\ q.version <= p.version
  BY DEF Sums
<1>2. /\ r \in Seq(Property) /\ OncePerName(r)
      /\ \A p \in ToSet(r) :
           \/ p.name # ext.name /\ p \in ToSet(props)
           \/ p = ext /\ \A q \in ToSet(props) : q.name # ext.name
           \/ \E q \in ToSet(props) :
                q.name = ext.name /\ p = [name |-> ext.name, version |-> Version("merged", q.version, ext.version)]
      /\ \A q \in ToSet(props) : q.name # ext.name => q \in ToSet(r)
      /\ \E p \in ToSet(r) : p.name = ext.name
  BY <1>1, MergeIs
<1> HIDE DEF r
<1>3. ext = [name |-> ext.name, version |-> ext.version] /\ ext.version \in Nat
  BY DEF Property
<1>4. \A p \in ToSet(r) : p = ext \/ (p.name # ext.name /\ p \in S)
  BY <1>1, <1>2, <1>3 DEF Version
<1>5. ext \in ToSet(r)
  BY <1>2, <1>4
<1>6. ASSUME NEW q \in {p \in S : p.name # ext.name} \cup {ext}
      PROVE  \E p \in ToSet(r) : p.name = q.name /\ q.version <= p.version
  <2>1. CASE q = ext
    BY <1>3, <1>5, <2>1
  <2>2. CASE q \in S /\ q.name # ext.name
    <3>1. PICK p \in ToSet(props) : p.name = q.name /\ q.version <= p.version
      BY <1>1, <2>2
    <3> QED
      BY <1>2, <2>2, <3>1
  <2> QED
    BY <2>1, <2>2
<1> QED
  BY <1>2, <1>4, <1>6 DEF Sums, r

(* MergeAll, entry by entry.                                                *)
LEMMA MergeUpToIs ==
  ASSUME NEW props \in Seq(Property), NEW exts \in Seq(Property), NEW rule
  PROVE  /\ MergeUpTo(props, exts, rule) \in [0..Len(exts) -> Seq(Property)]
         /\ MergeUpTo(props, exts, rule)[0] = props
         /\ \A i \in 1..Len(exts) : MergeUpTo(props, exts, rule)[i] = Merge(MergeUpTo(props, exts, rule)[i - 1], exts[i], rule)
<1> DEFINE n == Len(exts)
           first == props
           V == Seq(Property)
           step == [i \in 1..n |-> [p \in V |-> Merge(p, exts[i], rule)]]
           Is(g) == g = [i \in 0..n |-> IF i = 0 THEN props ELSE Merge(g[i - 1], exts[i], rule)]
<1>1. n \in Nat /\ first \in V /\ step \in [1..n -> [V -> V]]
  BY MergeType
<1>2. PICK g : IsRecursion(g, V, first, n, step)
  <2> HIDE DEF n, first, V, step, Is
  <2> QED
    BY <1>1, RecursionExists
<1>3. Is(g)
  <2> USE DEF IsRecursion
  <2>1. 0 \in 0..n /\ \A i \in 1..n : i \in 0..n /\ i - 1 \in 0..n /\ i # 0
    BY <1>1
  <2>2. g \in [0..n -> V] /\ g[0] = first /\ \A i \in 1..n : g[i] = step[i][g[i - 1]]
    BY <1>2
  <2>3. \A i \in 1..n, p \in V : step[i][p] = Merge(p, exts[i], rule)
    OBVIOUS
  <2>4. \A i \in 0..n : i # 0 => i \in 1..n
    BY <1>1
  <2> HIDE DEF n, V, step
  <2>5. \A i \in 1..n : g[i] = Merge(g[i - 1], exts[i], rule)
    BY <2>1, <2>2, <2>3
  <2>6. g = [i \in 0..n |-> g[i]]
    BY <2>2
  <2> QED
    BY <2>2, <2>4, <2>5, <2>6
<1> DEFINE h == MergeUpTo(props, exts, rule)
<1>4. Is(h)
  BY <1>3 DEF MergeUpTo
<1> HIDE DEF n, h
<1>5. /\ DOMAIN h = 0..n /\ h = [i \in 0..n |-> h[i]]
      /\ h[0] = props
      /\ \A i \in 1..n : h[i] = Merge(h[i - 1], exts[i], rule)
  <2>1. 0 \in 0..n /\ \A i \in 1..n : i \in 0..n /\ i # 0
    BY <1>1
  <2> QED
    BY <1>4, <2>1
<1> HIDE DEF Is, first, step
<1>6. \A i \in 0..n : h[i] \in V
  <2> DEFINE R == {i \in 0..n : h[i] \in V}
  <2>1. 0 \in R
    <3>1. 0 \in 0..n
      BY <1>1
    <3> QED
      BY <1>1, <1>5, <3>1 DEF first
  <2>2. \A k \in 0..(n - 1) : k \in R => k + 1 \in R
    <3> SUFFICES ASSUME NEW k \in 0..(n - 1), h[k] \in V
                 PROVE  k + 1 \in 0..n /\ h[k + 1] \in V
      OBVIOUS
    <3>1. k + 1 \in 0..n /\ k + 1 \in 1..n /\ (k + 1) - 1 = k
      BY <1>1
    <3>2. h[k + 1] = Merge(h[k], exts[k + 1], rule)
      BY <1>5, <3>1
    <3>3. Merge(h[k], exts[k + 1], rule) \in V
      BY <3>1, MergeType DEF n
    <3> QED
      BY <3>1, <3>2, <3>3
  <2> HIDE DEF R
  <2>3. \A k \in 0..n : k \in R
    BY <1>1, <2>1, <2>2, BoundedInduction
  <2> QED
    BY <2>3 DEF R
<1>7. h \in [0..n -> V]
  BY <1>5, <1>6
<1> QED
  BY <1>5, <1>7 DEF n, h

LEMMA MergeAllType ==
  ASSUME NEW props \in Seq(Property), NEW exts \in Seq(Property), NEW rule
  PROVE  MergeAll(props, exts, rule) \in Seq(Property)
<1>1. MergeUpTo(props, exts, rule) \in [0..Len(exts) -> Seq(Property)] /\ Len(exts) \in 0..Len(exts)
  BY MergeUpToIs
<1> QED
  BY <1>1 DEF MergeAll

(* A list merged in by the newest versions.                                 *)
LEMMA MergeAllNewest ==
  ASSUME NEW S \in SUBSET Property, NEW props, Sums(props, S), NEW exts \in Seq(Property)
  PROVE  Sums(MergeAll(props, exts, "newest"), S \cup ToSet(exts))
<1> DEFINE n == Len(exts)
           m == MergeUpTo(props, exts, "newest")
           E(k) == {exts[i] : i \in 1..k}
           R == {k \in 0..n : Sums(m[k], S \cup E(k))}
<1>1. n \in Nat /\ m[0] = props /\ \A i \in 1..n : m[i] = Merge(m[i - 1], exts[i], "newest")
  BY MergeUpToIs DEF Sums
<1> HIDE DEF m
<1>2. 0 \in R
  <2>1. 0 \in 0..n /\ E(0) = {}
    BY <1>1
  <2> HIDE DEF E
  <2> QED
    BY <1>1, <2>1
<1>3. \A k \in 0..(n - 1) : k \in R => k + 1 \in R
  <2> SUFFICES ASSUME NEW k \in 0..(n - 1), Sums(m[k], S \cup E(k))
               PROVE  k + 1 \in 0..n /\ Sums(m[k + 1], S \cup E(k + 1))
    OBVIOUS
  <2>1. k + 1 \in 0..n /\ k + 1 \in 1..n /\ (k + 1) - 1 = k /\ exts[k + 1] \in Property
    BY <1>1
  <2>2. E(k + 1) = E(k) \cup {exts[k + 1]}
    <3>1. 1..(k + 1) = (1..k) \cup {k + 1}
      OBVIOUS
    <3> QED
      BY <3>1
  <2>3. S \cup E(k) \in SUBSET Property
    OBVIOUS
  <2> HIDE DEF E
  <2>4. Sums(Merge(m[k], exts[k + 1], "newest"), (S \cup E(k)) \cup {exts[k + 1]})
    BY <2>1, <2>3, MergeNewest
  <2>5. m[k + 1] = Merge(m[k], exts[k + 1], "newest")
    BY <1>1, <2>1
  <2>6. (S \cup E(k)) \cup {exts[k + 1]} = S \cup E(k + 1)
    BY <2>2
  <2> QED
    BY <2>1, <2>4, <2>5, <2>6
<1> HIDE DEF R
<1>4. n \in R
  <2>1. n \in 0..n
    BY <1>1
  <2> QED
    BY <1>1, <1>2, <1>3, <2>1, BoundedInduction
<1>5. E(n) = ToSet(exts)
  BY DEF ToSet
<1> HIDE DEF E
<1> QED
  BY <1>4, <1>5 DEF R, m, MergeAll

(* A list of the runtime's replaces what the layers gave.                   *)
LEMMA MergeAllMerged ==
  ASSUME NEW S \in SUBSET Property, NEW props, Sums(props, S), NEW exts \in Seq(Property), OncePerName(exts)
  PROVE  Sums(MergeAll(props, exts, "merged"),
              ToSet(exts) \cup {p \in S : \A q \in ToSet(exts) : q.name # p.name})
<1> DEFINE n == Len(exts)
           m == MergeUpTo(props, exts, "merged")
           E(k) == {exts[i] : i \in 1..k}
           Over(T) == T \cup {p \in S : \A q \in T : q.name # p.name}
           R == {k \in 0..n : Sums(m[k], Over(E(k)))}
<1>1. n \in Nat /\ m[0] = props /\ \A i \in 1..n : m[i] = Merge(m[i - 1], exts[i], "merged")
  BY MergeUpToIs DEF Sums
<1> HIDE DEF m
<1>2. 0 \in R
  <2>1. 0 \in 0..n /\ E(0) = {}
    BY <1>1
  <2>2. Over({}) = S
    OBVIOUS
  <2> HIDE DEF E, Over
  <2> QED
    BY <1>1, <2>1, <2>2
<1>3. \A k \in 0..(n - 1) : k \in R => k + 1 \in R
  <2> SUFFICES ASSUME NEW k \in 0..(n - 1), Sums(m[k], Over(E(k)))
               PROVE  k + 1 \in 0..n /\ Sums(m[k + 1], Over(E(k + 1)))
    BY DEF R
  <2> DEFINE ext == exts[k + 1]
  <2>1. k + 1 \in 0..n /\ k + 1 \in 1..n /\ (k + 1) - 1 = k /\ ext \in Property
    BY <1>1
  <2>2. E(k + 1) = E(k) \cup {ext}
    <3>1. 1..(k + 1) = (1..k) \cup {k + 1}
      OBVIOUS
    <3> QED
      BY <3>1
  <2>3. E(k) \subseteq Property /\ \A p \in E(k) : p.name # ext.name
    <3> SUFFICES ASSUME NEW i \in 1..k
                 PROVE  exts[i] \in Property /\ exts[i].name # ext.name
      OBVIOUS
    <3>1. i \in DOMAIN exts /\ k + 1 \in DOMAIN exts /\ i # k + 1
      BY <2>1
    <3> QED
      BY <3>1 DEF OncePerName
  <2>4. Over(E(k)) \in SUBSET Property
    BY <2>3
  <2> HIDE DEF E, ext
  <2>5. {p \in Over(E(k)) : p.name # ext.name} \cup {ext} = Over(E(k + 1))
    BY <2>2, <2>3
  <2> HIDE DEF Over
  <2>6. Sums(Merge(m[k], ext, "merged"), {p \in Over(E(k)) : p.name # ext.name} \cup {ext})
    BY <2>1, <2>4, MergeMerged
  <2>7. m[k + 1] = Merge(m[k], ext, "merged")
    BY <1>1, <2>1 DEF ext
  <2> QED
    BY <2>1, <2>5, <2>6, <2>7
<1> HIDE DEF R
<1>4. n \in R
  <2>1. n \in 0..n
    BY <1>1
  <2> QED
    BY <1>1, <1>2, <1>3, <2>1, BoundedInduction
<1>5. E(n) = ToSet(exts)
  BY DEF ToSet
<1> HIDE DEF E
<1>6. Sums(m[n], Over(ToSet(exts)))
  BY <1>4, <1>5 DEF R
<1> QED
  BY <1>6 DEF m, MergeAll

(* ReadUpTo, file by file.                                                  *)
LEMMA ReadUpToIs ==
  ASSUME NEW fs \in Seq(LayerFiles)
  PROVE  /\ ReadUpTo(fs) \in [0..Len(fs) -> Seq(Property)]
         /\ ReadUpTo(fs)[0] = <<>>
         /\ \A i \in 1..Len(fs) : ReadUpTo(fs)[i] = MergeAll(ReadUpTo(fs)[i - 1], Listing[fs[i]], "newest")
<1> DEFINE n == Len(fs)
           first == <<>>
           V == Seq(Property)
           step == [i \in 1..n |-> [p \in V |-> MergeAll(p, Listing[fs[i]], "newest")]]
           Is(g) == g = [i \in 0..n |-> IF i = 0 THEN <<>> ELSE MergeAll(g[i - 1], Listing[fs[i]], "newest")]
<1>1. n \in Nat /\ first \in V /\ step \in [1..n -> [V -> V]]
  BY MergeAllType, DiscoveryAssumption
<1>2. PICK g : IsRecursion(g, V, first, n, step)
  <2> HIDE DEF n, first, V, step, Is
  <2> QED
    BY <1>1, RecursionExists
<1>3. Is(g)
  <2> USE DEF IsRecursion
  <2>1. 0 \in 0..n /\ \A i \in 1..n : i \in 0..n /\ i - 1 \in 0..n /\ i # 0
    BY <1>1
  <2>2. g \in [0..n -> V] /\ g[0] = first /\ \A i \in 1..n : g[i] = step[i][g[i - 1]]
    BY <1>2
  <2>3. \A i \in 1..n, p \in V : step[i][p] = MergeAll(p, Listing[fs[i]], "newest")
    OBVIOUS
  <2>4. \A i \in 0..n : i # 0 => i \in 1..n
    BY <1>1
  <2> HIDE DEF n, V, step
  <2>5. \A i \in 1..n : g[i] = MergeAll(g[i - 1], Listing[fs[i]], "newest")
    BY <2>1, <2>2, <2>3
  <2>6. g = [i \in 0..n |-> g[i]]
    BY <2>2
  <2> QED
    BY <2>2, <2>4, <2>5, <2>6
<1> DEFINE h == ReadUpTo(fs)
<1>4. Is(h)
  BY <1>3 DEF ReadUpTo
<1> HIDE DEF n, h
<1>5. /\ DOMAIN h = 0..n /\ h = [i \in 0..n |-> h[i]]
      /\ h[0] = <<>>
      /\ \A i \in 1..n : h[i] = MergeAll(h[i - 1], Listing[fs[i]], "newest")
  <2>1. 0 \in 0..n /\ \A i \in 1..n : i \in 0..n /\ i # 0
    BY <1>1
  <2> QED
    BY <1>4, <2>1
<1> HIDE DEF Is, first, step
<1>6. \A i \in 0..n : h[i] \in V
  <2> DEFINE R == {i \in 0..n : h[i] \in V}
  <2>1. 0 \in R
    <3>1. 0 \in 0..n
      BY <1>1
    <3> QED
      BY <1>1, <1>5, <3>1 DEF first
  <2>2. \A k \in 0..(n - 1) : k \in R => k + 1 \in R
    <3> SUFFICES ASSUME NEW k \in 0..(n - 1), h[k] \in V
                 PROVE  k + 1 \in 0..n /\ h[k + 1] \in V
      OBVIOUS
    <3>1. k + 1 \in 0..n /\ k + 1 \in 1..n /\ (k + 1) - 1 = k
      BY <1>1
    <3>2. h[k + 1] = MergeAll(h[k], Listing[fs[k + 1]], "newest")
      BY <1>5, <3>1
    <3>3. MergeAll(h[k], Listing[fs[k + 1]], "newest") \in V
      BY <3>1, MergeAllType, DiscoveryAssumption DEF n
    <3> QED
      BY <3>1, <3>2, <3>3
  <2> HIDE DEF R
  <2>3. \A k \in 0..n : k \in R
    BY <1>1, <2>1, <2>2, BoundedInduction
  <2> QED
    BY <2>3 DEF R
<1>7. h \in [0..n -> V]
  BY <1>5, <1>6
<1> QED
  BY <1>5, <1>7 DEF n, h

LEMMA ListedInType ==
  ASSUME NEW F \in SUBSET LayerFiles
  PROVE  ListedIn(F) \in SUBSET Property
<1> SUFFICES ASSUME NEW f \in F, NEW p \in ToSet(Listing[f])
             PROVE  p \in Property
  BY DEF ListedIn
<1>1. Listing[f] \in Seq(Property)
  BY DiscoveryAssumption
<1> QED
  BY <1>1 DEF ToSet

(* The extensions that files list, each once and in its newest version.     *)
LEMMA LayerPropertiesAre ==
  ASSUME NEW fs \in Seq(LayerFiles)
  PROVE  Sums(LayerProperties(fs), ListedIn(ToSet(fs)))
<1> DEFINE n == Len(fs)
           m == ReadUpTo(fs)
           F(k) == {fs[i] : i \in 1..k}
           R == {k \in 0..n : Sums(m[k], ListedIn(F(k)))}
<1>1. n \in Nat /\ m[0] = <<>> /\ \A i \in 1..n : m[i] = MergeAll(m[i - 1], Listing[fs[i]], "newest")
  BY ReadUpToIs
<1> HIDE DEF m
<1>2. 0 \in R
  <2>1. 0 \in 0..n /\ F(0) = {}
    BY <1>1
  <2>2. ListedIn({}) = {}
    BY DEF ListedIn
  <2>3. Sums(<<>>, {})
    BY DEF Sums, OncePerName, ToSet
  <2> HIDE DEF F
  <2> QED
    BY <1>1, <2>1, <2>2, <2>3
<1>3. \A k \in 0..(n - 1) : k \in R => k + 1 \in R
  <2> SUFFICES ASSUME NEW k \in 0..(n - 1), Sums(m[k], ListedIn(F(k)))
               PROVE  k + 1 \in 0..n /\ Sums(m[k + 1], ListedIn(F(k + 1)))
    OBVIOUS
  <2> DEFINE list == Listing[fs[k + 1]]
  <2>1. k + 1 \in 0..n /\ k + 1 \in 1..n /\ (k + 1) - 1 = k /\ fs[k + 1] \in LayerFiles
    BY <1>1
  <2>2. list \in Seq(Property)
    BY <2>1, DiscoveryAssumption
  <2>3. F(k + 1) = F(k) \cup {fs[k + 1]}
    <3>1. 1..(k + 1) = (1..k) \cup {k + 1}
      OBVIOUS
    <3> QED
      BY <3>1
  <2>4. F(k) \subseteq LayerFiles
    <3>1. \A i \in 1..k : fs[i] \in LayerFiles
      BY <1>1
    <3> QED
      BY <3>1
  <2> HIDE DEF F
  <2>5. ListedIn(F(k)) \in SUBSET Property
    BY <2>4, ListedInType
  <2>6. ListedIn(F(k + 1)) = ListedIn(F(k)) \cup ToSet(list)
    BY <2>3 DEF ListedIn
  <2> HIDE DEF list
  <2>7. Sums(MergeAll(m[k], list, "newest"), ListedIn(F(k)) \cup ToSet(list))
    BY <2>2, <2>5, MergeAllNewest
  <2>8. m[k + 1] = MergeAll(m[k], list, "newest")
    BY <1>1, <2>1 DEF list
  <2> QED
    BY <2>1, <2>6, <2>7, <2>8
<1> HIDE DEF R
<1>4. n \in R
  <2>1. n \in 0..n
    BY <1>1
  <2> QED
    BY <1>1, <1>2, <1>3, <2>1, BoundedInduction
<1>5. F(n) = ToSet(fs)
  BY DEF ToSet
<1> HIDE DEF F
<1> QED
  BY <1>4, <1>5 DEF R, m, LayerProperties

(* The runtime lists each extension it offers once.                         *)
LEMMA RuntimeListingOnce ==
  ASSUME TypeOK, installed # None
  PROVE  RuntimeListing \in Seq(Property) /\ OncePerName(RuntimeListing)
<1> DEFINE X == offers[installed]
           Entry(e) == [name |-> e, version |-> VersionOf[installed][e]]
           O == {Entry(e) : e \in X}
           c == Cardinality(X)
<1>1. X \subseteq Extensions /\ IsFiniteSet(X) /\ \A e \in X : Entry(e) \in Property
  <2>1. installed \in Manifests /\ offers \in [Manifests -> SUBSET Extensions]
    BY DEF TypeOK
  <2>2. X \subseteq Extensions
    BY <2>1
  <2>3. IsFiniteSet(X)
    BY <2>2, FS_Subset, DiscoveryAssumption
  <2>4. \A e \in X : VersionOf[installed][e] \in Nat
    BY <2>1, <2>2, DiscoveryAssumption
  <2> QED
    BY <2>2, <2>3, <2>4 DEF Property
<1>2. c \in Nat /\ ExistsBijection(1..c, X)
  BY <1>1, FS_CardinalityType
<1>3. \A d, e \in X : Entry(d) = Entry(e) => d = e
  OBVIOUS
<1> HIDE DEF X, c, Entry
<1>4. PICK b \in [1..c -> X] : (\A i, j \in 1..c : b[i] = b[j] => i = j) /\ \A e \in X : \E i \in 1..c : b[i] = e
  BY <1>2 DEF ExistsBijection, Bijection, Injection, Surjection, IsInjective
<1> DEFINE g == [i \in 1..c |-> Entry(b[i])]
<1>5. g \in [1..c -> O] /\ (\A i, j \in 1..c : g[i] = g[j] => i = j)
  BY <1>3, <1>4
<1>6. \A x \in O : \E i \in 1..c : g[i] = x
  BY <1>4
<1> HIDE DEF g, O
<1>7. Cardinality(O) = c
  <2>1. g \in Bijection(1..c, O)
    BY <1>5, <1>6 DEF Bijection, Injection, Surjection, IsInjective
  <2>2. ExistsBijection(1..c, O)
    BY <2>1 DEF ExistsBijection
  <2> QED
    BY <1>2, <2>2, FS_CountingElements
<1>8. RuntimeListing = SetToSeq(O)
  BY DEF RuntimeListing, O, X, Entry
<1>9. SetToSeq(O) \in [1..c -> O] /\ IsInjective(SetToSeq(O))
  <2>1. g \in [1..Cardinality(O) -> O] /\ IsInjective(g)
    BY <1>5, <1>7 DEF IsInjective
  <2>2. SetToSeq(O) \in [1..Cardinality(O) -> O] /\ IsInjective(SetToSeq(O))
    BY <2>1 DEF SetToSeq
  <2> QED
    BY <1>7, <2>2
<1>10. O \subseteq Property /\ \A x, y \in O : x.name = y.name => x = y
  BY <1>1 DEF O, Entry
<1> DEFINE s == RuntimeListing
<1>11. s \in [1..c -> O] /\ \A i, j \in 1..c : s[i] = s[j] => i = j
  BY <1>8, <1>9 DEF IsInjective
<1> HIDE DEF s
<1>12. s \in Seq(Property)
  BY <1>2, <1>10, <1>11
<1>13. OncePerName(s)
  BY <1>10, <1>11 DEF OncePerName
<1> QED
  BY <1>12, <1>13 DEF s

(* What Sums says, as a set.                                                *)
LEMMA SumsAre ==
  ASSUME NEW S \in SUBSET Property, NEW props, Sums(props, S)
  PROVE  /\ ToSet(props) = {[name |-> e, version |-> Newest({p \in S : p.name = e})] : e \in {p.name : p \in S}}
         /\ Cardinality(ToSet(props)) = Len(props)
<1> DEFINE Of(e) == {p \in S : p.name = e}
           Entry(e) == [name |-> e, version |-> Newest(Of(e))]
<1>1. /\ props \in Seq(Property) /\ OncePerName(props) /\ ToSet(props) \subseteq S
      /\ \A q \in S : \E p \in ToSet(props) : p.name = q.name /\ q.version <= p.version
  BY DEF Sums
<1>2. \A x, y \in ToSet(props) : x.name = y.name => x = y
  BY <1>1 DEF OncePerName, ToSet
<1>3. \A p \in S : p = [name |-> p.name, version |-> p.version] /\ p.version \in Nat
  BY DEF Property
<1>4. ASSUME NEW p \in ToSet(props)
      PROVE  p = Entry(p.name)
  <2>1. p \in Of(p.name)
    BY <1>1
  <2>2. \A q \in Of(p.name) : q.version <= p.version
    BY <1>1, <1>2
  <2>3. \A q \in Of(p.name) : q.version \in Nat
    BY <1>3
  <2> HIDE DEF Of
  <2>4. Newest(Of(p.name)) = p.version
    <3>1. \A v \in {q.version : q \in Of(p.name)} :
            (\A q \in Of(p.name) : q.version <= v) => v = p.version
      BY <2>1, <2>2, <2>3
    <3>2. p.version \in {q.version : q \in Of(p.name)} /\ \A q \in Of(p.name) : q.version <= p.version
      BY <2>1, <2>2
    <3> QED
      BY <3>1, <3>2 DEF Newest
  <2> QED
    BY <1>1, <1>3, <2>4
<1>5. ASSUME NEW e \in {p.name : p \in S}
      PROVE  Entry(e) \in ToSet(props)
  <2>1. PICK p \in ToSet(props) : p.name = e
    BY <1>1
  <2> QED
    BY <1>4, <2>1
<1>6. ToSet(props) = {Entry(e) : e \in {p.name : p \in S}}
  <2> HIDE DEF Entry
  <2> QED
    BY <1>1, <1>4, <1>5
<1>7. IsInjective(props)
  BY <1>1 DEF OncePerName, IsInjective
<1> QED
  BY <1>1, <1>6, <1>7, InjectiveCardinality

(* What an enumeration of all extensions answers from the files it found.   *)
LEMMA FoundIsExpected ==
  ASSUME TypeOK, installed # None, call.kind = "extensions", manifests \in Seq(LayerFiles),
         ToSet(manifests) = Listed \cup {f \in ToSet(ExplicitFiles) : LayerName[f] \in EnabledNames}
  PROVE  /\ ToSet(Found) = ExpectedExtensions
         /\ Len(Found) = Cardinality(ExpectedExtensions)
<1> DEFINE offered == ToSet(RuntimeListing)
           listed  == ListedIn(Listed \cup {f \in ToSet(ExplicitFiles) : LayerName[f] \in EnabledNames})
           loader  == [name |-> DebugUtils, version |-> LoaderVersion]
           rest    == {p \in listed : \A q \in offered : q.name # p.name}
           all     == (offered \cup rest) \cup {loader}
           Of(e)   == {p \in all : p.name = e}
<1>1. loader \in Property
  BY DiscoveryAssumption DEF Property
<1>2. listed \in SUBSET Property
  <2>1. ToSet(manifests) \subseteq LayerFiles
    BY DEF ToSet
  <2> QED
    BY <2>1, ListedInType
<1>3. offered \in SUBSET Property
  BY RuntimeListingOnce DEF ToSet
<1>4. Sums(LayerProperties(manifests), listed)
  BY LayerPropertiesAre
<1> HIDE DEF listed
<1>5. Sums(WithRuntime(LayerProperties(manifests)), offered \cup rest)
  BY <1>2, <1>4, RuntimeListingOnce, MergeAllMerged DEF WithRuntime
<1>6. all \in SUBSET Property
  BY <1>1, <1>2, <1>3
<1>7. Sums(WithLoader(WithRuntime(LayerProperties(manifests))), all)
  <2>1. offered \cup rest \in SUBSET Property
    BY <1>2, <1>3
  <2> HIDE DEF offered, rest, loader
  <2> QED
    BY <1>1, <1>5, <2>1, MergeNewest DEF WithLoader, loader
<1>8. Sums(Found, all)
  BY <1>7 DEF Found
<1>9. ToSet(Found) = {[name |-> e, version |-> Newest(Of(e))] : e \in {p.name : p \in all}}
      /\ Cardinality(ToSet(Found)) = Len(Found)
  <2> HIDE DEF all
  <2> QED
    BY <1>6, <1>8, SumsAre
<1> DEFINE For(S, e) == {p \in S : p.name = e}
           Known(e) == For({loader}, e) \cup (IF For(offered, e) = {} THEN For(listed, e) ELSE For(offered, e))
<1>10. ExpectedExtensions = {[name |-> e, version |-> Newest(Known(e))] :
                               e \in {p.name : p \in (offered \cup listed \cup {loader})}}
  BY DEF ExpectedExtensions, listed
<1>11. {p.name : p \in all} = {p.name : p \in (offered \cup listed \cup {loader})}
  <2> HIDE DEF loader, offered
  <2>1. ASSUME NEW p \in offered \cup listed \cup {loader}
        PROVE  \E q \in all : q.name = p.name
    OBVIOUS
  <2>2. all \subseteq offered \cup listed \cup {loader}
    OBVIOUS
  <2> HIDE DEF all
  <2> QED
    BY <2>1, <2>2
<1>12. ASSUME NEW e
       PROVE  Known(e) = Of(e)
  <2> HIDE DEF loader, offered
  <2>1. CASE For(offered, e) = {}
    BY <2>1
  <2>2. CASE For(offered, e) # {}
    BY <2>2
  <2> QED
    BY <2>1, <2>2
<1> HIDE DEF all, Known, Of, offered, loader
<1>13. ToSet(Found) = ExpectedExtensions
  BY <1>9, <1>10, <1>11, <1>12
<1> QED
  BY <1>9, <1>13

-----------------------------------------------------------------------------
(* Every step leaves the enumeration alone, disturbs it, or is one of its.  *)
Quiet ==
  /\ UNCHANGED <<store, enum>>
  /\ properties' = properties
  /\ enumPc \notin {"idle", "loading"} => pc' = pc
  /\ enumPc = "return" /\ call.kind = "extensions" => UNCHANGED <<installed, offers>>

LEMMA StepKinds ==
  ASSUME DiscoveryInv, EnumShape, [DNext]_allVars
  PROVE  Quiet \/ ClearOverrides \/ SetOverride \/ EnumBegin \/ EnumStep
<1>1. InitAlone
  BY DEF DiscoveryInv
<1>2. enumPc \notin {"idle", "loading"} => pc = "idle"
  BY DEF EnumShape
<1>3. CASE CreateLoads
  BY <1>3 DEF CreateLoads, Quiet, initCall
<1>4. CASE LoadStep
  <2>1. pc # "idle" /\ UNCHANGED <<store, initCall, enum>>
    BY <1>4, LoadIsBusy DEF LoadStep
  <2> QED
    BY <1>2, <2>1 DEF Quiet, initCall
<1>5. CASE InitUnload
  BY <1>5 DEF InitUnload, RuntimeUnused, Quiet
<1>6. CASE InitRejects \/ NoProperties \/ PropertiesSet \/ InitPlatformFails
  BY <1>6 DEF InitRejects, NoProperties, PropertiesSet, InitPlatformFails, Quiet, vars, runtime
<1>7. CASE InitPlatform
  BY <1>7 DEF InitPlatform, Quiet, runtime
<1>8. CASE UNCHANGED allVars
  BY <1>8 DEF allVars, Quiet, vars, runtime, initCall
<1> QED
  BY <1>3, <1>4, <1>5, <1>6, <1>7, <1>8 DEF DNext, InitCallStep

(* What the environment and the overrides say stays until one of them       *)
(* changes.                                                                 *)
LEMMA StoreSays ==
  ASSUME UNCHANGED store
  PROVE  /\ Listed' = Listed /\ ExplicitFiles' = ExplicitFiles /\ EnabledNames' = EnabledNames
         /\ ExpectedLayers' = ExpectedLayers
         /\ UNCHANGED <<installed, offers>> => ExpectedExtensions' = ExpectedExtensions
<1>1. UNCHANGED <<env, elevated, overrides>>
  BY DEF store
<1>2. Listed' = Listed
  BY <1>1 DEF Listed, IsSet
<1>3. ExplicitFiles' = ExplicitFiles
  BY <1>1 DEF ExplicitFiles, GetSecure, Value
<1>4. EnabledNames' = EnabledNames
  BY <1>1 DEF EnabledNames, Get, Value
<1>5. ASSUME UNCHANGED <<installed, offers>>
      PROVE  ExpectedExtensions' = ExpectedExtensions
  <2>1. RuntimeListing' = RuntimeListing
    BY <1>5 DEF RuntimeListing
  <2> QED
    BY <1>2, <1>3, <1>4, <2>1 DEF ExpectedExtensions
<1> QED
  BY <1>2, <1>3, <1>4, <1>5 DEF ExpectedLayers

LEMMA ExplicitAre ==
  ASSUME PathsKnown
  PROVE  /\ ExplicitFiles \in Seq(LayerFiles)
         /\ \E d \in DOMAIN Explicit : ToSet(ExplicitFiles) \subseteq ToSet(Explicit[d])
<1> DEFINE path == IF elevated THEN Empty ELSE GetSecure("XR_API_LAYER_PATH")
           d == IF path = Empty THEN Default ELSE path
<1>1. path \in Paths
  BY DEF PathsKnown, GetSecure, Value, Paths
<1>2. d \in DOMAIN Explicit
  BY <1>1, DiscoveryAssumption DEF Paths
<1>3. Explicit[d] \in Seq(LayerFiles)
  BY <1>2, DiscoveryAssumption
<1>4. ExplicitFiles = Keep(Explicit[d], Valid)
  BY DEF ExplicitFiles
<1> HIDE DEF d
<1>5. Keep(Explicit[d], Valid) \in Seq(LayerFiles) /\ ToSet(Keep(Explicit[d], Valid)) \subseteq ToSet(Explicit[d])
  BY <1>3, KeepMembers
<1> QED
  BY <1>2, <1>4, <1>5

LEMMA PathsKept ==
  ASSUME DiscoveryInv, EnumShape, PathsKnown, [DNext]_allVars
  PROVE  PathsKnown' /\ env' = env
<1>1. CASE ClearOverrides
  <2>1. overrides' = << >> /\ env' = env /\ properties' \in PropertyLists
    BY <1>1 DEF ClearOverrides
  <2>2. properties' \in Seq(PropertyPairs)
    BY <2>1, DiscoveryAssumption
  <2> QED
    BY <2>1, <2>2 DEF PathsKnown
<1>2. CASE SetOverride
  <2> DEFINE pair == Head(properties)
             V == "XR_API_LAYER_PATH"
  <2>1. properties \in Seq(PropertyPairs) /\ properties # <<>>
    BY <1>2 DEF SetOverride, PathsKnown
  <2>2. pair \in PropertyPairs /\ Tail(properties) \in Seq(PropertyPairs)
    BY <2>1
  <2>3. pair[1] = V => pair[2] \in Paths
    BY <2>2, DiscoveryAssumption
  <2>4. /\ env' = env /\ properties' = Tail(properties)
        /\ overrides' = IF pair[1] \in DOMAIN overrides THEN overrides
                        ELSE [n \in DOMAIN overrides \cup {pair[1]} |-> IF n = pair[1] THEN pair[2] ELSE overrides[n]]
    BY <1>2 DEF SetOverride
  <2> HIDE DEF pair
  <2>5. V \in DOMAIN overrides' => overrides'[V] \in Paths
    BY <2>3, <2>4 DEF PathsKnown
  <2> QED
    BY <2>2, <2>4, <2>5 DEF PathsKnown
<1>3. CASE UNCHANGED <<store, properties>>
  BY <1>3 DEF store, PathsKnown
<1>4. CASE Quiet
  BY <1>3, <1>4 DEF Quiet
<1>5. CASE EnumBegin \/ EnumStep
  <2>1. UNCHANGED <<store, initCall>>
    BY <1>5 DEF EnumBegin, EnumStep, SkipInvalid, ReadEnable, ReadDisable, ImplicitRead, ReadExplicit,
       ReadEnvironment, ReadNamed, EnumLoads, CannotAnswer, AnswerCount, AnswerNoArray, AnswerWrongType,
       AnswerTooSmall, AnswerFull, Answer, EnumReturn, Elsewhere
  <2> QED
    BY <1>3, <2>1 DEF initCall
<1> QED
  BY <1>1, <1>2, <1>4, <1>5, StepKinds

(* Where the enumeration is, and which implicit files it has still to see.  *)
LEMMA LeftIs ==
  ASSUME NEW k \in 0..Len(Implicit)
  PROVE  /\ LeftOf(k) \in Seq(LayerFiles) /\ Len(LeftOf(k)) = Len(Implicit) - k
         /\ LeftOf(k) # <<>> => /\ k + 1 \in 1..Len(Implicit)
                                /\ Head(LeftOf(k)) = Implicit[k + 1]
                                /\ Tail(LeftOf(k)) = LeftOf(k + 1)
<1>1. Implicit \in Seq(LayerFiles)
  BY DiscoveryAssumption
<1>2. LeftOf(k) \in Seq(LayerFiles) /\ Len(LeftOf(k)) = Len(Implicit) - k
  BY <1>1 DEF LeftOf
<1>3. ASSUME LeftOf(k) # <<>>
      PROVE  k + 1 \in 1..Len(Implicit) /\ Head(LeftOf(k)) = Implicit[k + 1]
  BY <1>1, <1>3 DEF LeftOf
<1>4. ASSUME k + 1 \in 1..Len(Implicit)
      PROVE  Tail(LeftOf(k)) = LeftOf(k + 1)
  <2>1. Tail(LeftOf(k)) \in Seq(LayerFiles) /\ Len(Tail(LeftOf(k))) = Len(Implicit) - (k + 1)
    BY <1>1, <1>2, <1>4
  <2>2. LeftOf(k + 1) \in Seq(LayerFiles) /\ Len(LeftOf(k + 1)) = Len(Implicit) - (k + 1)
    BY <1>1, <1>4 DEF LeftOf
  <2>3. \A i \in 1..(Len(Implicit) - (k + 1)) :
          Tail(LeftOf(k))[i] = Implicit[k + 1 + i] /\ LeftOf(k + 1)[i] = Implicit[k + 1 + i]
    BY <1>1, <1>4 DEF LeftOf
  <2> QED
    BY <2>1, <2>2, <2>3
<1> QED
  BY <1>2, <1>3, <1>4

LEMMA ShapeKept ==
  ASSUME DiscoveryInv, EnumShape, PathsKnown, [DNext]_allVars
  PROVE  EnumShape'
<1>1. Implicit \in Seq(LayerFiles) /\ ExplicitFiles \in Seq(LayerFiles) /\ InitAlone
  BY ExplicitAre, DiscoveryAssumption DEF DiscoveryInv
<1>2. CASE UNCHANGED <<left, manifests, call>> /\ enumPc' = enumPc /\ (enumPc \notin {"idle", "loading"} => pc' = pc)
  BY <1>2 DEF EnumShape
<1>3. CASE Quiet
  BY <1>2, <1>3 DEF Quiet, enum, reading
<1>4. CASE ClearOverrides \/ SetOverride
  BY <1>2, <1>4 DEF ClearOverrides, SetOverride, vars, reading
<1>5. CASE EnumBegin
  <2>1. left' = LeftOf(0) /\ 0 \in 0..Len(Implicit)
    BY <1>1, <1>5 DEF EnumBegin, LeftOf
  <2>2. pc = "idle" /\ enumPc' = "implicit" /\ UNCHANGED <<pc, manifests>>
    BY <1>5 DEF EnumBegin, EnumGoto, Elsewhere, vars
  <2> QED
    BY <2>1, <2>2 DEF EnumShape
<1>6. CASE SkipInvalid
  <2>1. PICK k \in 0..Len(Implicit) : left = LeftOf(k)
    BY <1>6 DEF SkipInvalid, EnumGoto, EnumShape
  <2>2. left' = LeftOf(k + 1) /\ k + 1 \in 0..Len(Implicit)
    BY <1>6, <2>1, LeftIs DEF SkipInvalid
  <2>3. enumPc' = "implicit" /\ enumPc = "implicit" /\ UNCHANGED <<pc, manifests, call>>
    BY <1>6 DEF SkipInvalid, EnumGoto, Elsewhere, vars
  <2> QED
    BY <2>2, <2>3 DEF EnumShape
<1>7. CASE ReadEnable
  <2>1. enumPc' = "disable" /\ enumPc = "implicit" /\ UNCHANGED <<pc, manifests, left, call>>
        /\ left # <<>> /\ Head(left) \in Valid
    BY <1>7 DEF ReadEnable, EnumGoto, Elsewhere, vars
  <2> QED
    BY <2>1 DEF EnumShape
<1>8. CASE ReadDisable
  <2>1. PICK k \in 0..Len(Implicit) : left = LeftOf(k) /\ left # <<>>
    BY <1>8 DEF ReadDisable, EnumGoto, EnumShape
  <2>2. left' = LeftOf(k + 1) /\ k + 1 \in 0..Len(Implicit) /\ Head(left) \in LayerFiles
    <3>1. left' = Tail(left)
      BY <1>8 DEF ReadDisable
    <3>2. k + 1 \in 1..Len(Implicit) /\ Head(left) = Implicit[k + 1] /\ Tail(left) = LeftOf(k + 1)
      BY <2>1, LeftIs
    <3> QED
      BY <1>1, <3>1, <3>2
  <2>3. enumPc' = "implicit" /\ enumPc = "disable" /\ UNCHANGED <<pc, call>>
    BY <1>8 DEF ReadDisable, EnumGoto, Elsewhere, vars
  <2>4. manifests' \in Seq(LayerFiles)
    <3>1. manifests \in Seq(LayerFiles) /\ manifests' \in {manifests, Append(manifests, Head(left))}
      BY <1>8 DEF ReadDisable, EnumShape
    <3> QED
      BY <2>2, <3>1
  <2> QED
    BY <2>2, <2>3, <2>4 DEF EnumShape
<1>9. CASE ImplicitRead
  BY <1>9 DEF ImplicitRead, EnumGoto, Elsewhere, vars, reading, EnumShape
<1>10. CASE ReadExplicit
  <2>1. manifests' \in Seq(LayerFiles)
    <3>1. manifests' = manifests \o ExplicitFiles /\ manifests \in Seq(LayerFiles)
      BY <1>10 DEF ReadExplicit, EnumShape
    <3> QED
      BY <1>1, <3>1, ConcatProperties
  <2> QED
    BY <1>10, <2>1 DEF ReadExplicit, EnumGoto, Elsewhere, vars, EnumShape
<1>11. CASE ReadEnvironment
  BY <1>11 DEF ReadEnvironment, EnumGoto, Elsewhere, vars, EnumShape
<1>12. CASE ReadNamed
  <2> DEFINE more == Keep(ExplicitFiles, {f \in LayerFiles : LayerName[f] \in named})
  <2>1. manifests' \in Seq(LayerFiles)
    <3>1. manifests' = manifests \o more /\ manifests \in Seq(LayerFiles)
      BY <1>12 DEF ReadNamed, EnumShape
    <3>2. more \in Seq(LayerFiles)
      BY <1>1, KeepMembers
    <3> HIDE DEF more
    <3> QED
      BY <3>1, <3>2, ConcatProperties
  <2> QED
    BY <1>12, <2>1 DEF ReadNamed, EnumGoto, Elsewhere, vars, EnumShape
<1>13. CASE EnumLoads
  BY <1>13 DEF EnumLoads, EnumGoto, reading, EnumShape
<1>14. CASE CannotAnswer \/ AnswerCount \/ AnswerNoArray \/ AnswerWrongType \/ AnswerTooSmall \/ AnswerFull
  <2>1. Ready /\ enumPc' = "return" /\ UNCHANGED <<pc, manifests, left, call>>
    BY <1>14 DEF CannotAnswer, AnswerCount, AnswerNoArray, AnswerWrongType, AnswerTooSmall, AnswerFull,
                 Answer, Elsewhere, vars, reading
  <2>2. call.kind = "extensions" => pc = "idle"
    BY <1>14 DEF CannotAnswer, AnswerCount, AnswerNoArray, AnswerWrongType, AnswerTooSmall, AnswerFull,
                 CanAnswer
  <2> QED
    BY <2>1, <2>2 DEF Ready, EnumShape
<1>15. CASE EnumReturn
  <2>1. <<>> \in Seq(LayerFiles)
    OBVIOUS
  <2> QED
    BY <1>15, <2>1 DEF EnumReturn, EnumGoto, EnumShape
<1> QED
  BY <1>3, <1>4, <1>5, <1>6, <1>7, <1>8, <1>9, <1>10, <1>11, <1>12, <1>13, <1>14, <1>15, StepKinds DEF EnumStep

(* No file that the environment disables is found in an implicit directory. *)
LEMMA NothingDisabledKept ==
  ASSUME DiscoveryInv, EnumShape, PathsKnown, NothingDisabled, [DNext]_allVars
  PROVE  NothingDisabled'
<1> DEFINE Fine(f) == \/ \E d \in DOMAIN Explicit : f \in ToSet(Explicit[d])
                      \/ DisableVar[f] \notin DOMAIN env
<1>1. env' = env
  BY PathsKept
<1>2. SUFFICES ASSUME NEW f \in ToSet(manifests')
               PROVE  Fine(f)
  BY <1>1 DEF NothingDisabled
<1>3. \A g \in ToSet(manifests) : Fine(g)
  BY DEF NothingDisabled
<1>4. \A g \in ToSet(ExplicitFiles) : Fine(g)
  BY ExplicitAre
<1> HIDE DEF Fine
<1>5. manifests \in Seq(LayerFiles) /\ ExplicitFiles \in Seq(LayerFiles)
  BY ExplicitAre DEF EnumShape
<1>6. CASE manifests' = manifests
  BY <1>2, <1>3, <1>6
<1>7. CASE ReadDisable
  <2>1. CASE manifests' = Append(manifests, Head(left)) /\ ~IsSet(DisableVar[Head(left)])
    <3>1. Fine(Head(left))
      BY <2>1 DEF Fine, IsSet
    <3>2. Head(left) \in LayerFiles
      <4>1. PICK k \in 0..Len(Implicit) : left = LeftOf(k) /\ left # <<>>
        BY <1>7 DEF ReadDisable, EnumGoto, EnumShape
      <4>2. Implicit \in Seq(LayerFiles)
        BY DiscoveryAssumption
      <4> QED
        BY <4>1, <4>2, LeftIs
    <3>3. ToSet(manifests') = ToSet(manifests) \cup {Head(left)}
      BY <2>1, <3>2, <1>5, ToSetAppend
    <3> QED
      BY <1>2, <1>3, <3>1, <3>3
  <2> QED
    BY <1>6, <1>7, <2>1 DEF ReadDisable
<1>8. ASSUME NEW s \in Seq(LayerFiles), manifests' = manifests \o s, ToSet(s) \subseteq ToSet(ExplicitFiles)
      PROVE  Fine(f)
  <2>1. ToSet(manifests \o s) \subseteq ToSet(manifests) \cup ToSet(s)
    BY <1>5, ToSetConcat
  <2> QED
    BY <1>2, <1>3, <1>4, <1>8, <2>1
<1>9. CASE ReadExplicit
  BY <1>5, <1>8, <1>9 DEF ReadExplicit
<1>10. CASE ReadNamed
  <2> DEFINE more == Keep(ExplicitFiles, {g \in LayerFiles : LayerName[g] \in named})
  <2>1. more \in Seq(LayerFiles) /\ ToSet(more) \subseteq ToSet(ExplicitFiles)
    BY <1>5, KeepMembers
  <2>2. manifests' = manifests \o more
    BY <1>10 DEF ReadNamed
  <2> HIDE DEF more
  <2> QED
    BY <1>8, <2>1, <2>2
<1>11. CASE EnumReturn
  BY <1>2, <1>11 DEF EnumReturn, ToSet
<1>12. CASE Quiet \/ ClearOverrides \/ SetOverride \/ EnumBegin
  BY <1>6, <1>12 DEF Quiet, ClearOverrides, SetOverride, EnumBegin, enum, reading
<1>13. CASE EnumStep /\ ~ReadDisable /\ ~ReadExplicit /\ ~ReadNamed /\ ~EnumReturn
  BY <1>6, <1>13 DEF EnumStep, SkipInvalid, ReadEnable, ImplicitRead, ReadEnvironment, EnumLoads, CannotAnswer,
     AnswerCount, AnswerNoArray, AnswerWrongType, AnswerTooSmall, AnswerFull, Answer, reading
<1> QED
  BY <1>7, <1>9, <1>10, <1>11, <1>12, <1>13, StepKinds

(* What has been found, at each step of an enumeration no initialisation    *)
(* overlaps.                                                                *)
LEMMA FoundKept ==
  ASSUME DiscoveryInv, EnumInv, [DNext]_allVars, ~disturbed'
  PROVE  FoundSoFar'
<1> DEFINE all  == Len(Implicit)
           kept == KeptUpTo(Implicit, Listed)
           On(f) == EnableVar[f] = None \/ IsSet(EnableVar[f])
<1>1. /\ EnumShape /\ PathsKnown /\ (~disturbed => FoundSoFar)
      /\ Implicit \in Seq(LayerFiles) /\ ExplicitFiles \in Seq(LayerFiles) /\ all \in Nat
  BY ExplicitAre, DiscoveryAssumption DEF EnumInv
<1>2. /\ kept[0] = <<>>
      /\ \A i \in 1..all : kept[i] = IF Implicit[i] \in Listed THEN Append(kept[i - 1], Implicit[i])
                                     ELSE kept[i - 1]
  BY <1>1, KeptIs
<1>3. \A j \in 0..all : all - (all - j) = j
  BY <1>1
<1> HIDE DEF all, kept, On
<1>4. ASSUME NEW j \in 0..all, left = LeftOf(j)
      PROVE  all - Len(left) = j
  BY <1>3, <1>4, LeftIs DEF all
<1>5. ASSUME NEW j \in 0..all, left' = LeftOf(j)
      PROVE  all - Len(left') = j
  BY <1>3, <1>5, LeftIs DEF all
<1>6. CASE Quiet
  <2>1. UNCHANGED <<store, left, enabled, named, manifests, enumPc, disturbed>>
    BY <1>6 DEF Quiet, enum, reading
  <2>2. UNCHANGED <<env, overrides>> /\ FoundSoFar
    BY <1>1, <2>1 DEF store
  <2>3. IsSet(EnableVar[Head(left)])' = IsSet(EnableVar[Head(left)])
    BY <2>1, <2>2 DEF IsSet
  <2>4. Head(left)' = Head(left) /\ Len(left)' = Len(left)
    BY <2>1
  <2>5. /\ Listed' = Listed /\ ExplicitFiles' = ExplicitFiles /\ EnabledNames' = EnabledNames
        /\ ExpectedLayers' = ExpectedLayers
    BY <2>1, StoreSays
  <2> QED
    BY <2>1, <2>2, <2>3, <2>4, <2>5 DEF FoundSoFar
<1>7. CASE ClearOverrides \/ SetOverride \/ EnumReturn
  <2>1. enumPc' = "idle"
    BY <1>7 DEF ClearOverrides, SetOverride, EnumReturn, EnumGoto
  <2> QED
    BY <2>1 DEF FoundSoFar
<1>8. CASE EnumBegin
  <2>1. left' = LeftOf(0) /\ 0 \in 0..all
    BY <1>1, <1>8 DEF EnumBegin, LeftOf, all
  <2>2. manifests' = <<>> /\ enumPc' = "implicit"
    BY <1>8 DEF EnumBegin, EnumGoto, EnumInv
  <2>3. Listed' = Listed
    BY <1>8, StoreSays DEF EnumBegin, Elsewhere
  <2>4. all - Len(left') = 0
    BY <1>5, <2>1
  <2>5. manifests' = KeptUpTo(Implicit, Listed')[all - Len(left')]
    BY <1>2, <2>2, <2>3, <2>4 DEF kept
  <2> QED
    BY <2>2, <2>5 DEF FoundSoFar, all
<1>9. CASE EnumStep /\ ~EnumReturn
  <2>1. disturbed' = disturbed /\ UNCHANGED store /\ FoundSoFar
    BY <1>1, <1>9 DEF EnumStep, SkipInvalid, ReadEnable, ReadDisable, ImplicitRead, ReadExplicit,
       ReadEnvironment, ReadNamed, EnumLoads, CannotAnswer, AnswerCount, AnswerNoArray, AnswerWrongType,
       AnswerTooSmall, AnswerFull, Answer, Elsewhere
  <2>2. /\ Listed' = Listed /\ ExplicitFiles' = ExplicitFiles /\ EnabledNames' = EnabledNames
        /\ ExpectedLayers' = ExpectedLayers
    BY <2>1, StoreSays
  <2>3. /\ enumPc \in {"implicit", "disable"} => manifests = kept[all - Len(left)]
        /\ enumPc \in {"explicit", "environment", "named"} => manifests = Keep(Implicit, Listed)
    BY <2>1 DEF FoundSoFar, kept, all
  <2>4. \A i \in 1..all : Implicit[i] \in Listed <=>
                            /\ Implicit[i] \in Valid /\ On(Implicit[i]) /\ ~IsSet(DisableVar[Implicit[i]])
    BY <1>1 DEF Listed, On, ToSet, all
  <2>5. Keep(Implicit, Listed) \in Seq(LayerFiles) /\ ToSet(Keep(Implicit, Listed)) = Listed
    <3>1. ToSet(Keep(Implicit, Listed)) = ToSet(Implicit) \cap Listed
      BY <1>1, KeepMembers
    <3> QED
      BY <1>1, <3>1, KeepMembers DEF Listed
  <2>6. CASE SkipInvalid
    <3>1. PICK j \in 0..all : left = LeftOf(j)
      BY <1>1, <2>6 DEF SkipInvalid, EnumGoto, EnumShape, all
    <3>2. /\ j + 1 \in 1..all /\ Head(left) = Implicit[j + 1] /\ left' = LeftOf(j + 1)
          /\ j + 1 \in 0..all /\ (j + 1) - 1 = j
      <4>1. LeftOf(j) # <<>> /\ left' = Tail(LeftOf(j))
        BY <2>6, <3>1 DEF SkipInvalid
      <4>2. j + 1 \in 1..all /\ Head(LeftOf(j)) = Implicit[j + 1] /\ Tail(LeftOf(j)) = LeftOf(j + 1)
        BY <4>1, LeftIs DEF all
      <4>3. j + 1 \in 0..all /\ (j + 1) - 1 = j
        BY <1>1, <4>2
      <4> QED
        BY <3>1, <4>1, <4>2, <4>3
    <3>3. all - Len(left) = j /\ all - Len(left') = j + 1
      BY <1>4, <1>5, <3>1, <3>2
    <3>4. Implicit[j + 1] \notin Listed
      BY <2>4, <2>6, <3>2 DEF SkipInvalid
    <3>5. manifests' = manifests /\ enumPc = "implicit" /\ enumPc' = "implicit"
      BY <2>6 DEF SkipInvalid, EnumGoto
    <3>6. manifests' = kept[all - Len(left')]
      BY <1>2, <2>3, <3>2, <3>3, <3>4, <3>5
    <3> QED
      BY <2>2, <3>5, <3>6 DEF FoundSoFar, kept, all
  <2>7. CASE ReadEnable
    <3>1. /\ UNCHANGED <<manifests, left>> /\ enumPc = "implicit" /\ enumPc' = "disable"
          /\ enabled' = On(Head(left)) /\ UNCHANGED store
      BY <2>1, <2>7 DEF ReadEnable, EnumGoto, On
    <3>2. enabled' = (EnableVar[Head(left')] = None \/ IsSet(EnableVar[Head(left)])')
      BY <3>1 DEF On, IsSet, store
    <3>3. manifests' = KeptUpTo(Implicit, Listed')[all - Len(left')]
      BY <2>2, <2>3, <3>1 DEF kept
    <3> QED
      BY <3>1, <3>2, <3>3 DEF FoundSoFar, all
  <2>8. CASE ReadDisable
    <3>1. PICK j \in 0..all : left = LeftOf(j) /\ left # <<>>
      BY <1>1, <2>8 DEF ReadDisable, EnumGoto, EnumShape, all
    <3>2. left' = Tail(left)
      BY <2>8 DEF ReadDisable
    <3>3. /\ j + 1 \in 1..all /\ Head(left) = Implicit[j + 1] /\ left' = LeftOf(j + 1)
          /\ j + 1 \in 0..all /\ (j + 1) - 1 = j
      <4>1. LeftOf(j) # <<>> /\ left' = Tail(LeftOf(j))
        BY <3>1, <3>2
      <4>2. j + 1 \in 1..all /\ Head(LeftOf(j)) = Implicit[j + 1] /\ Tail(LeftOf(j)) = LeftOf(j + 1)
        BY <4>1, LeftIs DEF all
      <4>3. j + 1 \in 0..all /\ (j + 1) - 1 = j
        BY <1>1, <4>2
      <4> QED
        BY <3>1, <4>1, <4>2, <4>3
    <3>4. all - Len(left) = j /\ all - Len(left') = j + 1
      BY <1>4, <1>5, <3>1, <3>3
    <3>5. enumPc = "disable" /\ enumPc' = "implicit" /\ Head(left) \in Valid
      BY <1>1, <2>8 DEF ReadDisable, EnumGoto, EnumShape
    <3>6. enabled = On(Head(left))
      BY <2>1, <3>5 DEF FoundSoFar, On
    <3>7. Implicit[j + 1] \in Listed <=> enabled /\ ~IsSet(DisableVar[Head(left)])
      BY <2>4, <3>3, <3>5, <3>6
    <3>8. manifests' = IF enabled /\ ~IsSet(DisableVar[Head(left)]) THEN Append(manifests, Head(left))
                       ELSE manifests
      BY <2>8 DEF ReadDisable
    <3>9. manifests = kept[j]
      BY <2>3, <3>4, <3>5
    <3>10. kept[j + 1] = IF Implicit[j + 1] \in Listed THEN Append(kept[j], Implicit[j + 1]) ELSE kept[j]
      BY <1>2, <3>3
    <3>11. manifests' = kept[all - Len(left')]
      BY <3>3, <3>4, <3>7, <3>8, <3>9, <3>10
    <3> QED
      BY <2>2, <3>5, <3>11 DEF FoundSoFar, kept, all
  <2>9. CASE ImplicitRead
    <3>1. /\ left = <<>> /\ UNCHANGED manifests /\ enumPc = "implicit"
          /\ enumPc' \in {"environment", "explicit"}
      BY <2>9 DEF ImplicitRead, EnumGoto, reading
    <3>2. all - Len(left) = all
      BY <1>1, <3>1
    <3>3. manifests' = Keep(Implicit, Listed')
      BY <2>2, <2>3, <3>1, <3>2 DEF Keep, kept, all
    <3> QED
      BY <3>1, <3>3 DEF FoundSoFar
  <2>10. CASE ReadExplicit
    <3>1. manifests' = ExpectedLayers /\ enumPc' = "answer"
      BY <2>3, <2>10 DEF ReadExplicit, EnumGoto, ExpectedLayers
    <3> QED
      BY <2>2, <3>1 DEF FoundSoFar
  <2>11. CASE ReadEnvironment
    <3>1. /\ UNCHANGED manifests /\ named' = EnabledNames /\ manifests = Keep(Implicit, Listed)
          /\ enumPc' = IF EnabledNames = {} THEN "runtime" ELSE "named"
      BY <2>3, <2>11 DEF ReadEnvironment, EnumGoto
    <3>2. CASE EnabledNames = {}
      <4>1. ToSet(manifests') = Listed \cup {f \in ToSet(ExplicitFiles) : LayerName[f] \in EnabledNames}
        BY <2>5, <3>1, <3>2
      <4> QED
        BY <2>2, <3>1, <3>2, <4>1 DEF FoundSoFar
    <3>3. CASE EnabledNames # {}
      BY <2>2, <3>1, <3>3 DEF FoundSoFar
    <3> QED
      BY <3>2, <3>3
  <2>12. CASE ReadNamed
    <3> DEFINE more == Keep(ExplicitFiles, {f \in LayerFiles : LayerName[f] \in named})
    <3>1. /\ manifests' = manifests \o more /\ enumPc' = "runtime"
          /\ manifests = Keep(Implicit, Listed) /\ named = EnabledNames
      BY <2>1, <2>12 DEF ReadNamed, EnumGoto, FoundSoFar
    <3>2. more \in Seq(LayerFiles) /\ ToSet(more) = ToSet(ExplicitFiles) \cap {f \in LayerFiles : LayerName[f] \in named}
      BY <1>1, KeepMembers
    <3>3. ToSet(ExplicitFiles) \subseteq LayerFiles
      BY <1>1 DEF ToSet
    <3> HIDE DEF more
    <3>4. ToSet(manifests') = Listed \cup ToSet(more)
      BY <2>5, <3>1, <3>2, ToSetConcat
    <3>5. ToSet(manifests') = Listed \cup {f \in ToSet(ExplicitFiles) : LayerName[f] \in EnabledNames}
      BY <3>1, <3>2, <3>3, <3>4
    <3> QED
      BY <2>2, <3>1, <3>5 DEF FoundSoFar
  <2>13. CASE EnumLoads
    <3>1. UNCHANGED manifests /\ enumPc = "runtime" /\ enumPc' = "loading"
      BY <2>13 DEF EnumLoads, EnumGoto, reading
    <3> QED
      BY <2>1, <2>2, <3>1 DEF FoundSoFar
  <2>14. CASE CannotAnswer \/ AnswerCount \/ AnswerNoArray \/ AnswerWrongType \/ AnswerTooSmall \/ AnswerFull
    <3>1. enumPc' = "return"
      BY <2>14 DEF CannotAnswer, AnswerCount, AnswerNoArray, AnswerWrongType, AnswerTooSmall, AnswerFull,
                   Answer
    <3> QED
      BY <3>1 DEF FoundSoFar
  <2> QED
    BY <1>9, <2>6, <2>7, <2>8, <2>9, <2>10, <2>11, <2>12, <2>13, <2>14 DEF EnumStep
<1> QED
  BY <1>1, <1>6, <1>7, <1>8, <1>9, StepKinds

(* The answer, when it is given and until the enumeration returns.          *)
LEMMA AnswerKept ==
  ASSUME DiscoveryInv, EnumInv, [DNext]_allVars
  PROVE  AnswerIsComplete'
<1> DEFINE Layers(a) == a.result # "validation" =>
             a.count = Len(ExpectedLayers) /\ a.written \in {<<>>, ExpectedLayers}
           Exts(a) == a.result \in {"success", "size_insufficient"} =>
             /\ a.count = Cardinality(ExpectedExtensions)
             /\ a.written = <<>> \/ ToSet(a.written) = ExpectedExtensions
<1>1. EnumShape /\ PathsKnown /\ (~disturbed => FoundSoFar) /\ AnswerIsComplete
  BY DEF EnumInv
<1>2. CASE Quiet
  <2>1. UNCHANGED <<store, call, answer, enumPc, disturbed>>
    BY <1>2 DEF Quiet, enum, reading
  <2>2. ExpectedLayers' = ExpectedLayers
    BY <2>1, StoreSays
  <2>3. enumPc = "return" /\ call.kind = "extensions" => ExpectedExtensions' = ExpectedExtensions
    BY <1>2, <2>1, StoreSays DEF Quiet
  <2> QED
    BY <1>1, <2>1, <2>2, <2>3 DEF AnswerIsComplete
<1>3. CASE ClearOverrides \/ SetOverride
  BY <1>3 DEF ClearOverrides, SetOverride, AnswerIsComplete
<1>4. CASE EnumBegin
  BY <1>4 DEF EnumBegin, EnumGoto, AnswerIsComplete
<1>5. CASE \/ SkipInvalid \/ ReadEnable \/ ReadDisable \/ ImplicitRead \/ ReadExplicit \/ ReadEnvironment
           \/ ReadNamed \/ EnumLoads \/ EnumReturn
  BY <1>5 DEF SkipInvalid, ReadEnable, ReadDisable, ImplicitRead, ReadExplicit, ReadEnvironment, ReadNamed,
     EnumLoads, EnumReturn, EnumGoto, AnswerIsComplete
<1>6. CASE CannotAnswer \/ AnswerCount \/ AnswerNoArray \/ AnswerWrongType \/ AnswerTooSmall \/ AnswerFull
  <2>1. /\ Ready /\ UNCHANGED <<vars, store, call, disturbed>>
    BY <1>6 DEF CannotAnswer, AnswerCount, AnswerNoArray, AnswerWrongType, AnswerTooSmall, AnswerFull,
                Answer, Elsewhere, reading
  <2>2. ExpectedLayers' = ExpectedLayers /\ ExpectedExtensions' = ExpectedExtensions
    BY <2>1, StoreSays DEF vars, runtime
  <2>3. ASSUME call.kind = "layers", ~disturbed
        PROVE  Layers(answer')
    <3>1. enumPc = "answer" /\ manifests = ExpectedLayers
      BY <1>1, <2>1, <2>3 DEF Ready, FoundSoFar
    <3>2. Found = ExpectedLayers
      BY <2>3, <3>1 DEF Found
    <3>3. ~CannotAnswer
      BY <2>3 DEF CannotAnswer
    <3> QED
      BY <1>6, <2>3, <3>2, <3>3 DEF AnswerCount, AnswerNoArray, AnswerWrongType, AnswerTooSmall, AnswerFull, Answer
  <2>4. ASSUME call.kind = "extensions", ~disturbed
        PROVE  Exts(answer')
    <3>1. enumPc = "loading"
          /\ ToSet(manifests) = Listed \cup {f \in ToSet(ExplicitFiles) : LayerName[f] \in EnabledNames}
      BY <1>1, <2>1, <2>4 DEF Ready, FoundSoFar
    <3>2. TypeOK /\ LoadAnswersTruly /\ manifests \in Seq(LayerFiles)
      BY <1>1 DEF DiscoveryInv, LoadingInv, EnumShape
    <3>3. CASE CannotAnswer
      <4>1. answer'.result \in {"none", "initialization_failed", "unavailable"}
        BY <2>4, <3>2, <3>3 DEF CannotAnswer, Answer, TypeOK
      <4> QED
        BY <4>1
    <3>4. CASE CanAnswer
      <4>1. installed # None
        BY <2>4, <3>2, <3>4 DEF CanAnswer, LoadAnswersTruly
      <4>2. ToSet(Found) = ExpectedExtensions /\ Len(Found) = Cardinality(ExpectedExtensions)
        BY <2>4, <3>1, <3>2, <4>1, FoundIsExpected
      <4>3. CASE AnswerNoArray \/ AnswerWrongType
        BY <2>4, <4>3 DEF AnswerNoArray, AnswerWrongType, Answer
      <4>4. CASE AnswerCount \/ AnswerTooSmall \/ AnswerFull
        BY <4>2, <4>4 DEF AnswerCount, AnswerTooSmall, AnswerFull, Answer
      <4> QED
        BY <1>6, <2>4, <3>3, <4>3, <4>4
    <3> QED
      BY <1>6, <3>3, <3>4 DEF AnswerCount, AnswerNoArray, AnswerWrongType, AnswerTooSmall, AnswerFull
  <2> QED
    BY <2>1, <2>2, <2>3, <2>4 DEF AnswerIsComplete
<1> QED
  BY <1>1, <1>2, <1>3, <1>4, <1>5, <1>6, StepKinds DEF EnumStep

(* EnumInv holds of every enumeration, overlapped by initialisations or     *)
(* not.                                                                     *)
THEOREM EnumInvariant == DSpec => []EnumInv
<1>1. DInit => EnumInv
  <2> SUFFICES ASSUME DInit
               PROVE  EnumInv
    OBVIOUS
  <2>1. /\ enumPc = "idle" /\ manifests = <<>> /\ properties = <<>> /\ overrides = << >>
        /\ env \in Environments
    BY DEF DInit
  <2>2. <<>> \in Seq(LayerFiles) /\ <<>> \in Seq(PropertyPairs) /\ ToSet(<<>>) = {}
    BY DEF ToSet
  <2>3. PathsKnown
    BY <2>1, <2>2, DiscoveryAssumption DEF PathsKnown
  <2> QED
    BY <2>1, <2>2, <2>3 DEF EnumInv, EnumShape, NothingDisabled, FoundSoFar, AnswerIsComplete
<1>2. DiscoveryInv /\ EnumInv /\ [DNext]_allVars => EnumInv'
  <2> SUFFICES ASSUME DiscoveryInv, EnumInv, [DNext]_allVars
               PROVE  EnumInv'
    OBVIOUS
  <2>1. enumPc' = "idle" => manifests' = <<>>
    <3>1. EnumShape /\ (enumPc = "idle" => manifests = <<>>)
      BY DEF EnumInv
    <3>2. CASE Quiet \/ ClearOverrides \/ SetOverride
      BY <3>1, <3>2 DEF Quiet, ClearOverrides, SetOverride, enum, reading
    <3>3. CASE EnumBegin
      BY <3>3 DEF EnumBegin, EnumGoto
    <3>4. CASE EnumStep
      BY <3>4 DEF EnumStep, SkipInvalid, ReadEnable, ReadDisable, ImplicitRead, ReadExplicit,
       ReadEnvironment, ReadNamed, EnumLoads, CannotAnswer, AnswerCount, AnswerNoArray, AnswerWrongType,
       AnswerTooSmall, AnswerFull, Answer, EnumReturn, EnumGoto
    <3> QED
      BY <3>1, <3>2, <3>3, <3>4, StepKinds
  <2>2. EnumShape' /\ PathsKnown' /\ NothingDisabled'
    BY ShapeKept, PathsKept, NothingDisabledKept DEF EnumInv
  <2> QED
    BY <2>1, <2>2, FoundKept, AnswerKept DEF EnumInv
<1> QED
  BY <1>1, <1>2, DiscoveryInvariant, PTL DEF DSpec

(* Every enumeration that no initialisation overlaps reports every layer    *)
(* that is enabled, or every extension once and in the version that counts. *)
THEOREM EnumerationIsComplete == DSpec => []AnswerIsComplete
<1>1. EnumInv => AnswerIsComplete
  BY DEF EnumInv
<1> QED
  BY <1>1, EnumInvariant, PTL

(* A layer that the environment disables is never found, overlapped by      *)
(* initialisations or not.                                                  *)
THEOREM DisabledNeverFound == DSpec => []DisabledStaysDisabled
<1>1. EnumInv => DisabledStaysDisabled
  <2> SUFFICES ASSUME EnumInv, NEW f \in ToSet(manifests) \cap OnlyImplicit
               PROVE  DisableVar[f] \notin DOMAIN env
    BY DEF DisabledStaysDisabled
  <2> QED
    BY DEF EnumInv, NothingDisabled, OnlyImplicit
<1> QED
  BY <1>1, EnumInvariant, PTL
=============================================================================
