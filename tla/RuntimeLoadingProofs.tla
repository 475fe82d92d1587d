------------------------ MODULE RuntimeLoadingProofs -------------------------
(* The safety properties of RuntimeLoading, for every set of manifests and  *)
(* extensions and with or without a required platform init struct.          *)
EXTENDS RuntimeLoading, TLAPS

USE DEF Goto, Trying, PlatformParam

LEMMA TailIsSeq ==
  ASSUME files \in Seq(Manifests), files # <<>>
  PROVE  Tail(files) \in Seq(Manifests) /\ Head(files) \in Manifests
OBVIOUS

(* Whatever is skipped, its library is closed and nothing is installed.     *)
LEMMA SkipKeepsInv ==
  ASSUME LoadingInv, NEW from \in {"init", "negotiate", "late_init"}, Skip(from), initCalls' \in {initCalls, initCalls + 1},
         from = "negotiate" => initCalls' = initCalls
  PROVE  LoadingInv'
<1>1. files # <<>> /\ files \in Seq(Manifests)
  BY DEF LoadingInv, RuntimeLibraryOwned, TypeOK, Skip
<1>2. Tail(files) \in Seq(Manifests) /\ Head(files) \in Manifests
  BY <1>1, TailIsSeq
<1>3. open' = {} /\ installed' = None
  BY DEF LoadingInv, RuntimeLibraryOwned, Skip, runtime
<1>4. initCalls' <= 1 /\ initCalls' \in Nat
  BY DEF LoadingInv, RuntimeInitialisedOnce, TypeOK, Skip, Goto
<1>5. pc' = "try"
  BY DEF Skip
<1> QED
  BY <1>2, <1>3, <1>4, <1>5 DEF LoadingInv, TypeOK, RuntimeLibraryOwned, LoadAnswersTruly,
     ExtensionsAreInstalledOnes, NothingLoadedUninitialised, RuntimeInitialisedOnce, Skip, runtime

LEMMA LoadKeepsInv ==
  ASSUME LoadingInv, Load
  PROVE  LoadingInv'
<1> USE DEF LoadingInv, LoadAnswersTruly, ExtensionsAreInstalledOnes,
            NothingLoadedUninitialised, RuntimeInitialisedOnce, runtime, loading
<1>1. CASE GiveUp
  BY <1>1 DEF GiveUp, TypeOK, RuntimeLibraryOwned
<1>2. CASE OpenFails
  BY <1>2, TailIsSeq DEF OpenFails, TypeOK, RuntimeLibraryOwned
<1>3. CASE OpenLibrary
  <2>1. files \in Seq(Manifests) /\ files # <<>> /\ Library \in Manifests
    BY <1>3, TailIsSeq DEF OpenLibrary, TypeOK, Library
  <2>2. installed = None /\ open = {} /\ pc = "try"
    BY <1>3 DEF OpenLibrary, Step, RuntimeLibraryOwned
  <2>3. open' = {Library} /\ Library' = Library /\ pc' \in {"init", "negotiate"}
    BY <1>3, <2>2 DEF OpenLibrary, Step, Library
  <2>4. PlatformInitRequired => initialized
    BY <2>2
  <2>5. /\ UNCHANGED <<offers, installed, supported, initialized, files, result>>
        /\ forwarded' = FALSE /\ initCalls' = 0
    BY <1>3 DEF OpenLibrary, Step
  <2>6. TypeOK'
    BY <2>1, <2>2, <2>3, <2>5 DEF TypeOK
  <2>7. RuntimeLibraryOwned'
    BY <2>1, <2>2, <2>3, <2>5 DEF RuntimeLibraryOwned
  <2> QED
    BY <2>3, <2>4, <2>5, <2>6, <2>7
<1>4. CASE NotExported \/ ForwardInit
  <2>1. /\ pc = "init" /\ pc' = "negotiate" /\ initCalls = 0
        /\ UNCHANGED <<offers, installed, supported, initialized, files, open, result>>
    BY <1>4 DEF NotExported, ForwardInit, Step
  <2>2. initCalls' \in {0, 1} /\ forwarded' \in BOOLEAN /\ (~forwarded' => initCalls' = 0)
    <3>1. CASE NotExported
      BY <2>1, <3>1 DEF NotExported, TypeOK
    <3>2. CASE ForwardInit
      BY <2>1, <3>2 DEF ForwardInit
    <3> QED
      BY <1>4, <3>1, <3>2
  <2> QED
    BY <2>1, <2>2 DEF TypeOK, RuntimeLibraryOwned, Library
<1>5. CASE ForwardInitFails \/ NegotiateFails \/ LateInitFails
  BY <1>5, SkipKeepsInv DEF ForwardInitFails, NegotiateFails, LateInitFails
<1>6. CASE Negotiate \/ LateInitNotOffered \/ LateInit
  BY <1>6 DEF Negotiate, LateInitNotOffered, LateInit, Step, TypeOK, RuntimeLibraryOwned,
              Library
<1>7. CASE Install
  BY <1>7, TailIsSeq, RuntimeLoadingAssumption
     DEF Install, TypeOK, RuntimeLibraryOwned, Library
<1>8. CASE Query
  BY <1>8, RuntimeLoadingAssumption DEF Query, TypeOK, RuntimeLibraryOwned
<1> QED
  BY <1>1, <1>2, <1>3, <1>4, <1>5, <1>6, <1>7, <1>8 DEF Load

LEMMA CallKeepsInv ==
  ASSUME LoadingInv, \/ LoadAlready \/ LoadRefused \/ FindFails \/ Find
                     \/ Unload \/ Initialize
  PROVE  LoadingInv'
<1> USE DEF LoadingInv, LoadAnswersTruly, ExtensionsAreInstalledOnes,
            NothingLoadedUninitialised, RuntimeInitialisedOnce, runtime, loading
<1>1. CASE LoadAlready \/ LoadRefused \/ FindFails
  BY <1>1 DEF LoadAlready, LoadRefused, FindFails, MayLoad, TypeOK, RuntimeLibraryOwned
<1>2. CASE Find
  <2>1. files' \in Seq(Manifests)
    <3>1. CASE files' = <<>>
      BY <3>1
    <3>2. CASE \E m \in Manifests : files' = <<m>>
      BY <3>2
    <3> QED
      BY <1>2, <3>1, <3>2 DEF Find
  <2>2. installed = None /\ open = {} /\ pc' = "try" /\ (PlatformInitRequired => initialized)
    BY <1>2 DEF Find, MayLoad, RuntimeLibraryOwned
  <2>3. UNCHANGED <<offers, installed, supported, initialized, open, forwarded, initCalls>>
    BY <1>2 DEF Find
  <2>4. result' = "none"
    BY <1>2 DEF Find
  <2> QED
    BY <2>1, <2>2, <2>3, <2>4 DEF TypeOK, RuntimeLibraryOwned
<1>3. CASE Unload \/ Initialize
  BY <1>3 DEF Unload, Initialize, UnloadRuntime, TypeOK, RuntimeLibraryOwned
<1> QED
  BY <1>1, <1>2, <1>3

LEMMA LoadingInit == Init => LoadingInv
<1>1. <<>> \in Seq(Manifests)
  OBVIOUS
<1>2. Init => TypeOK
  <2> SUFFICES ASSUME Init PROVE TypeOK
    OBVIOUS
  <2>1. files \in Seq(Manifests)
    BY <1>1 DEF Init
  <2>2. initCalls \in Nat /\ forwarded \in BOOLEAN /\ initialized \in BOOLEAN
    BY DEF Init
  <2> QED
    BY <2>1, <2>2 DEF Init, TypeOK
<1>3. Init => RuntimeLibraryOwned
  BY DEF Init, RuntimeLibraryOwned
<1>4. Init => /\ LoadAnswersTruly /\ ExtensionsAreInstalledOnes
              /\ NothingLoadedUninitialised /\ RuntimeInitialisedOnce
              /\ pc = "idle"
  BY DEF Init, LoadAnswersTruly, ExtensionsAreInstalledOnes, NothingLoadedUninitialised,
         RuntimeInitialisedOnce
<1> QED
  BY <1>2, <1>3, <1>4 DEF LoadingInv

LEMMA LoadingStep ==
  ASSUME LoadingInv, [Next]_vars
  PROVE  LoadingInv'
<1>1. CASE UNCHANGED vars
  BY <1>1 DEF vars, runtime, loading, LoadingInv, TypeOK, RuntimeLibraryOwned, Library,
              LoadAnswersTruly, ExtensionsAreInstalledOnes, NothingLoadedUninitialised,
              RuntimeInitialisedOnce
<1> QED
  BY <1>1, LoadKeepsInv, CallKeepsInv DEF Next

(* LoadingInv holds throughout every sequence of loads, unloads and         *)
(* initialisations, whatever the runtimes answer.                           *)
THEOREM LoadingInvariant == Spec => []LoadingInv
<1>1. LoadingInv /\ [Next]_vars => LoadingInv'
  BY LoadingStep
<1> QED
  BY <1>1, LoadingInit, PTL DEF Spec

(* No runtime library leaks or is closed in use.                            *)
THEOREM RuntimeLibraryIsOwned == Spec => []RuntimeLibraryOwned
<1>1. LoadingInv => RuntimeLibraryOwned
  BY DEF LoadingInv
<1> QED
  BY <1>1, LoadingInvariant, PTL

(* What LoadRuntime answers is what its callers may rely on.                *)
THEOREM LoadRuntimeAnswersTruly == Spec => []LoadAnswersTruly
<1>1. LoadingInv => LoadAnswersTruly
  BY DEF LoadingInv
<1> QED
  BY <1>1, LoadingInvariant, PTL

(* The extensions instances are checked against are those of the runtime    *)
(* installed.                                                               *)
THEOREM ExtensionsAreFresh == Spec => []ExtensionsAreInstalledOnes
<1>1. LoadingInv => ExtensionsAreInstalledOnes
  BY DEF LoadingInv
<1> QED
  BY <1>1, LoadingInvariant, PTL

(* No runtime is opened before a required xrInitializeLoaderKHR.            *)
THEOREM InitialisedFirst == Spec => []NothingLoadedUninitialised
<1>1. LoadingInv => NothingLoadedUninitialised
  BY DEF LoadingInv
<1> QED
  BY <1>1, LoadingInvariant, PTL

(* No runtime is given the init data twice.                                 *)
THEOREM InitDataGivenOnce == Spec => []RuntimeInitialisedOnce
<1>1. LoadingInv => RuntimeInitialisedOnce
  BY DEF LoadingInv
<1> QED
  BY <1>1, LoadingInvariant, PTL
=============================================================================
