--------------------------- MODULE RuntimeLoading ----------------------------
(***************************************************************************)
(* RuntimeInterface::LoadRuntime, TryLoadingSingleRuntime and              *)
(* UnloadRuntime: how the one runtime library is found, opened, told of    *)
(* the platform's init data, negotiated with and installed, over any       *)
(* sequence of loads, unloads and xrInitializeLoaderKHR calls.             *)
(*                                                                         *)
(* The callers hold the loader's mutex, or run alone (LoaderCore), so the  *)
(* calls follow one another.  Runtimes are external: what their functions  *)
(* answer is any of the outcomes the loader tells apart, and the manifests *)
(* found may differ from one search to the next.                           *)
(***************************************************************************)
EXTENDS Naturals, FiniteSets, Sequences

CONSTANTS
  Manifests,           \* runtime manifest files
  Extensions,          \* instance extensions
  None,                \* no runtime
  PlatformInitRequired \* XR_HAS_REQUIRED_PLATFORM_LOADER_INIT_STRUCT is defined

ASSUME RuntimeLoadingAssumption ==
  /\ None \notin Manifests
  /\ PlatformInitRequired \in BOOLEAN

VARIABLES
  offers,      \* per manifest: the extensions its runtime enumerates
  installed,   \* RuntimeInterface::GetInstance(), named by its manifest
  supported,   \* its _supported_extensions
  initialized, \* LoaderInitData::_initialized
  files,       \* runtime_manifest_files from the one being tried on
  open,        \* manifests whose library is open
  forwarded,   \* forwardedInitLoader
  initCalls,   \* calls of xrInitializeLoaderKHR in the library opened last
  result,      \* what the last call, if it was LoadRuntime, returned
  pc           \* the next step

loading == <<files, open, forwarded, initCalls>>
runtime == <<offers, installed, supported>>
vars    == <<runtime, initialized, loading, result, pc>>

Trying == {"init", "negotiate", "late_init", "install"}

Init ==
  /\ offers \in [Manifests -> SUBSET Extensions]
  /\ installed = None
  /\ supported = {}
  /\ initialized = FALSE
  /\ files = <<>>
  /\ open = {}
  /\ forwarded = FALSE
  /\ initCalls = 0
  /\ result = "none"
  /\ pc = "idle"

Goto(from, to) == pc = from /\ pc' = to

(* LoaderInitData::getPlatformParam() is not nullptr: it returns the       *)
(* address of a member, initialised or not.                                *)
PlatformParam == PlatformInitRequired

-----------------------------------------------------------------------------
(* LoadRuntime                                                             *)

LoadAlready ==
  /\ installed # None
  /\ Goto("idle", "idle")
  /\ result' = "success"
  /\ UNCHANGED <<runtime, initialized, loading>>

LoadRefused ==
  /\ installed = None /\ PlatformInitRequired /\ ~initialized
  /\ Goto("idle", "idle")
  /\ result' = "initialization_failed"
  /\ UNCHANGED <<runtime, initialized, loading>>

(* Seeded defect: xrInitializeLoaderKHR is not required.                   *)
MayLoadUninitialised == installed = None

MayLoad == installed = None /\ (PlatformInitRequired => initialized)

FindFails ==
  /\ MayLoad
  /\ Goto("idle", "idle")
  /\ result' = "unavailable"
  /\ UNCHANGED <<runtime, initialized, loading>>

(* FindManifestFiles yields one file on every platform, or none when it    *)
(* does not parse as a runtime manifest.                                   *)
Find ==
  /\ MayLoad
  /\ Goto("idle", "try")
  /\ files' \in {<<>>} \cup {<<m>> : m \in Manifests}
  /\ result' = "none"
  /\ UNCHANGED <<runtime, initialized, open, forwarded, initCalls>>

(* No manifest is left: whatever the last failure was, the runtime is      *)
(* unavailable.                                                            *)
GiveUp ==
  /\ files = <<>>
  /\ Goto("try", "idle")
  /\ result' = "unavailable"
  /\ UNCHANGED <<runtime, initialized, loading>>

-----------------------------------------------------------------------------
(* TryLoadingSingleRuntime of Head(files)                                  *)

Library == Head(files)

Step(from, to) ==
  /\ Goto(from, to)
  /\ UNCHANGED <<runtime, initialized, files, result>>

(* Seeded defect: the library of a runtime that is skipped stays open.     *)
SkipLeaking(from) ==
  /\ Goto(from, "try")
  /\ files' = Tail(files)
  /\ UNCHANGED <<runtime, initialized, open, forwarded, result>>

(* Seeded defect: the manifest just skipped is tried again.                *)
SkipAgain(from) ==
  /\ Goto(from, "try")
  /\ open' = open \ {Library}
  /\ UNCHANGED <<runtime, initialized, files, forwarded, result>>

(* Close the library and go on with the next manifest.                     *)
Skip(from) ==
  /\ Goto(from, "try")
  /\ open' = open \ {Library}
  /\ files' = Tail(files)
  /\ UNCHANGED <<runtime, initialized, forwarded, result>>

OpenFails ==
  /\ files # <<>>
  /\ Goto("try", "try")
  /\ files' = Tail(files)
  /\ UNCHANGED <<runtime, initialized, open, forwarded, initCalls, result>>

OpenLibrary ==
  /\ files # <<>>
  /\ Step("try", IF initialized /\ PlatformParam THEN "init" ELSE "negotiate")
  /\ open' = open \cup {Library}
  /\ forwarded' = FALSE
  /\ initCalls' = 0

NotExported ==
  /\ Step("init", "negotiate")
  /\ UNCHANGED <<open, forwarded, initCalls>>

(* Seeded defect: forwardedInitLoader stays false.                         *)
ForwardInitUnrecorded ==
  /\ Step("init", "negotiate")
  /\ initCalls' = initCalls + 1
  /\ UNCHANGED <<open, forwarded>>

ForwardInit ==
  /\ Step("init", "negotiate")
  /\ forwarded' = TRUE
  /\ initCalls' = initCalls + 1
  /\ UNCHANGED open

ForwardInitFails ==
  /\ Skip("init")
  /\ initCalls' = initCalls + 1

(* The function is missing, it fails, it returns no getInstanceProcAddr,   *)
(* or a version the loader does not know.                                  *)
NegotiateFails ==
  /\ Skip("negotiate")
  /\ UNCHANGED initCalls

Negotiate ==
  /\ Step("negotiate", IF ~forwarded /\ PlatformParam THEN "late_init" ELSE "install")
  /\ UNCHANGED <<open, forwarded, initCalls>>

(* The runtime's xrGetInstanceProcAddr does not know xrInitializeLoaderKHR. *)
LateInitNotOffered ==
  /\ Step("late_init", "install")
  /\ UNCHANGED <<open, forwarded, initCalls>>

LateInit ==
  /\ Step("late_init", "install")
  /\ initCalls' = initCalls + 1
  /\ UNCHANGED <<open, forwarded>>

(* The call fails, or was offered as a null pointer and is not made.       *)
LateInitFails ==
  /\ Skip("late_init")
  /\ initCalls' \in {initCalls, initCalls + 1}

(* Seeded defect: RuntimeInterface::GetInstance() is not set.              *)
InstallForgotten ==
  /\ Goto("install", "idle")
  /\ files' = <<>>
  /\ result' = "success"
  /\ UNCHANGED <<runtime, initialized, open, forwarded, initCalls>>

(* GetInstance().reset(new RuntimeInterface(...))                          *)
Install ==
  /\ Goto("install", "query")
  /\ installed' = Library
  /\ supported' = {}
  /\ UNCHANGED <<offers, initialized, loading, result>>

(* Seeded defect: the runtime's extensions are not recorded.               *)
QueryIgnored ==
  /\ Goto("query", "idle")
  /\ files' = <<>>
  /\ result' = "success"
  /\ UNCHANGED <<runtime, initialized, open, forwarded, initCalls>>

(* SetSupportedExtensions to what the runtime enumerates; the loop ends.   *)
Query ==
  /\ Goto("query", "idle")
  /\ supported' = offers[installed]
  /\ files' = <<>>
  /\ result' = "success"
  /\ UNCHANGED <<offers, installed, initialized, open, forwarded, initCalls>>

-----------------------------------------------------------------------------
(* UnloadRuntime, alone and from InitializeLoaderInitData                  *)

UnloadRuntime ==
  /\ installed' = None
  /\ supported' = {}
  /\ open' = open \ {installed}
  /\ UNCHANGED offers

Unload ==
  /\ installed # None
  /\ Goto("idle", "idle")
  /\ UnloadRuntime
  /\ result' = "none"
  /\ UNCHANGED <<initialized, files, forwarded, initCalls>>

(* With no active instance; a failure leaves _initialized as it was.       *)
Initialize ==
  \E ok \in BOOLEAN :
    /\ Goto("idle", "idle")
    /\ UnloadRuntime
    /\ initialized' = (initialized \/ ok)
    /\ result' = "none"
    /\ UNCHANGED <<files, forwarded, initCalls>>

-----------------------------------------------------------------------------

Load ==
  \/ GiveUp \/ OpenFails \/ OpenLibrary \/ NotExported \/ ForwardInit \/ ForwardInitFails
  \/ NegotiateFails \/ Negotiate \/ LateInitNotOffered \/ LateInit \/ LateInitFails
  \/ Install \/ Query

Next ==
  \/ LoadAlready \/ LoadRefused \/ FindFails \/ Find \/ Load
  \/ Unload \/ Initialize

Spec == Init /\ [][Next]_vars

-----------------------------------------------------------------------------
(* Properties                                                              *)

TypeOK ==
  /\ offers \in [Manifests -> SUBSET Extensions]
  /\ installed \in Manifests \cup {None}
  /\ supported \subseteq Extensions
  /\ initialized \in BOOLEAN
  /\ files \in Seq(Manifests)
  /\ open \subseteq Manifests
  /\ forwarded \in BOOLEAN
  /\ initCalls \in Nat
  /\ result \in {"none", "success", "initialization_failed", "unavailable"}
  /\ pc \in Trying \cup {"idle", "try", "query"}

(* The library of the installed runtime, or else the one being tried, is   *)
(* open, and no other: none leaks when a runtime is skipped, and none is   *)
(* closed under the RuntimeInterface that calls into it.                   *)
RuntimeLibraryOwned ==
  /\ pc = "idle" => open = {installed} \ {None}
  /\ pc = "query" => installed \in Manifests /\ open = {installed}
  /\ pc = "try" => installed = None /\ open = {}
  /\ pc \in Trying => installed = None /\ files # <<>> /\ open = {Library}

(* LoadRuntime succeeds exactly if a runtime is installed afterwards: its  *)
(* callers use RuntimeInterface::GetRuntime() on success without a check.  *)
LoadAnswersTruly ==
  pc = "idle" /\ result # "none" => (result = "success" <=> installed # None)

(* The extensions xrCreateInstance accepts on the runtime's behalf are     *)
(* those of the runtime installed, not of one that was there before.       *)
ExtensionsAreInstalledOnes ==
  pc = "idle" /\ installed # None => supported = offers[installed]

(* Where the platform requires xrInitializeLoaderKHR no runtime library is *)
(* opened before it succeeded.                                             *)
NothingLoadedUninitialised == PlatformInitRequired /\ open # {} => initialized

(* A runtime is given the init data at most once per opening, whichever    *)
(* way it offers xrInitializeLoaderKHR ("where possible and if we did not  *)
(* do so before", runtime_interface.cpp:161).                              *)
RuntimeInitialisedOnce == initCalls <= 1

(* The inductive invariant behind the safety properties above.             *)
LoadingInv ==
  /\ TypeOK /\ RuntimeLibraryOwned /\ LoadAnswersTruly /\ ExtensionsAreInstalledOnes
  /\ NothingLoadedUninitialised /\ RuntimeInitialisedOnce
  /\ pc # "idle" /\ PlatformInitRequired => initialized
  /\ pc \in {"init", "late_init"} => initCalls = 0
  /\ pc = "negotiate" /\ ~forwarded => initCalls = 0
=============================================================================
