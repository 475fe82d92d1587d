------------------------------ MODULE Discovery -------------------------------
(***************************************************************************)
(* How the loader finds things: environment variables and the property     *)
(* overrides that take precedence over them (loader_properties.cpp), the   *)
(* manifests of API layers and the runtime's (manifest_file.cpp), and the  *)
(* two enumerations that report what was found (api_layer_interface.cpp,   *)
(* loader_core.cpp), composed with RuntimeLoading.                         *)
(*                                                                         *)
(* Enumerations and creations hold the loader's mutex, so one of them runs *)
(* at a time.  xrInitializeLoaderKHR takes no lock.  It overlaps no call   *)
(* that uses the runtime (LoaderCore, InitSerialised), but its overrides   *)
(* are set one by one while an enumeration of layers reads them.  No       *)
(* instance is active.  Files and variables do not change.                 *)
(***************************************************************************)
EXTENDS RuntimeLoading, SequencesExt

CONSTANTS
  Environments, \* the environment: functions from some variables to values
  PropertyLists,\* of XrLoaderInitInfoPropertiesEXT: <<name, value>> pairs
  Implicit,     \* files of the implicit directories, in search order
  Explicit,     \* per list of directories, Default among them: its files
  Default,      \* the directories searched without an override
  Empty,        \* the empty string
  Valid,        \* layer files with all fields and an existing library
  LayerName,    \* per layer file
  EnableVar,    \* per layer file: "enable_environment", or None
  DisableVar,   \* per layer file: "disable_environment"
  Listing,      \* per layer file: its "instance_extensions"
  VersionOf,    \* per runtime: the version of each extension
  DebugUtils,   \* XR_EXT_debug_utils
  LoaderVersion,\* XR_EXT_debug_utils_SPEC_VERSION
  MaxCapacity   \* bound on propertyCapacityInput

LayerFiles == ToSet(Implicit) \cup UNION {ToSet(Explicit[d]) : d \in DOMAIN Explicit}
Paths == DOMAIN Explicit \cup {Empty} \* the values of XR_API_LAYER_PATH
PropertyPairs == UNION {ToSet(list) : list \in PropertyLists}
Property == [name : Extensions, version : Nat]

ASSUME DiscoveryAssumption ==
  /\ Implicit \in Seq(LayerFiles)
  /\ \A d \in DOMAIN Explicit : Explicit[d] \in Seq(LayerFiles)
  /\ Default \in DOMAIN Explicit /\ Empty \notin DOMAIN Explicit
  /\ \A e \in Environments :
       "XR_API_LAYER_PATH" \in DOMAIN e => e["XR_API_LAYER_PATH"] \in Paths
  /\ PropertyLists \subseteq Seq(PropertyPairs)
  /\ \A p \in PropertyPairs : p[1] = "XR_API_LAYER_PATH" => p[2] \in Paths
  /\ Valid \subseteq LayerFiles
  /\ \A f \in LayerFiles : Listing[f] \in Seq(Property)
  /\ VersionOf \in [Manifests -> [Extensions -> Nat]]
  /\ IsFiniteSet(Extensions) /\ DebugUtils \in Extensions /\ LoaderVersion \in Nat
  /\ MaxCapacity \in Nat

VARIABLES
  env,       \* the environment
  elevated,  \* does the process run with more rights than its user?
  overrides, \* GetOverrideProperties()
  properties,\* propertyValues still to be set
  initPc,    \* the next step of xrInitializeLoaderKHR
  call,      \* the enumeration in progress: what it asks for
  left,      \* implicit files not looked at yet
  enabled,   \* "enabled" of the file being read
  named,     \* env_enabled_layers
  manifests, \* manifest_files
  answer,    \* what the enumeration returns
  enumPc,    \* the next step of the enumeration
  disturbed  \* have overrides changed during the enumeration?

store    == <<env, elevated, overrides>>
initCall == <<properties, initPc>>
reading  == <<call, left, enabled, named, manifests>>
enum     == <<reading, answer, enumPc, disturbed>>
allVars  == <<vars, store, initCall, enum>>

(* The files of fs that are in S, in their order.                          *)
KeptUpTo(fs, S) ==
  LET kept[i \in 0..Len(fs)] ==
        IF i = 0 THEN <<>>
        ELSE IF fs[i] \in S THEN Append(kept[i - 1], fs[i]) ELSE kept[i - 1]
  IN kept
Keep(fs, S) == KeptUpTo(fs, S)[Len(fs)]

NoCall == [kind |-> "none", layer |-> None]
NoAnswer == [result |-> "none", count |-> 0, written |-> <<>>]

DInit ==
  /\ Init
  /\ env \in Environments
  /\ elevated \in BOOLEAN
  /\ overrides = << >>
  /\ properties = <<>> /\ initPc = "idle"
  /\ call = NoCall /\ left = <<>> /\ enabled = FALSE /\ named = {} /\ manifests = <<>>
  /\ answer = NoAnswer /\ enumPc = "idle"
  /\ disturbed = FALSE

-----------------------------------------------------------------------------
(* LoaderProperty: each is one step, under its own mutex.                  *)

Value(f, name) == IF name \in DOMAIN f THEN f[name] ELSE Empty

Get(name) == IF name \in DOMAIN overrides THEN overrides[name] ELSE Value(env, name)

GetSecure(name) ==
  IF name \in DOMAIN overrides THEN overrides[name]
  ELSE IF elevated THEN Empty ELSE Value(env, name)

(* Seeded defect: an empty override hides that the variable is set.        *)
IsSetNonempty(name) == Get(name) # Empty

IsSet(name) == name \in DOMAIN overrides \cup DOMAIN env

-----------------------------------------------------------------------------
(* xrInitializeLoaderKHR                                                   *)

InitGoto(from, to) == initPc = from /\ initPc' = to

(* The runtime is in no one's use.                                         *)
RuntimeUnused == pc = "idle" /\ (enumPc = "idle" \/ call.kind # "extensions")

(* Seeded defect: the runtime loaded before stays.                         *)
InitKeepsRuntime ==
  /\ RuntimeUnused
  /\ InitGoto("idle", "properties")
  /\ UNCHANGED <<vars, store, properties, enum>>

InitUnload ==
  /\ RuntimeUnused
  /\ InitGoto("idle", "properties")
  /\ UnloadRuntime
  /\ result' = "none"
  /\ UNCHANGED <<initialized, files, forwarded, initCalls, pc>>
  /\ UNCHANGED <<store, properties, enum>>

(* A null name, a null value or an empty name among the properties: None.  *)
InitRejects ==
  /\ \E list \in PropertyLists : \E i \in DOMAIN list : list[i][1] = None
  /\ InitGoto("properties", "idle")
  /\ UNCHANGED <<vars, store, properties, enum>>

NoProperties ==
  /\ InitGoto("properties", "platform")
  /\ UNCHANGED <<vars, store, properties, enum>>

ClearOverrides ==
  \E list \in PropertyLists :
    /\ \A i \in DOMAIN list : list[i][1] # None
    /\ InitGoto("properties", "override")
    /\ overrides' = << >>
    /\ properties' = list
    /\ disturbed' = (enumPc # "idle")
    /\ UNCHANGED <<vars, env, elevated, reading, answer, enumPc>>

(* unordered_map::insert: the first value given for a name stays.          *)
SetOverride ==
  LET name == Head(properties)[1] IN
  /\ properties # <<>>
  /\ InitGoto("override", "override")
  /\ overrides' = IF name \in DOMAIN overrides THEN overrides
                  ELSE [n \in DOMAIN overrides \cup {name} |->
                          IF n = name THEN Head(properties)[2] ELSE overrides[n]]
  /\ properties' = Tail(properties)
  /\ disturbed' = (enumPc # "idle")
  /\ UNCHANGED <<vars, env, elevated, reading, answer, enumPc>>

PropertiesSet ==
  /\ properties = <<>>
  /\ InitGoto("override", "platform")
  /\ UNCHANGED <<vars, store, properties, enum>>

(* The platform's structure is missing or has no pointers: what was set    *)
(* stays in force.                                                         *)
InitPlatformFails ==
  /\ PlatformInitRequired
  /\ InitGoto("platform", "idle")
  /\ UNCHANGED <<vars, store, properties, enum>>

InitPlatform ==
  /\ InitGoto("platform", "idle")
  /\ initialized' = TRUE
  /\ UNCHANGED <<runtime, loading, result, pc, store, properties, enum>>

-----------------------------------------------------------------------------
(* LoadRuntime, with the file FindManifestFiles settles on                 *)

(* Seeded defect: the default runtime is tried after the named one.        *)
FindThenDefault ==
  LET file == GetSecure("XR_RUNTIME_JSON") IN
  IF file = Empty THEN Find \/ FindFails
  ELSE
    /\ MayLoad
    /\ Goto("idle", "try")
    /\ files' \in {<<file, other>> : other \in Manifests}
    /\ result' = "none"
    /\ UNCHANGED <<runtime, initialized, open, forwarded, initCalls>>

FindNamed ==
  LET file == GetSecure("XR_RUNTIME_JSON") IN
  IF file = Empty THEN Find \/ FindFails
  ELSE Find /\ files' \in {<<>>, <<file>>}

LoadRuntime == LoadAlready \/ LoadRefused \/ FindNamed

(* As part of an xrCreateInstance, whose failure may unload it again.      *)
CreateLoads ==
  /\ enumPc = "idle" /\ initPc = "idle"
  /\ LoadRuntime \/ Unload
  /\ UNCHANGED <<store, initCall, enum>>

LoadStep == Load /\ UNCHANGED <<store, initCall, enum>>

-----------------------------------------------------------------------------
(* ApiLayerManifestFile::FindManifestFiles                                 *)

EnumGoto(from, to) == enumPc = from /\ enumPc' = to
Elsewhere == <<vars, store, initCall>>

EnumBegin ==
  \E c \in {[kind |-> k, layer |-> None] : k \in {"layers", "extensions"}}
           \cup [kind : {"layer"}, layer : {LayerName[f] : f \in LayerFiles}] :
    /\ pc = "idle"
    /\ c.kind = "extensions" => initPc = "idle"
    /\ EnumGoto("idle", "implicit")
    /\ call' = c
    /\ left' = Implicit
    /\ disturbed' = FALSE
    /\ UNCHANGED <<Elsewhere, enabled, named, manifests, answer>>

SkipInvalid ==
  /\ left # <<>> /\ Head(left) \notin Valid
  /\ EnumGoto("implicit", "implicit")
  /\ left' = Tail(left)
  /\ UNCHANGED <<Elsewhere, call, enabled, named, manifests, answer, disturbed>>

ReadEnable ==
  /\ left # <<>> /\ Head(left) \in Valid
  /\ EnumGoto("implicit", "disable")
  /\ enabled' = (EnableVar[Head(left)] = None \/ IsSet(EnableVar[Head(left)]))
  /\ UNCHANGED <<Elsewhere, call, left, named, manifests, answer, disturbed>>

ReadDisable ==
  /\ EnumGoto("disable", "implicit")
  /\ manifests' = IF enabled /\ ~IsSet(DisableVar[Head(left)]) THEN Append(manifests, Head(left))
                  ELSE manifests
  /\ left' = Tail(left)
  /\ enabled' = FALSE
  /\ UNCHANGED <<Elsewhere, call, named, answer, disturbed>>

ImplicitRead ==
  /\ left = <<>>
  /\ EnumGoto("implicit", IF call.kind = "extensions" THEN "environment" ELSE "explicit")
  /\ UNCHANGED <<Elsewhere, reading, answer, disturbed>>

(* XR_API_LAYER_PATH replaces the directories of explicit layers; a        *)
(* process with more rights than its user heeds neither the variable nor   *)
(* its override.                                                           *)
ExplicitFiles ==
  LET path == IF elevated THEN Empty ELSE GetSecure("XR_API_LAYER_PATH") IN
  Keep(Explicit[IF path = Empty THEN Default ELSE path], Valid)

ReadExplicit ==
  /\ EnumGoto("explicit", "answer")
  /\ manifests' = manifests \o ExplicitFiles
  /\ UNCHANGED <<Elsewhere, call, left, enabled, named, answer, disturbed>>

(* AddEnvironmentApiLayers: a value is the set of names it lists.          *)
EnabledNames ==
  LET value == Get("XR_ENABLE_API_LAYERS") IN IF value = Empty THEN {} ELSE value

ReadEnvironment ==
  /\ EnumGoto("environment", IF EnabledNames = {} THEN "runtime" ELSE "named")
  /\ named' = EnabledNames
  /\ UNCHANGED <<Elsewhere, call, left, enabled, manifests, answer, disturbed>>

ReadNamed ==
  /\ EnumGoto("named", "runtime")
  /\ manifests' = manifests \o Keep(ExplicitFiles, {f \in LayerFiles : LayerName[f] \in named})
  /\ named' = {}
  /\ UNCHANGED <<Elsewhere, call, left, enabled, answer, disturbed>>

EnumLoads ==
  /\ EnumGoto("runtime", "loading")
  /\ LoadRuntime
  /\ UNCHANGED <<store, initCall, reading, answer, disturbed>>

-----------------------------------------------------------------------------
(* The lists of properties                                                 *)

(* The version that stays: the one merged in, or the newest of the two.    *)
Version(rule, old, new) == IF rule = "merged" \/ old < new THEN new ELSE old

(* The entry of that name gets the version of the two, or is added.        *)
Merge(props, ext, rule) ==
  IF \E i \in DOMAIN props : props[i].name = ext.name
    THEN [i \in DOMAIN props |->
            IF props[i].name = ext.name
              THEN [props[i] EXCEPT !.version = Version(rule, @, ext.version)] ELSE props[i]]
    ELSE Append(props, ext)

MergeUpTo(props, exts, rule) ==
  LET merged[i \in 0..Len(exts)] ==
        IF i = 0 THEN props ELSE Merge(merged[i - 1], exts[i], rule)
  IN merged
MergeAll(props, exts, rule) == MergeUpTo(props, exts, rule)[Len(exts)]

(* ManifestFile::GetInstanceExtensionProperties of each file: the newest.  *)
ReadUpTo(fs) ==
  LET read[i \in 0..Len(fs)] ==
        IF i = 0 THEN <<>> ELSE MergeAll(read[i - 1], Listing[fs[i]], "newest")
  IN read
LayerProperties(fs) == ReadUpTo(fs)[Len(fs)]

RuntimeListing ==
  SetToSeq({[name |-> e, version |-> VersionOf[installed][e]] : e \in offers[installed]})

(* RuntimeInterface::GetInstanceExtensionProperties: the runtime's.        *)
WithRuntime(props) == MergeAll(props, RuntimeListing, "merged")

(* Seeded defect: the loader's is added whether or not it is there.        *)
WithLoaderTwice(props) ==
  Append(props, [name |-> DebugUtils, version |-> LoaderVersion])

WithLoader(props) == Merge(props, [name |-> DebugUtils, version |-> LoaderVersion], "newest")

Named == {i \in DOMAIN manifests : LayerName[manifests[i]] = call.layer}
First(S) == CHOOSE i \in S : \A j \in S : i <= j

Found ==
  CASE call.kind = "layers" -> manifests
    [] call.kind = "layer" -> LayerProperties(<<manifests[First(Named)]>>)
    [] OTHER -> WithLoader(WithRuntime(LayerProperties(manifests)))

-----------------------------------------------------------------------------
(* The two-call idiom: the caller's capacity, whether there is an array,   *)
(* and how many elements from the first on have the right type.            *)

Ready == enumPc = IF call.kind = "extensions" THEN "loading" ELSE "answer"

Answer(r, n, list) ==
  /\ Ready
  /\ answer' = [result |-> r, count |-> n, written |-> list]
  /\ enumPc' = "return"
  /\ UNCHANGED <<Elsewhere, reading, disturbed>>

CannotAnswer ==
  \/ call.kind = "layer" /\ Named = {} /\ Answer("layer_not_present", 0, <<>>)
  \/ call.kind = "extensions" /\ pc = "idle" /\ result # "success" /\ Answer(result, 0, <<>>)

CanAnswer ==
  /\ Ready
  /\ call.kind = "layer" => Named # {}
  /\ call.kind = "extensions" => pc = "idle" /\ result = "success"

AnswerCount ==
  /\ CanAnswer
  /\ Answer("success", Len(Found), <<>>)

AnswerNoArray ==
  /\ CanAnswer
  /\ Answer("validation", IF call.kind = "layers" THEN Len(Found) ELSE 0, <<>>)

(* LoaderXrEnumerateInstanceExtensionProperties finds a wrong type while   *)
(* writing, GetApiLayerProperties before it reads anything.                *)
AnswerWrongType ==
  \E capacity \in 1..MaxCapacity : \E right \in 0..(capacity - 1) :
    /\ CanAnswer
    /\ IF call.kind = "layers" THEN Answer("validation", 0, <<>>)
       ELSE /\ capacity >= Len(Found) /\ right < Len(Found)
            /\ Answer("validation", 0, SubSeq(Found, 1, right))

AnswerTooSmall ==
  \E capacity \in 1..MaxCapacity :
    /\ CanAnswer
    /\ capacity < Len(Found)
    /\ Answer("size_insufficient", Len(Found), <<>>)

AnswerFull ==
  \E capacity \in 1..MaxCapacity :
    /\ CanAnswer
    /\ capacity >= Len(Found)
    /\ Answer("success", Len(Found), Found)

EnumReturn ==
  /\ EnumGoto("return", "idle")
  /\ call' = NoCall /\ manifests' = <<>> /\ answer' = NoAnswer /\ disturbed' = FALSE
  /\ UNCHANGED <<Elsewhere, left, enabled, named>>

-----------------------------------------------------------------------------
InitCallStep ==
  \/ InitRejects \/ NoProperties \/ ClearOverrides \/ SetOverride \/ PropertiesSet
  \/ InitPlatformFails \/ InitPlatform

EnumStep ==
  \/ SkipInvalid \/ ReadEnable \/ ReadDisable \/ ImplicitRead \/ ReadExplicit
  \/ ReadEnvironment \/ ReadNamed \/ EnumLoads
  \/ CannotAnswer \/ AnswerCount \/ AnswerNoArray \/ AnswerWrongType \/ AnswerTooSmall
  \/ AnswerFull \/ EnumReturn

DNext == CreateLoads \/ LoadStep \/ InitUnload \/ InitCallStep \/ EnumBegin \/ EnumStep

DSpec == DInit /\ [][DNext]_allVars

(* A thread inside the loader goes on; the runtimes' functions return.     *)
DFairSpec == DSpec /\ WF_allVars(LoadStep \/ EnumStep) /\ WF_allVars(InitCallStep)

-----------------------------------------------------------------------------
(* Properties                                                              *)

(* The loader with its properties and enumerations loads runtimes as       *)
(* RuntimeLoading has it.                                                  *)
ImplementsLoading == Spec

(* An enumeration that no initialisation overlaps reports every layer that *)
(* is enabled, in the order of search, or every extension once, with the   *)
(* version of the runtime, else the newest of the layers', and for the     *)
(* loader's own at least its own; and the array for which it reports       *)
(* XR_ERROR_SIZE_INSUFFICIENT is told the size that would have done.       *)
Listed == {f \in ToSet(Implicit) \cap Valid :
             (EnableVar[f] = None \/ IsSet(EnableVar[f])) /\ ~IsSet(DisableVar[f])}
ExpectedLayers == Keep(Implicit, Listed) \o ExplicitFiles

ListedIn(fs) == UNION {ToSet(Listing[f]) : f \in fs}
Newest(props) == CHOOSE v \in {p.version : p \in props} : \A p \in props : p.version <= v

ExpectedExtensions ==
  LET offered   == ToSet(RuntimeListing)
      listed    == ListedIn(Listed \cup {f \in ToSet(ExplicitFiles) : LayerName[f] \in EnabledNames})
      loaders   == {[name |-> DebugUtils, version |-> LoaderVersion]}
      For(S, e) == {p \in S : p.name = e}
      Known(e)  == For(loaders, e) \cup (IF For(offered, e) = {} THEN For(listed, e) ELSE For(offered, e))
  IN {[name |-> e, version |-> Newest(Known(e))] :
        e \in {p.name : p \in offered \cup listed \cup loaders}}

AnswerIsComplete ==
  enumPc = "return" /\ ~disturbed =>
    /\ call.kind = "layers" /\ answer.result # "validation" =>
         /\ answer.count = Len(ExpectedLayers)
         /\ answer.written \in {<<>>, ExpectedLayers}
    /\ call.kind = "extensions" /\ answer.result \in {"success", "size_insufficient"} =>
         /\ answer.count = Cardinality(ExpectedExtensions)
         /\ answer.written = <<>> \/ ToSet(answer.written) = ExpectedExtensions

(* A layer that the environment disables is never found, whatever          *)
(* overrides come and go while the variables are read: "Disable env var    *)
(* overrides enable above" (manifest_file.cpp:867).  A file that is in an  *)
(* explicit directory too may be found there.                              *)
OnlyImplicit == ToSet(Implicit) \ UNION {ToSet(Explicit[d]) : d \in DOMAIN Explicit}

DisabledStaysDisabled ==
  \A f \in ToSet(manifests) \cap OnlyImplicit : DisableVar[f] \notin DOMAIN env

(* The installed runtime is the one XR_RUNTIME_JSON names, if it does: a   *)
(* property given by a later initialisation takes effect, though loading   *)
(* is skipped while a runtime is there.                                    *)
RuntimeFollowsOverride ==
  initPc = "idle" /\ installed # None /\ GetSecure("XR_RUNTIME_JSON") # Empty =>
    installed = GetSecure("XR_RUNTIME_JSON")

(* Enumerations, initialisations and loads of the runtime return.          *)
CallsReturn == []<>(pc = "idle" /\ enumPc = "idle") /\ []<>(initPc = "idle")

-----------------------------------------------------------------------------
(* The inductive invariant behind ImplementsLoading and                    *)
(* RuntimeFollowsOverride: the runtime stays unloaded and unused while it  *)
(* is initialised, and otherwise the one being tried is the one named.     *)
UsesRuntime == {"environment", "named", "runtime", "loading"}

InitAlone ==
  /\ initPc # "idle" =>
       /\ pc = "idle" /\ installed = None /\ supported = {} /\ open = {} /\ result = "none"
       /\ enumPc = "idle" \/ call.kind # "extensions"
  /\ enumPc \in UsesRuntime => call.kind = "extensions"

NamedRuntime == GetSecure("XR_RUNTIME_JSON")

FollowsNamed ==
  initPc = "idle" /\ NamedRuntime # Empty =>
    /\ pc # "idle" /\ pc # "query" => files \in {<<>>, <<NamedRuntime>>}
    /\ installed # None => installed = NamedRuntime

DiscoveryInv == LoadingInv /\ InitAlone /\ FollowsNamed

(* The one behind DisabledStaysDisabled: a file that was found is enabled  *)
(* or in an explicit directory.                                            *)
PathsKnown ==
  /\ "XR_API_LAYER_PATH" \in DOMAIN env => env["XR_API_LAYER_PATH"] \in Paths
  /\ "XR_API_LAYER_PATH" \in DOMAIN overrides => overrides["XR_API_LAYER_PATH"] \in Paths
  /\ properties \in Seq(PropertyPairs)

LeftOf(k) == SubSeq(Implicit, k + 1, Len(Implicit))

EnumShape ==
  /\ enumPc \in {"idle", "implicit", "disable", "explicit", "environment", "named", "runtime",
                 "loading", "answer", "return"}
  /\ enumPc \notin {"idle", "loading"} => pc = "idle"
  /\ manifests \in Seq(LayerFiles)
  /\ enumPc \in {"implicit", "disable"} => \E k \in 0..Len(Implicit) : left = LeftOf(k)
  /\ enumPc = "disable" => left # <<>> /\ Head(left) \in Valid
  /\ enumPc \in {"explicit", "answer"} => call.kind # "extensions"

NothingDisabled ==
  \A f \in ToSet(manifests) :
    \/ \E d \in DOMAIN Explicit : f \in ToSet(Explicit[d])
    \/ DisableVar[f] \notin DOMAIN env

(* The one behind AnswerIsComplete: what has been found when no            *)
(* initialisation overlaps, at each step of the enumeration.               *)
FoundSoFar ==
  LET k == Len(Implicit) - Len(left) IN
  /\ enumPc \in {"implicit", "disable"} => manifests = KeptUpTo(Implicit, Listed)[k]
  /\ enumPc = "disable" =>
       enabled = (EnableVar[Head(left)] = None \/ IsSet(EnableVar[Head(left)]))
  /\ enumPc \in {"explicit", "environment", "named"} => manifests = Keep(Implicit, Listed)
  /\ enumPc = "named" => named = EnabledNames
  /\ enumPc = "answer" => manifests = ExpectedLayers
  /\ enumPc \in {"runtime", "loading"} =>
       ToSet(manifests) = Listed \cup {f \in ToSet(ExplicitFiles) : LayerName[f] \in EnabledNames}

EnumInv ==
  /\ PathsKnown /\ EnumShape /\ NothingDisabled
  /\ enumPc = "idle" => manifests = <<>>
  /\ ~disturbed => FoundSoFar
  /\ AnswerIsComplete
=============================================================================
