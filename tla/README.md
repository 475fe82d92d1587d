# A verification of the OpenXR loader

TLA+ specifications of the loader in `src/src/loader` and `src/src/common` of
the OpenXR SDK: state machines translated from its C++ code, TLC runs over
small instances of them, and TLAPS proofs of the results that matter most, for
any number of threads, instances, manifests and calls.

The loader is the library an OpenXR application links to. It finds the one
active *runtime* and the *API layers* the user or the application asked for,
opens their libraries, negotiates with them, creates the one `XrInstance` the
process may have through the chain of layers, and from then on passes every
call down. It also implements `XR_EXT_debug_utils` for runtimes that lack it.

## 1. Inventory

The modules build on each other, and each layer of them adds what the one below
takes as a single step or as given:

    SingleInstance  <-refines-  LoaderCore                  life cycle, any threads
    DebugUtilsView  <-refines-  DebugUtilsData              names and labels
    ApiLayerLoading <-extends-  InstanceChain               one creation, layer by layer
    RuntimeLoading  <-extends, refines-  Discovery          what is found, and loaded
    MessengerLog                                            messages, any threads

| Component | State it keeps | Operations that change it |
|---|---|---|
| Entry points (`loader_core.cpp`) | the global loader mutex | `xrCreateInstance`, `xrDestroyInstance`, both enumerations, `xrInitializeLoaderKHR`, terminators |
| Active instance (`loader_instance.cpp`, namespace `ActiveLoaderInstance`) | one `unique_ptr<LoaderInstance>` | `Set`, `Remove`; read by `Get`, `IsAvailable` |
| `LoaderInstance` | instance handle, layer interfaces, topmost dispatch table, enabled extensions, default messenger | `CreateInstance` (static), `SetDefaultDebugUtilsMessenger` |
| `RuntimeInterface` | one `unique_ptr` to itself, library handle, dispatch tables by instance, instances by messenger, supported extensions | `LoadRuntime`, `UnloadRuntime`, `CreateInstance`, `DestroyInstance`, `TrackDebugMessenger`, `ForgetDebugMessenger` |
| `ApiLayerInterface` | per layer: its library and functions | `LoadApiLayers`, destructor; two property queries |
| `LoaderInitData` | platform data, `_initialized` | `initialize`, through `InitializeLoaderInitData` |
| `LoaderProperty` | overrides by name, under a mutex of its own | `SetOverride`, `ClearOverrides` |
| `LoaderLogger` | recorders, recorders by instance, a shared mutex | add and remove recorders, log |
| `DebugUtilsData` (`object_info.cpp`) | names by object, label lists by session | set names; begin, end and insert labels |
| Manifest files | none that outlives a call | searches, parsing |
| Generated trampolines and dispatch tables | none | get the active instance, call through its table |

**How they interact.** The application calls trampolines from any number of
threads. The five manual entry points call `RuntimeInterface`,
`ApiLayerInterface` and `ActiveLoaderInstance`, which are process-wide
singletons. `xrCreateInstance`, `xrDestroyInstance` and the enumerations hold
the global mutex; `xrInitializeLoaderKHR`, `xrGetInstanceProcAddr` and all
generated trampolines take no lock and use a raw pointer to the active
instance. At the bottom of the chain of layers, the loader's terminators look
up the runtime's dispatch table by instance. Layers, runtimes, libraries and
the file system are outside: they answer anything the loader can tell apart.
Everything logs, and logging may call back into the application.

**What is hard.** Who may unload the runtime while whom uses it; a creation
that fails after any of its ten steps; the order of destruction of messenger,
table, instance and library; failures of one layer among others that are
loaded; the offer of `xrInitializeLoaderKHR` by two routes; callbacks that
re-enter the logger; label operations with no lock. `PROJECT.json` lists these
hazards at their lines, with the properties that guard each of them.

**What makes each component correct.**

- Entry points and active instance: at most one instance, never one that nobody
  can destroy; the runtime is loaded whenever it is used; a returned handle
  works until it is destroyed; everything is released, in order, once.
- `LoaderInstance`: an extension is accepted exactly if the runtime, the loader
  or a layer supports it; the chain reaches each layer once, in order, and then
  the terminator.
- `RuntimeInterface`: success means a runtime is installed; no library leaks or
  is closed under its user; the extension list belongs to the runtime installed.
- `ApiLayerInterface`: the layers loaded are those asked for, in order, each
  once; a failure keeps nothing; init data reaches each layer at most once.
- `LoaderProperty` and init data: the overrides decide over the environment, for
  whatever reads them after the initialisation that set them.
- Logger: a message reaches every messenger present that asked for its severity and
  for all its types, and none that asked for another severity or for no type of it,
  each at most once; a removed messenger is never called again.
- Manifest files: an enumeration reports exactly the layers that are enabled.
- `DebugUtilsData`: the labels of a session are its open regions and at most one
  individual label on top; they end with the session.
- Enumerations: the two-call idiom, and the merge of extension lists.

## 2. What is modelled

### `LoaderCore`: the life cycle of the instance and of the runtime

Any set of `Threads`, each idle or at the label of the next step of the call it
is in. A label stands at each point of the code between which another thread's
steps matter; what happens under the mutex is split just as finely, because
trampolines and `xrInitializeLoaderKHR` do not take it.

| Variable | Code |
|---|---|
| `mutex` | `GetGlobalLoaderMutex()` |
| `active`, `messenger` | `GetSetCurrentLoaderInstance()` and its `_messenger` |
| `rtLoaded`, `tables` | `RuntimeInterface::GetInstance()` and its `_dispatch_table_map` |
| `initialized` | `LoaderInitData::_initialized` |
| `rtInstances`, `rtMessengers` | the runtime's side: live instances and their default messengers |
| `granted` | what the application holds |
| `pc`, `inst`, `ret`, `calls` | per thread: next step, handle, last result, calls made |

The actions are named for the call and the step: `CreateLock`, `CreateAvailable`,
`CreateLimitReached`, `CreateLoadRuntime`, …, `CreateCleanup`; `Destroy…`;
`Enum…`; `Init…`; `Trampoline…`. `CreateMessengerFails` is the early return in
the middle of `LoaderXrCreateInstance`. A call that its argument checks reject
is `Rejected`.

### `SingleInstance`: what the core promises

One slot, free of locks, libraries and tables: a creation takes it if it is
empty, is denied only if it is taken, and otherwise leaves it alone; only the
destruction of the instance empties it. `LoaderCore` refines it by reading each
thread's label as a phase (`PhaseOf`).

### `RuntimeLoading`: `LoadRuntime` in full

`LoaderCore` takes the loading of the runtime as one step that succeeds or fails.
This module has every step of it: the search, opening the library, forwarding
the init data through an export, negotiation, forwarding it through
`xrGetInstanceProcAddr`, installation, the query of extensions, and the skip on
every failure; over any sequence of `LoadRuntime`, `UnloadRuntime` and
`xrInitializeLoaderKHR`. Callers hold the mutex or run alone, so the machine is
sequential. Runtimes' extension sets are chosen once; everything else a runtime
answers is chosen at each call.

### `ApiLayerLoading`: `LoadApiLayers` in full

Chosen at the start: the implicit and explicit manifests in search order, the
names in `XR_ENABLE_API_LAYERS` and in the create info, and whether the platform
has init data. Then the selection: one step to take up a name that is not found
yet, and one for each explicit manifest it is compared with (`SelectMatching`
moves it to the plan, `SelectOther` goes on to the next). Then the loading loop,
one call into a layer a step, with the three ways to skip a layer, the early
return, the final clean-up, and the caller's destruction of what it was given.
The two searches for layer manifests cannot fail (`FindManifestFiles` returns
success for both kinds), so the branch for a failed one is not there.

### `InstanceChain`: the creation of the instance through the layers

`InstanceChain` extends `ApiLayerLoading`: it begins where `LoadApiLayers` has
returned, on the layers it leaves, and follows `LoaderInstance::CreateInstance`:
the check of the extensions asked for, the filter (`FilterOutExtensions`), the
linking of one `XrApiLayerNextInfo` per layer from the last to the first with the
three running pointers (`LinkLayer`, `top`), the descent through the chain to the
terminator, and the return. `interfaces` is first a parameter of the creation and
then a member of the `LoaderInstance`; whoever owns it destroys the layers, in
`CreationFails` or in `RemoveInstance`.

Layers are outside. One that is called refuses, gives up after the call below it
returned, or calls the function that its next info names, with the info after it
and with fewer extensions if it supports those it leaves out.

### `Discovery`: overrides, manifests and enumerations

`Discovery` extends `RuntimeLoading` with what decides which runtime is tried,
and with the enumerations. Environments and property lists are functions and
lists of pairs over a few variables; a manifest is a model value, valid or not,
with its variables, its layer's name and its extensions.

| Variable | Code |
|---|---|
| `env`, `elevated` | the process's environment; whether secure reads are refused |
| `overrides` | `GetOverrideProperties()` |
| `properties`, `initPc` | `xrInitializeLoaderKHR`: values still to be set, next step |
| `call`, `left`, `enabled`, `named`, `manifests` | an enumeration: its kind, the files not looked at, the flag of the file being read, `XR_ENABLE_API_LAYERS`, the list made so far |
| `answer`, `enumPc` | what it returns; its next step |
| `disturbed` | has an initialisation changed overrides meanwhile? Not the loader's; only `AnswerIsComplete` reads it |

`xrInitializeLoaderKHR` clears the overrides and then sets them one by one, each
under the mutex of `LoaderProperty` and none under the loader's; an enumeration
reads one variable a step, so the two interleave. `Found` has the merges of
extension lists, written like the code's loops as functions of the number of
entries merged so far (`MergeUpTo`, `ReadUpTo`; likewise `KeptUpTo`, what is left
of a list of files), and the `Answer…` actions the two-call idiom at each of its
boundaries. `ImplementsLoading` says that all of this loads runtimes as
`RuntimeLoading` does.

### `MessengerLog`: recorders, messages and messengers

Any set of threads logs, submits messages, creates and destroys messengers and
ends the instance. `recorders`, `byInstance` and `readers` are `LoaderLogger`'s
two collections and the holders of its shared lock; `tracked` and `supports` are
the runtime interface's; `held` is what the application has, each messenger with
what it asked for; `table` is the local `dispatch_table` of a destruction, found
before the messenger is removed and forgotten and dereferenced after it. The loop of
`LogMessage` has one step per recorder (`LogCall`), a step inside of the callback,
and one out of it (`LogCalled`). `ToUtilsTypes` and
`ToLogTypes` are the two conversions of types, which are not inverse to each
other; `AcceptsLogged` and `AcceptsSubmitted` the filters of the two routes. A
runtime with `XR_EXT_debug_utils` makes the messengers and delivers submitted
messages itself. Labels are here only as the strings callback data
points into: `shown` against `labels`.

### `DebugUtilsData` and `DebugUtilsView`: object names and session labels

`DebugUtilsData` has the two collections of `object_info.cpp`: `object_info`, the
entries of names, as a set, since their order tells nothing as long as no two are
of one object (`OneNamePerObject`), and `session_labels`, per session handle its
list of labels, each flagged as individual or not. An object is a handle *and* a
type: a session and a space may have handles of the same value. The actions are
the operations on the two collections; `live` says which sessions the application
has, and is not the loader's. The runtime's answer to a label call comes after
the loader has recorded the label, and changes nothing.

The two routines that complete messages are operators, compared with each other
on all small messages in every state: `WrapCallbackData`, for messages the
application submits, and `LogMessage` with its counts of one byte, for the
loader's own. A message has objects, each with the name its sender gives it, one
of `GivenNames`, and labels of the sender's own.

`DebugUtilsView` is what an application sees: a name per object, and per session
handle a stack of open regions and at most one individual label. It is refined
by splitting each list at its last element.

### What the application and the platform are assumed to do

- An instance is destroyed only by a thread that was given it and has not
  destroyed it before, while no other thread is in a call on it: the OpenXR
  specification's external synchronisation. Other handles are not passed in.
- Labels are put on sessions the application has, and its debug-utils calls
  follow one another; a runtime may use the handle of a destroyed session again.
- Where `InitSerialised` is set, no other call overlaps `xrInitializeLoaderKHR`.
  The run `core_init_race` drops this, and shows why it is needed. In `Discovery`
  it overlaps enumerations of layers, which do not use the runtime.
- The creation and destruction of a messenger and the destruction of the instance
  run alone among the calls on the instance and its children: `externsync` in
  `xr.xml`. Calls that take no instance go on, and log.
- `enabledExtensionNames` has no name twice; layers call down at most once.
- Manifest files and environment variables do not change while the process runs.
- Layers pass `xrCreateInstance` and `xrDestroyInstance` down; the runtime's
  `xrDestroyInstance` succeeds. Nothing throws.
- A layer that fails `xrCreateApiLayerInstance` after the call below it has returned
  an instance destroys that instance before it returns (`LayerGivesUp`): the loader
  only releases the layers then.
- `getPlatformParam()` returns the address of a member wherever the platform
  requires an init struct, and null elsewhere, as `loader_init_data.hpp` has it.
- The active runtime is searched for by a function that yields at most one file.
- Callbacks of messengers make no OpenXR calls.

## 3. The runs

| Run | Instance | Shows |
|---|---|---|
| `core_safety` | 3 threads, 2 calls each, 2 handles | the runtime is loaded in use; instances, tables and messengers go in order; a granted handle works; every call returns |
| `core_slot` | 2 threads, 3 calls each, 2 handles, init struct required, messengers never fail | `SingleInstance` is implemented; a failed creation cleans up; nothing is stranded |
| `core_messenger` | 2 threads, 2 calls each, messengers may fail | **violated**: a failed creation keeps its instance |
| `core_init_race` | 2 threads, 2 calls each, initialisation not serialised | **violated**: the runtime is unloaded in use |
| `layers` | `InstanceChain`: 3 manifests, 2 of one name, 3 names of which 1 has no manifest, 1 name from the environment and 1 from the create info; 2 extensions, 1 the loader's own and 1 that a layer supports, both or none the runtime's | what is planned is loaded and called, in order, each layer with the functions of the next; extensions are honoured; libraries are owned, and outlive the instance; init data; the creation returns |
| `layers_errors` | `ApiLayerLoading` of the same | **violated**: a layer without a negotiation function fails the call though one has been loaded |
| `runtime_loading` | `Discovery`: 2 runtimes, 5 layer manifests (3 implicit, of which 1 unusable, 2 explicit), 2 extensions, 2 environments, with and without elevated rights, 4 property lists, capacities to 4, any number of calls | `RuntimeLoading` is implemented and its properties hold; enumerations answer what environment, overrides and manifests say; the runtime named is used; every call returns |
| `labels` | 2 handles, each of a session and of a space, 2 names, 2 labels, 2 open regions, messages about 0 to 2 objects | the view is implemented; lists and entries are well formed; both routes show the same |
| `labels_dropped` | the same | **violated**: without any name, submitted messages show no labels |
| `labels_leftover` | the same | **violated**: a new session inherits the labels of an old one |
| `messenger_log` | 2 threads, 5 calls each, 1 instance, ended and made again, 2 messengers, 1 label, runtimes with and without debug utils, 2 kinds of request, 5 kinds of message | a message reaches each messenger that asked for its severity and all its types, none that asked for another severity or for none of its types (a message of the conformance type alone excepted), none twice, and no dead one; a message whose types a messenger asked for in part may reach it or not; the three tables of messengers agree; the dispatch table a destruction has found is there when it dereferences it |
| `messenger_labels` | the same, 4 calls each, label calls at any time | **violated**: a message shows a label that has been freed |

**Why the bounds are enough.** Three threads are one more than any hazard of the
core needs: a holder of the mutex, a second call in its way, and a trampoline
beside both. Two handles distinguish the instance of one thread from that of
another; a handle is used again once the runtime has freed it. Two calls let a
thread create and then destroy; three let it meet the leftovers of a cycle. With
three manifests a layer can fail before, between and after others, and two of
them can share a name; a chain of three has a first, a middle and a last link.
`runtime_loading` bounds no number of calls: its state space is finite. Its
manifests have each combination of the two variables, the two environments set
and do not set them, and the property lists set one to the empty string, name
the other runtime, repeat a name and have a null one; versions lie on both sides
of the runtimes' and the loader's, and capacities go one beyond the longest
list. Five calls let one thread create two messengers, log, destroy one and end the
instance while the other's messages are on their way. A second
instance would need a second runtime interface, which the process cannot have. Two open regions and an individual label are the least list in
which an end can take away the wrong one; two labels and two names tell the order
and the last one given; messages about two objects repeat one or mix types and
handles. What the proofs cover holds without any bound.

**Fairness.** `LoaderCore` assumes weak fairness of each thread's steps *inside*
a call (`InsideStep`): a thread that is in the loader keeps running, and the
functions of layers and runtimes that it calls return. Whether the application
makes another call is left open. Acquiring the mutex needs no more than that:
the calls are finitely many, so a thread that waits is at last alone with a free
mutex. `InstanceChain` and `Discovery` assume that a call begun goes on, and
nothing of what happens between calls: that an instance is ever destroyed, or a
runtime unloaded, is the application's choice. `ApiLayerLoading` and
`RuntimeLoading` take their fairness from them.

**Symmetry** is used for threads and handles in `core_slot` and the two core runs
that find violations, for handles, names and labels in `labels`, and for threads
and messengers in `messenger_log` and `messenger_labels`; never in a run with a
liveness property.

**Mutants.** Operators headed "Seeded defect" are plausible mistakes in the code
(a lock not taken, a close forgotten, an error not remembered). Each stands
before the action it spoils and is part of no specification; replacing the action
by it makes the property named in `PROJECT.json` fail.

## 4. Where code and comments disagree

1. **A creation whose messenger fails strands its instance**
   (`loader_core.cpp:292`). The walk of the `next` chain returns from the middle
   of `LoaderXrCreateInstance`, before the clean-up that is there to "ensure the
   global loader instance and runtime are destroyed if something went wrong". The
   application has no handle, and later creations answer
   `XR_ERROR_LIMIT_REACHED`. Run `core_messenger`.
2. **`xrInitializeLoaderKHR` unloads the runtime without the lock**
   (`loader_init_data.cpp:113`), which exists to "ensure RuntimeInterface isn't
   used to unload the runtime while the runtime is in use". Run `core_init_race`.
3. **A layer without a negotiation function is not skipped but fatal if it comes
   late** (`api_layer_interface.cpp:332`), whereas "if we load one, clear all
   errors" and the other two skips check `any_loaded`. Run `layers_errors`.
4. **Labels are not shown while no object has a name** (`object_info.cpp:241`).
   `WrapCallbackData` returns early on an empty `object_info_`, though it is there
   to "fully augment" with names *and* labels. Run `labels_dropped`.
5. **Labels outlive their session** (`xr_generated_loader.cpp:163`).
   `DeleteSessionLabels` is to be called "in xrDestroySession and
   xrDestroyInstance"; nothing calls it. Run `labels_leftover`.

6. **A message can show labels that another thread has freed**
   (`loader_logger.cpp:185`). `PopulateNamesAndLabels` copies the labels without a
   lock, and the copies keep the `labelName` pointers of the originals, whose
   strings "must persist unmodified during the entire debug messenger call"
   (`object_info.h:158`). Label calls on the session take no lock either and free
   them. Run `messenger_labels`.

Seen while reading, too small for runs of their own or without a promise to hold
the code to:

- A message whose only type is conformance passes the type filter of every
  messenger: the loader's logger does not know the type and tests the empty set
  (`loader_logger.cpp:77`, `:217`). `OnlyAsked` excepts it.
- A process with elevated rights ignores the property `XR_API_LAYER_PATH` as well
  as the variable, though overrides "take precedence" (`loader_properties.cpp:36`).
- An explicit layer named in `XR_ENABLE_API_LAYERS` is listed for its extensions
  "since we know that they're going to be enabled" (`api_layer_interface.cpp:159`),
  but is not loaded if an implicit layer has its name.
- `CopyIncludedPaths` (`manifest_file.cpp:165`) drops a path of one character, and
  makes the root directory of an empty element.
- `FilterOutExtension` (`loader_instance.cpp:106`) takes out one occurrence of a
  name that is given twice.
- Between `ClearOverrides` and the last `SetOverride` an enumeration may see
  neither the old overrides nor the new; `AnswerIsComplete` excepts it.

## 5. What is proved

For all sets of threads, handles, manifests and extensions and any bound on calls:

- `LoaderCoreProofs`: `TypeCorrect`; then `LifecycleInvariant`, that
  `LifecycleInv` is an invariant if initialisation is serialised; and from it
  `RuntimeStaysLoadedInUse`, `GrantedHandlesWork`, `NothingOutlivesItsOwner`,
  `MessengersDieFirst` and `MessengerTableIsPresent`.
  Then `LoaderImplementsSlot`, that every behaviour of the
  loader is one of `SingleInstance` if moreover the messenger can be created
  whenever asked for (finding 1 breaks it otherwise), and `NeverTwo`. On the same
  condition, `NothingIsStranded` and `FailuresCleanUp`.
- `RuntimeLoadingProofs`: `LoadingInvariant`, and from it
  `RuntimeLibraryIsOwned`, `LoadRuntimeAnswersTruly`, `ExtensionsAreFresh`,
  `InitialisedFirst` and `InitDataGivenOnce`, with no assumption but that `None`
  is not a manifest.
- `DiscoveryProofs`: `DiscoveryInvariant`, from it `DiscoveryImplementsLoading`,
  by which the theorems about `RuntimeLoading` hold of the larger system, and
  `NamedRuntimeIsUsed`; `EnumInvariant`, and from it `EnumerationIsComplete` and
  `DisabledNeverFound`; for any environments, property lists, search orders,
  manifests, extension lists and capacities.
- `ApiLayerLoadingProofs`: `LoadingInvariant`, and from it `PlanIsWhatWasAsked`,
  `EveryLibraryOwned`, `ForwardedAtMostOnce`, `OrderIsKept` and `SuccessEarned`,
  for any finite set of manifests and any names asked for.
- `InstanceChainProofs`: `ChainInvariant` and `LayersCalledInOrder`;
  `HandoverInvariant`, and from it `LayersKeptInChain` (all that
  `ApiLayerLoadingProofs` says of the layers, up to the end of the instance),
  `CreationEarned`, `EveryExtensionHonoured` and `LayersOutliveTheInstance`; for
  any number of layers and any extensions.
- `MessengerLogProofs`: `LogInvariant`, and from it `CallbacksOnLiveMessengers`
  and `DestructionFindsTable`, for any threads, instances and messengers;
  `DeliveryInvariant`, and from it `NobodyIsMissed`, `OnlyThoseAsked` and
  `NobodyToldTwice`; and `TablesAgree`; for the same, and any messages and
  requests.
- `DebugUtilsDataProofs`: `DataInvariant`, from it `NamesAreUnique`,
  `IndividualLabelsOnTop` and `DataImplementsView`, for any handles, types,
  names, labels and depth, assuming that the empty name and the absent label are
  none of the others; `DepthBounded`, and from it `StackShown` and
  `BothRoutesAgree`, each under the condition that the labels of a message fit the
  eight bits of their count. The depth `MaxLabels` bounds is the application's:
  the code has no limit, so `StackShown` speaks of applications that keep fewer
  than 255 regions open on a session, and `BothRoutesAgree` of those where the
  objects of a message, times the labels a session may have, stay below 256. `CountWraps` says that this is needed: 256 labels are
  shown as none.
- `SequenceLemmas`: what the others need of numbers and sequences.

Every invariant a passing run checks is among them, and so is every action
property and refinement: `PROJECT.json` lists the theorem that states it.

**The argument for the core.** "The runtime is loaded whenever it is used" is not
inductive: a thread in the middle of a creation relies on the slot having stayed
empty, a trampoline on its handle being held, a destroyer on nobody holding one.
`LifecycleInv` adds: exactly the thread at a locked label holds the mutex
(`MutexInv`); initialisation runs alone (`InitAlone`); between taking the slot and
granting the handle, and between giving the handle up and emptying the slot, one
thread owns the slot and nobody holds a handle (`OwnerInv`); what each label knows
(`LabelInv`); and the runtime's instances are the active one and one being made
(`OwnedInv`). The proof has one lemma per group of actions and one step per
action. The refinement then maps each step by the phase of its thread. That
nothing is stranded needs one thing more: a slot that is taken has somebody who
will empty it, the holder of the handle or a thread about to grant or destroy it
(`HolderInv`). The early return of finding 1 is the one step that breaks it.

**The argument for the runtime.** `LoadingInv` says which library is open at each
label, and that the init data has been forwarded only where `forwarded` records
it; each of the properties is one of its conjuncts.

**The argument for discovery.** An initialisation starts when nobody uses the
runtime and unloads it, and no call that uses it starts before the end
(`InitAlone`); so every step of it, and of an enumeration up to its load, is a
stutter of `RuntimeLoading`. That the runtime is the one named needs to hold from
the search on: what is being tried is named by the overrides as they are, and
these change only while no runtime is installed (`FollowsNamed`).

**The argument for the chain.** Before the link of layer *k* the running pointers
stand at layer *k* + 1, and each info already made leads to the layer below its
own (`LinkedFrom`); after the last one this holds of all. A layer then calls
exactly what its info says, so the *i*-th call is that of the *i*-th layer
(`CalledDown`).

**The argument for the layers.** At each step of the selection the manifests are
shared out between the plan and the explicit ones left, with nothing lost, doubled
or out of order (`ManifestsShared`); a name already looked up has no explicit
manifest left unless an implicit layer hides it (`NamesLookedUp`); and of the one
being looked up, those moved come before those left to compare (`NameCompared`).
When no name is left this is `PlanIsSelection`. In the loading loop, `LayersHeld`
says that the layers kept are a part of the plan the loop is past, in its order,
and which library is open besides; `InitCallsCounted` that a layer the loop has
not come to, or that `forwardedInitLoader` does not record, has not been
initialised (`InitStillDue`). For the creation, `PassedOn` says what the check and
the filter leave: all that was asked for is supported, and what the runtime
supports and no layer takes over is passed on.

**The argument for enumerations.** The files read are a prefix of the search order,
and those listed are the enabled ones of that prefix, unless an initialisation has
disturbed the call (`FoundSoFar`); a listed file that only the implicit search
yields is not disabled by the environment, disturbed or not (`NothingDisabled`),
because `IsSet` looks at both and no override hides that a variable is set. What is answered then needs that a list merged
entry by entry is the set of its newest, or its replaced, entries (`Sums`,
`MergeAllNewest`, `MergeAllMerged`).

**Induction over data.** Lists are built up by loops, and the library's induction
theorems cannot be used here, since they take an operator as a parameter. What
takes their place is the least element of a set of numbers (`LeastNat`): a set that
has 0 and every successor has all numbers (`SetInduction`, `BoundedInduction`), so
the property to be proved is made a set of indices. That a function defined step by
step satisfies its definition needs in addition that such a function exists
(`RecursionExists`). `KeptIs`, `MergeUpToIs` and `ReadUpToIs` use both for the
functions of `Discovery`, `FlattenSteps` for the library's `FlattenSeq`.

**The argument for the logger.** A thread in the loop is a reader, and what it has
still to visit is among the recorders, which only change when there is no reader
(`LockInv`). One thread at a time changes messengers (`AloneInv`). A recorder goes
before the value of its messenger is given back, in both ways a messenger can end
(`RecorderInv`): so a recorder in the loop has a live messenger. A messenger is
tracked until its destruction has found the table, and nobody ends the instance
before that destruction returns (`TrackedInv`): so `DestroyFindsTable`.

**The argument for deliveries.** Each messenger the application has is registered
with what it asked for (`RegisteredInv`). The recorders that accept a message are
divided into those called, the one being called and those still to visit, and no
step of another thread can disturb that while a reader holds the lock (`Divided`);
at the end nothing is left to visit. What remains are the filters: a messenger that
asked for a message has a recorder that accepts it, and the reverse, although the
recorder compares the loader's severities and types and not those of the extension
(`AskedIsAccepted`, `AcceptedIsAsked`). A runtime that has its own messengers tells
them of a submitted message in one step, and the recorders are then not called. For
`TablesAgree`, `MatchInv` says that a table holds a messenger the application does
not have only as long as the call that is making or ending it runs.

**The argument for names and labels.** `DataInv` is inductive as it stands. That
individual labels are on top only makes `RemoveIndividualLabel` yield a list of
regions (`RemoveLeavesRegions`), after which appending a label or closing a region
is the view's own step (`AppendLabel`, `CloseRegion`); that no object has two
entries makes `CHOOSE` find the entry written last (`TheEntry`). What a message
shows is the list in reverse (`LookUpShowsStack`); the list has at most one label
more than regions (`RegionsBounded`), so a message about *k* objects has at most
*k* times that many labels (`FlattenLength`), and the counts lose none.

**Only model-checked:** liveness, `EveryCallReturns`, `CreationReturns` and
`CallsReturn`, which is beyond the prover; and what the six violated runs show,
which are counterexamples.

## 6. Plan

Done: the core and its refinement; loading of runtime and layers; names and
labels; the logger with its messengers; the chain of layers; properties,
manifests and enumerations; the proofs above. Left, in this order:

1. `ProcAddr`: the answers of `xrGetInstanceProcAddr`, as a table of names against
   the extensions enabled.
2. The search paths of manifests: an order of directories by platform.
3. That `LoaderCore` and the machines it takes as single steps agree: its
   `CreateLoadRuntime` with `RuntimeLoading`, its creation with `InstanceChain`.

## 7. Not modelled

- Exceptions and memory exhaustion: nothing throws.
- The Android runtime broker and JNI; platform wrappers and the file system: they
  keep no state of the loader, and answer anything.
- Search paths and JSON parsing: a manifest is found and is valid or not.
- The generated dispatch tables' contents, and the answers of
  `xrGetInstanceProcAddr`: chains of comparisons without state.
- The debugger and logcat recorders, and the text of messages.
- Callbacks that call OpenXR functions: nothing in the repository says whether
  they may.
- Vendored code.

The headers under `src/include/openxr`, their reflection lists and the generated
tables are three quarters of the lines of the implementation. They declare types and list names, and have no steps or
state to model; the modules are about the rest.
