----------------------------- MODULE LoaderCore -----------------------------
(***************************************************************************)
(* The life cycle of the loader's one XrInstance and of the one runtime    *)
(* library, as loader_core.cpp, loader_instance.cpp, runtime_interface.cpp *)
(* and loader_init_data.cpp drive it from any number of threads.           *)
(*                                                                         *)
(* A thread is idle, or at the label of the next step of the call it is    *)
(* in.  xrCreateInstance, xrDestroyInstance and both enumerations run      *)
(* under GetGlobalLoaderMutex(); xrInitializeLoaderKHR, the generated      *)
(* trampolines and xrGetInstanceProcAddr take no lock.                     *)
(*                                                                         *)
(* Results are abstracted to the classes the properties tell apart, API    *)
(* layers to whether their loading succeeds (module ApiLayerLoading has    *)
(* them in full), and finding a runtime to whether one could be loaded     *)
(* (module RuntimeLoading).                                                *)
(***************************************************************************)
EXTENDS Naturals, FiniteSets

CONSTANTS
  Threads,              \* application threads
  Handles,              \* XrInstance values the runtime may hand out, reused once free
  None,                 \* nullptr, XR_NULL_HANDLE, or no owner
  MaxCalls,             \* bound: calls each thread makes
  PlatformInitRequired, \* XR_HAS_REQUIRED_PLATFORM_LOADER_INIT_STRUCT is defined
  MessengerMayFail,     \* the messenger of the "next" chain may fail to be created
  InitSerialised        \* the application runs xrInitializeLoaderKHR alone

ASSUME LoaderCoreAssumption ==
  /\ None \notin Threads
  /\ None \notin Handles
  /\ MaxCalls \in Nat
  /\ PlatformInitRequired \in BOOLEAN
  /\ MessengerMayFail \in BOOLEAN
  /\ InitSerialised \in BOOLEAN

VARIABLES
  mutex,         \* holder of GetGlobalLoaderMutex()
  active,        \* GetSetCurrentLoaderInstance(): handle of the LoaderInstance it owns
  messenger,     \* that LoaderInstance's _messenger is not XR_NULL_HANDLE
  rtLoaded,      \* RuntimeInterface::GetInstance() # nullptr
  tables,        \* keys of RuntimeInterface::_dispatch_table_map
  initialized,   \* LoaderInitData::_initialized
  rtInstances,   \* the runtime's live XrInstances
  rtMessengers,  \* instances whose default messenger is still live
  granted,       \* handles the application holds and has not begun to destroy
  pc,            \* per thread: its next step
  inst,          \* per thread: the handle its call works on
  ret,           \* per thread: the class of its last XrResult
  calls          \* per thread: number of calls made

loader  == <<active, messenger, rtLoaded, tables, initialized>>
runtime == <<rtInstances, rtMessengers>>
vars    == <<mutex, loader, runtime, granted, pc, inst, ret, calls>>

-----------------------------------------------------------------------------
(* The labels.                                                             *)

CreateLocked  == {"create.check", "create.runtime", "create.layers", "create.extensions",
                  "create.call", "create.table", "create.set", "create.messenger",
                  "create.return", "create.cleanup"}
DestroyLocked == {"destroy.get", "destroy.messenger", "destroy.table", "destroy.call",
                  "destroy.remove", "destroy.unload"}
EnumLocked    == {"enum.layers", "enum.runtime", "enum.query"}
Locked        == CreateLocked \cup DestroyLocked \cup EnumLocked
InitSteps     == {"init.check", "init.unload", "init.data"}
TrampolineSteps == {"call.get", "call.runtime"}

Labels == Locked \cup InitSteps \cup TrampolineSteps
            \cup {"idle", "create.lock", "destroy.lock", "enum.lock"}

(* Steps that are about to use RuntimeInterface::GetRuntime(), or code of  *)
(* the runtime library, without looking whether it is loaded.              *)
RuntimeSteps ==
  {"create.extensions", "create.call", "create.table", "create.messenger", "enum.query",
   "destroy.messenger", "destroy.table", "destroy.call", "call.runtime"}

Results == {"none", "success", "rejected", "limit_reached", "handle_invalid", "failed"}

TypeOK ==
  /\ mutex \in Threads \cup {None}
  /\ active \in Handles \cup {None}
  /\ messenger \in BOOLEAN
  /\ rtLoaded \in BOOLEAN
  /\ tables \subseteq Handles
  /\ initialized \in BOOLEAN
  /\ rtInstances \subseteq Handles
  /\ rtMessengers \subseteq Handles
  /\ granted \subseteq Handles
  /\ pc \in [Threads -> Labels]
  /\ inst \in [Threads -> Handles \cup {None}]
  /\ ret \in [Threads -> Results]
  /\ calls \in [Threads -> 0..MaxCalls]

Init ==
  /\ mutex = None
  /\ active = None
  /\ messenger = FALSE
  /\ rtLoaded = FALSE
  /\ tables = {}
  /\ initialized = FALSE
  /\ rtInstances = {}
  /\ rtMessengers = {}
  /\ granted = {}
  /\ pc = [t \in Threads |-> "idle"]
  /\ inst = [t \in Threads |-> None]
  /\ ret = [t \in Threads |-> "none"]
  /\ calls = [t \in Threads |-> 0]

-----------------------------------------------------------------------------
(* Control: entering a call, taking the lock, moving on, returning.        *)

Goto(t, from, to) ==
  /\ pc[t] = from
  /\ pc' = [pc EXCEPT ![t] = to]

(* What the application guarantees: while it has serialised                *)
(* xrInitializeLoaderKHR no other call overlaps it.                        *)
MayEnter == InitSerialised => \A u \in Threads : pc[u] \notin InitSteps

Enter(t, to, h) ==
  /\ calls[t] < MaxCalls
  /\ calls' = [calls EXCEPT ![t] = @ + 1]
  /\ Goto(t, "idle", to)
  /\ inst' = [inst EXCEPT ![t] = h]
  /\ ret' = [ret EXCEPT ![t] = "none"]

Acquire(t, from, to) ==
  /\ mutex = None
  /\ mutex' = t
  /\ Goto(t, from, to)
  /\ UNCHANGED <<loader, runtime, granted, inst, ret, calls>>

(* Return without touching the lock.                                       *)
Return(t, from, result) ==
  /\ Goto(t, from, "idle")
  /\ inst' = [inst EXCEPT ![t] = None]
  /\ ret' = [ret EXCEPT ![t] = result]
  /\ UNCHANGED calls

(* Return from a scope that owns the std::unique_lock.                     *)
ReturnUnlock(t, from, result) ==
  /\ Return(t, from, result)
  /\ mutex' = None

Step(t, from, to) ==
  /\ Goto(t, from, to)
  /\ UNCHANGED <<mutex, granted, ret, calls>>

(* A call that fails its argument checks touches nothing.                  *)
Rejected(t) ==
  /\ MayEnter
  /\ pc[t] = "idle"
  /\ calls[t] < MaxCalls
  /\ calls' = [calls EXCEPT ![t] = @ + 1]
  /\ ret' = [ret EXCEPT ![t] = "rejected"]
  /\ UNCHANGED <<mutex, loader, runtime, granted, pc, inst>>

-----------------------------------------------------------------------------
(* RuntimeInterface                                                        *)

(* LoadRuntime: at once successful when a runtime is loaded; otherwise it  *)
(* fails, or installs a RuntimeInterface, for which a platform with a      *)
(* required init struct needs a successful xrInitializeLoaderKHR.          *)
LoadRuntime(ok) ==
  \/ ok /\ rtLoaded /\ UNCHANGED rtLoaded
  \/ ok /\ ~rtLoaded /\ (PlatformInitRequired => initialized) /\ rtLoaded' = TRUE
  \/ ~ok /\ ~rtLoaded /\ UNCHANGED rtLoaded

(* UnloadRuntime: the destructor clears the dispatch tables and closes the *)
(* library; it does not destroy the runtime's instances.                   *)
UnloadRuntime ==
  /\ rtLoaded' = FALSE
  /\ tables' = {}

-----------------------------------------------------------------------------
(* xrCreateInstance                                                        *)

CreateBegin(t) ==
  /\ MayEnter
  /\ Enter(t, "create.lock", None)
  /\ UNCHANGED <<mutex, loader, runtime, granted>>

(* Seeded defect: the lock is not taken.                                   *)
CreateLockSkipsMutex(t) ==
  /\ Goto(t, "create.lock", "create.check")
  /\ UNCHANGED <<mutex, loader, runtime, granted, inst, ret, calls>>

CreateLock(t) == Acquire(t, "create.lock", "create.check")

(* Seeded defect: the early return leaves the mutex locked.                *)
CreateLimitReachedKeepsMutex(t) ==
  /\ active # None
  /\ Return(t, "create.check", "limit_reached")
  /\ UNCHANGED <<mutex, loader, runtime, granted>>

CreateLimitReached(t) ==
  /\ active # None
  /\ ReturnUnlock(t, "create.check", "limit_reached")
  /\ UNCHANGED <<loader, runtime, granted>>

(* Seeded defect: no check of ActiveLoaderInstance::IsAvailable().         *)
CreateAvailableUnchecked(t) ==
  /\ Step(t, "create.check", "create.runtime")
  /\ UNCHANGED <<loader, runtime, inst>>

CreateAvailable(t) ==
  /\ active = None
  /\ Step(t, "create.check", "create.runtime")
  /\ UNCHANGED <<loader, runtime, inst>>

CreateLoadRuntime(t) ==
  \E ok \in BOOLEAN :
    /\ LoadRuntime(ok)
    /\ Step(t, "create.runtime", IF ok THEN "create.layers" ELSE "create.cleanup")
    /\ UNCHANGED <<active, messenger, tables, initialized, runtime, inst>>

CreateLoadLayers(t) ==
  \E next \in {"create.extensions", "create.cleanup"} :
    /\ Step(t, "create.layers", next)
    /\ UNCHANGED <<loader, runtime, inst>>

(* Each enabled extension must be supported by the runtime, the loader or  *)
(* a layer; the check reads RuntimeInterface::GetRuntime().                *)
CreateCheckExtensions(t) ==
  \E next \in {"create.call", "create.cleanup"} :
    /\ Step(t, "create.extensions", next)
    /\ UNCHANGED <<loader, runtime, inst>>

(* Down the layer chain to the terminator and into the runtime.            *)
CreateCallFails(t) ==
  /\ Step(t, "create.call", "create.cleanup")
  /\ UNCHANGED <<loader, runtime, inst>>

CreateCall(t) ==
  \E h \in Handles \ rtInstances :
    /\ Step(t, "create.call", "create.table")
    /\ inst' = [inst EXCEPT ![t] = h]
    /\ rtInstances' = rtInstances \cup {h}
    /\ UNCHANGED <<loader, rtMessengers>>

(* Seeded defect: the dispatch table is not put into the map.              *)
CreateTableForgotten(t) ==
  /\ Step(t, "create.table", "create.set")
  /\ UNCHANGED <<loader, runtime, inst>>

CreateTable(t) ==
  /\ Step(t, "create.table", "create.set")
  /\ tables' = tables \cup {inst[t]}
  /\ UNCHANGED <<active, messenger, rtLoaded, initialized, runtime, inst>>

(* ActiveLoaderInstance::Set refuses a second instance; the LoaderInstance *)
(* it was given is then destroyed, the runtime's XrInstance is not.        *)
CreateSet(t) ==
  /\ Step(t, "create.set", IF active = None THEN "create.messenger" ELSE "create.cleanup")
  /\ IF active = None
       THEN active' = inst[t] /\ messenger' = FALSE
       ELSE UNCHANGED <<active, messenger>>
  /\ UNCHANGED <<rtLoaded, tables, initialized, runtime, inst>>

CreateNoMessenger(t) ==
  /\ Step(t, "create.messenger", "create.return")
  /\ UNCHANGED <<loader, runtime, inst>>

CreateMessenger(t) ==
  /\ Step(t, "create.messenger", "create.return")
  /\ messenger' = TRUE
  /\ rtMessengers' = rtMessengers \cup {inst[t]}
  /\ UNCHANGED <<active, rtLoaded, tables, initialized, rtInstances, inst>>

(* The early return of the "next" chain walk: no clean-up follows it.      *)
CreateMessengerFails(t) ==
  /\ MessengerMayFail
  /\ ReturnUnlock(t, "create.messenger", "failed")
  /\ UNCHANGED <<loader, runtime, granted>>

CreateReturn(t) ==
  /\ ReturnUnlock(t, "create.return", "success")
  /\ granted' = granted \cup {inst[t]}
  /\ UNCHANGED <<loader, runtime>>

(* Seeded defect: a failed creation leaves the runtime loaded.             *)
CreateCleanupKeepsRuntime(t) ==
  /\ ReturnUnlock(t, "create.cleanup", "failed")
  /\ active' = None
  /\ messenger' = FALSE
  /\ UNCHANGED <<rtLoaded, tables, initialized, runtime, granted>>

CreateCleanup(t) ==
  /\ ReturnUnlock(t, "create.cleanup", "failed")
  /\ active' = None
  /\ messenger' = FALSE
  /\ UnloadRuntime
  /\ UNCHANGED <<initialized, runtime, granted>>

-----------------------------------------------------------------------------
(* xrDestroyInstance.  The application destroys a handle it holds, when no *)
(* other of its threads is using it, and gives it up by calling.           *)

DestroyBegin(t) ==
  \E h \in granted :
    /\ MayEnter
    /\ \A u \in Threads : pc[u] \in TrampolineSteps => inst[u] # h
    /\ Enter(t, "destroy.lock", h)
    /\ granted' = granted \ {h}
    /\ UNCHANGED <<mutex, loader, runtime>>

DestroyLock(t) == Acquire(t, "destroy.lock", "destroy.get")

DestroyGet(t) ==
  /\ IF active = None
       THEN ReturnUnlock(t, "destroy.get", "handle_invalid") /\ UNCHANGED granted
       ELSE Step(t, "destroy.get", "destroy.messenger") /\ UNCHANGED inst
  /\ UNCHANGED <<loader, runtime>>

(* Seeded defect: the default messenger is not freed.                      *)
DestroyMessengerSkipped(t) ==
  /\ Step(t, "destroy.messenger", "destroy.table")
  /\ UNCHANGED <<loader, runtime, inst>>

(* Seeded defect: the down-chain xrDestroyInstance is not called.          *)
DestroyMessengerOnly(t) ==
  /\ Step(t, "destroy.messenger", "destroy.remove")
  /\ rtMessengers' = IF messenger THEN rtMessengers \ {active} ELSE rtMessengers
  /\ UNCHANGED <<loader, rtInstances, inst>>

DestroyMessenger(t) ==
  /\ Step(t, "destroy.messenger", "destroy.table")
  /\ rtMessengers' = IF messenger THEN rtMessengers \ {active} ELSE rtMessengers
  /\ UNCHANGED <<loader, rtInstances, inst>>

(* RuntimeInterface::DestroyInstance: the table first, then the instance.  *)
DestroyTable(t) ==
  /\ Step(t, "destroy.table", "destroy.call")
  /\ tables' = tables \ {inst[t]}
  /\ UNCHANGED <<active, messenger, rtLoaded, initialized, runtime, inst>>

DestroyCall(t) ==
  /\ Step(t, "destroy.call", "destroy.remove")
  /\ rtInstances' = rtInstances \ {inst[t]}
  /\ UNCHANGED <<loader, rtMessengers, inst>>

(* Seeded defect: the loader instance outlives its XrInstance.             *)
DestroyRemoveForgotten(t) ==
  /\ Step(t, "destroy.remove", "destroy.unload")
  /\ UNCHANGED <<loader, runtime, inst>>

DestroyRemove(t) ==
  /\ Step(t, "destroy.remove", "destroy.unload")
  /\ active' = None
  /\ messenger' = FALSE
  /\ UNCHANGED <<rtLoaded, tables, initialized, runtime, inst>>

DestroyUnload(t) ==
  /\ ReturnUnlock(t, "destroy.unload", "success")
  /\ UnloadRuntime
  /\ UNCHANGED <<active, messenger, initialized, runtime, granted>>

-----------------------------------------------------------------------------
(* xrEnumerateApiLayerProperties and xrEnumerateInstanceExtensionProperties *)

EnumBegin(t) ==
  /\ MayEnter
  /\ Enter(t, "enum.lock", None)
  /\ UNCHANGED <<mutex, loader, runtime, granted>>

(* Seeded defect: the enumeration does not take the lock.                  *)
EnumLockSkipsMutex(t) ==
  /\ Goto(t, "enum.lock", "enum.layers")
  /\ UNCHANGED <<mutex, loader, runtime, granted, inst, ret, calls>>

EnumLock(t) == Acquire(t, "enum.lock", "enum.layers")

(* Only the manifests are read: all of xrEnumerateApiLayerProperties, and  *)
(* the other call when it fails here or was asked about one layer.         *)
EnumLayersOnly(t) ==
  \E result \in {"success", "failed"} :
    /\ ReturnUnlock(t, "enum.layers", result)
    /\ UNCHANGED <<loader, runtime, granted>>

EnumLayers(t) ==
  /\ Step(t, "enum.layers", "enum.runtime")
  /\ UNCHANGED <<loader, runtime, inst>>

EnumLoadRuntime(t) ==
  /\ LoadRuntime(TRUE)
  /\ Step(t, "enum.runtime", "enum.query")
  /\ UNCHANGED <<active, messenger, tables, initialized, runtime, inst>>

EnumLoadRuntimeFails(t) ==
  /\ LoadRuntime(FALSE)
  /\ ReturnUnlock(t, "enum.runtime", "failed")
  /\ UNCHANGED <<active, messenger, tables, initialized, runtime, granted>>

(* The runtime's extensions are queried; the merge after the unlock uses   *)
(* only locals.                                                            *)
EnumQuery(t) ==
  \E result \in {"success", "failed"} :
    /\ ReturnUnlock(t, "enum.query", result)
    /\ UNCHANGED <<loader, runtime, granted>>

-----------------------------------------------------------------------------
(* xrInitializeLoaderKHR: InitializeLoaderInitData, without the lock.      *)

InitBegin(t) ==
  /\ MayEnter
  /\ InitSerialised => \A u \in Threads : pc[u] = "idle"
  /\ Enter(t, "init.check", None)
  /\ UNCHANGED <<mutex, loader, runtime, granted>>

InitCheck(t) ==
  /\ IF active # None
       THEN Return(t, "init.check", "failed") /\ UNCHANGED <<mutex, granted>>
       ELSE Step(t, "init.check", "init.unload") /\ UNCHANGED inst
  /\ UNCHANGED <<loader, runtime>>

InitUnload(t) ==
  /\ Step(t, "init.unload", "init.data")
  /\ UnloadRuntime
  /\ UNCHANGED <<active, messenger, initialized, runtime, inst>>

(* LoaderInitData::initialize; a failure never resets _initialized.        *)
InitData(t) ==
  \E ok \in BOOLEAN :
    /\ Return(t, "init.data", IF ok THEN "success" ELSE "failed")
    /\ initialized' = (initialized \/ ok)
    /\ UNCHANGED <<mutex, active, messenger, rtLoaded, tables, runtime, granted>>

-----------------------------------------------------------------------------
(* A call on an instance the application holds, or on one of its children: *)
(* every generated trampoline, and xrGetInstanceProcAddr on the instance.  *)

TrampolineBegin(t) ==
  \E h \in granted :
    /\ MayEnter
    /\ Enter(t, "call.get", h)
    /\ UNCHANGED <<mutex, loader, runtime, granted>>

TrampolineGet(t) ==
  /\ IF active = None
       THEN Return(t, "call.get", "handle_invalid") /\ UNCHANGED <<mutex, granted>>
       ELSE Step(t, "call.get", "call.runtime") /\ UNCHANGED inst
  /\ UNCHANGED <<loader, runtime>>

TrampolineReturn(t) ==
  /\ Return(t, "call.runtime", "success")
  /\ UNCHANGED <<mutex, loader, runtime, granted>>

-----------------------------------------------------------------------------

CreateLockedStep(t) ==
  \/ CreateLimitReached(t) \/ CreateAvailable(t) \/ CreateLoadRuntime(t)
  \/ CreateLoadLayers(t) \/ CreateCheckExtensions(t) \/ CreateCallFails(t)
  \/ CreateCall(t) \/ CreateTable(t) \/ CreateSet(t) \/ CreateNoMessenger(t)
  \/ CreateMessenger(t) \/ CreateMessengerFails(t) \/ CreateReturn(t) \/ CreateCleanup(t)

DestroyLockedStep(t) ==
  \/ DestroyGet(t) \/ DestroyMessenger(t) \/ DestroyTable(t) \/ DestroyCall(t)
  \/ DestroyRemove(t) \/ DestroyUnload(t)

EnumLockedStep(t) ==
  \/ EnumLayersOnly(t) \/ EnumLayers(t) \/ EnumLoadRuntime(t)
  \/ EnumLoadRuntimeFails(t) \/ EnumQuery(t)

LockStep(t) == CreateLock(t) \/ DestroyLock(t) \/ EnumLock(t)

InitStep(t) == InitCheck(t) \/ InitUnload(t) \/ InitData(t)

TrampolineStep(t) == TrampolineGet(t) \/ TrampolineReturn(t)

(* A step of a call already begun, which its thread goes on to take.       *)
InsideStep(t) ==
  \/ LockStep(t) \/ CreateLockedStep(t) \/ DestroyLockedStep(t) \/ EnumLockedStep(t)
  \/ InitStep(t) \/ TrampolineStep(t)

(* A step of the application: it may or may not make another call.         *)
BeginStep(t) ==
  \/ Rejected(t) \/ CreateBegin(t) \/ DestroyBegin(t) \/ EnumBegin(t)
  \/ InitBegin(t) \/ TrampolineBegin(t)

(* Every thread has made its calls: the bound, not a deadlock, stops here. *)
Finished ==
  /\ \A t \in Threads : pc[t] = "idle" /\ calls[t] = MaxCalls
  /\ UNCHANGED vars

Next == (\E t \in Threads : InsideStep(t) \/ BeginStep(t)) \/ Finished

Spec == Init /\ [][Next]_vars

(* A thread inside a call keeps running, and none of the functions it      *)
(* calls blocks for ever.                                                  *)
FairSpec == Spec /\ \A t \in Threads : WF_vars(InsideStep(t))
-----------------------------------------------------------------------------
(* Properties                                                              *)

(* No thread is about to use RuntimeInterface::GetRuntime(), or is inside  *)
(* the runtime, while no runtime is loaded.  This is what the loader's     *)
(* mutex is for: "Ensure RuntimeInterface isn't used to unload the runtime *)
(* while the runtime is in use" (loader_core.cpp:36-38).                   *)
RuntimeLoadedInUse == \A t \in Threads : pc[t] \in RuntimeSteps => rtLoaded

(* The runtime library is never closed with an XrInstance alive in it: no  *)
(* path to UnloadRuntime, of a failed creation, a destruction or           *)
(* xrInitializeLoaderKHR, forgets an instance the runtime still has.       *)
InstancesNeedRuntime == rtInstances # {} => rtLoaded

(* A handle xrCreateInstance returned works until the application destroys *)
(* it, whatever other threads do meanwhile: it is the active instance, the *)
(* runtime has it, and its dispatch table is there for the terminators.    *)
GrantedHandleWorks ==
  \A h \in granted :
    active = h /\ rtLoaded /\ h \in rtInstances /\ h \in tables

(* The terminators of the default messenger dereference the dispatch table *)
(* of its instance without a check, so the table must be in the map when   *)
(* xrCreateInstance makes the messenger and xrDestroyInstance frees it.    *)
TablePresentForMessenger ==
  \A t \in Threads :
    pc[t] \in {"create.messenger", "destroy.messenger"} => active \in tables

(* The default messenger never outlives its instance.                      *)
MessengerDiesFirst == rtMessengers \subseteq rtInstances

(* A creation that fails leaves neither an active instance nor a loaded    *)
(* runtime: "Ensure the global loader instance and runtime are destroyed   *)
(* if something went wrong" (loader_core.cpp:303).                         *)
FailedCreateCleansUp ==
  [][\A t \in Threads :
       pc[t] \in CreateLocked /\ ret'[t] = "failed" /\ ret[t] # "failed"
         => active' = None /\ ~rtLoaded']_vars

(* While no thread is in the loader, an instance exists only if the        *)
(* application holds its handle: one it cannot destroy would make every    *)
(* later xrCreateInstance return XR_ERROR_LIMIT_REACHED.                   *)
NoStrandedInstance ==
  (\A t \in Threads : pc[t] = "idle") =>
     /\ active = None <=> granted = {}
     /\ rtInstances = granted

(* Every call returns: no path keeps the mutex, and none waits for itself. *)
EveryCallReturns == \A t \in Threads : pc[t] # "idle" ~> pc[t] = "idle"

(* The loader implements the single slot of SingleInstance.                *)
PhaseOf(t) ==
  IF pc[t] \in {"create.messenger", "create.return"} THEN "created"
  ELSE IF pc[t] \in CreateLocked \cup {"create.lock"} THEN "creating"
  ELSE IF pc[t] \in (DestroyLocked \ {"destroy.unload"}) \cup {"destroy.lock"} THEN "destroying"
  ELSE IF pc[t] = "idle" /\ ret[t] = "limit_reached" THEN "denied"
  ELSE "idle"

Slot == INSTANCE SingleInstance WITH
          current <- active, phase <- [t \in Threads |-> PhaseOf(t)]

(* Every behaviour is one of the single slot: two racing creations never   *)
(* both succeed, and one is refused with XR_ERROR_LIMIT_REACHED only while *)
(* an instance exists.                                                     *)
ImplementsSlot == Slot!Spec

(* The application never holds two instances, nor one that is not active;  *)
(* while a thread makes or destroys an instance nobody holds any, and no   *)
(* second thread does either.                                              *)
NeverTwoInstances == Slot!Exclusive
-----------------------------------------------------------------------------
(* The inductive invariant behind the safety properties above, under       *)
(* InitSerialised: who holds the mutex, who owns the slot, and what each   *)
(* label knows of the loader's state.                                      *)

(* A creation past the runtime's xrCreateInstance has a handle.            *)
HandleInv ==
  \A t \in Threads :
    pc[t] \in {"create.table", "create.set", "create.messenger", "create.return"} =>
      inst[t] \in Handles

MutexInv == \A t \in Threads : pc[t] \in Locked <=> mutex = t

InitAlone ==
  \A t, u \in Threads : pc[t] \in InitSteps /\ u # t => pc[u] = "idle"

(* Labels of a thread that has taken the slot and not yet granted it, or   *)
(* has given the handle up and not yet emptied the slot.                   *)
Creating   == {"create.messenger", "create.return"}
Destroying == {"destroy.lock"} \cup (DestroyLocked \ {"destroy.unload"})

OwnerInv ==
  \A t \in Threads :
    pc[t] \in Creating \cup Destroying =>
      /\ granted = {}
      /\ active = inst[t] /\ active # None
      /\ \A u \in Threads : pc[u] \in Creating \cup Destroying => u = t

EmptySlotLabels ==
  {"create.runtime", "create.layers", "create.extensions", "create.call", "create.table",
   "create.set", "create.cleanup", "destroy.unload", "init.unload"}

LoadedLabels ==
  RuntimeSteps \cup {"create.layers", "create.set", "create.return", "destroy.lock",
                     "destroy.get", "call.get"}

InstanceLabels ==
  {"create.table", "create.set", "create.messenger", "create.return", "destroy.lock",
   "destroy.get", "destroy.messenger", "destroy.table", "destroy.call"}

TableLabels ==
  {"create.set", "create.messenger", "create.return", "destroy.lock", "destroy.get",
   "destroy.messenger", "destroy.table"}

LabelInv ==
  \A t \in Threads :
    /\ pc[t] \in EmptySlotLabels => active = None
    /\ pc[t] \in LoadedLabels => rtLoaded
    /\ pc[t] \in InstanceLabels => inst[t] \in rtInstances
    /\ pc[t] \in TableLabels => inst[t] \in tables
    /\ pc[t] \in TrampolineSteps => inst[t] \in granted
    /\ pc[t] \in {"destroy.table", "destroy.call", "destroy.remove"} => rtMessengers = {}
    /\ pc[t] = "destroy.remove" => active \notin rtInstances

(* The runtime's instances are the active one and one being created.       *)
OwnedInv ==
  /\ \A h \in rtInstances :
       \/ h = active
       \/ \E t \in Threads : pc[t] \in {"create.table", "create.set"} /\ inst[t] = h
  /\ rtInstances # {} => rtLoaded
  /\ rtMessengers # {} => messenger /\ active # None /\ rtMessengers = {active}
  /\ rtMessengers \subseteq rtInstances

LifecycleInv ==
  /\ TypeOK /\ HandleInv /\ MutexInv /\ InitAlone /\ OwnerInv
  /\ LabelInv /\ OwnedInv /\ GrantedHandleWorks

(* A slot that is taken has somebody who will empty it: the application,   *)
(* which holds the handle, or a thread about to grant or destroy it.       *)
HolderInv ==
  active # None /\ granted = {} => \E t \in Threads : pc[t] \in Creating \cup Destroying
=============================================================================
