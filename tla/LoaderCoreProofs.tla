-------------------------- MODULE LoaderCoreProofs --------------------------
(***************************************************************************)
(* Proofs about LoaderCore, for any set of threads, any set of handles and *)
(* any number of calls.  TypeOK is inductive by itself.  The safety        *)
(* properties follow from LifecycleInv, which is inductive when the        *)
(* application runs xrInitializeLoaderKHR alone (InitSerialised): without  *)
(* that, RuntimeLoadedInUse is false and TLC has the counterexample.       *)
(***************************************************************************)
EXTENDS LoaderCore, TLAPS

USE LoaderCoreAssumption
    DEF Locked, CreateLocked, DestroyLocked, EnumLocked, InitSteps, TrampolineSteps, Labels,
        RuntimeSteps, Results, Creating, Destroying, EmptySlotLabels, LoadedLabels,
        InstanceLabels, TableLabels, vars, loader, runtime

-----------------------------------------------------------------------------
(* The types                                                               *)

(* Beginning a call preserves the types.                                   *)
LEMMA BeginStepType ==
  ASSUME TypeOK, HandleInv, NEW t \in Threads, BeginStep(t)
  PROVE  TypeOK' /\ HandleInv'
<1>1. CASE Rejected(t)
  BY <1>1 DEF TypeOK, HandleInv, Rejected, MayEnter
<1>2. CASE CreateBegin(t)
  BY <1>2 DEF TypeOK, HandleInv, CreateBegin, Enter, Goto, MayEnter
<1>3. CASE DestroyBegin(t)
  BY <1>3 DEF TypeOK, HandleInv, DestroyBegin, Enter, Goto, MayEnter
<1>4. CASE EnumBegin(t)
  BY <1>4 DEF TypeOK, HandleInv, EnumBegin, Enter, Goto, MayEnter
<1>5. CASE InitBegin(t)
  BY <1>5 DEF TypeOK, HandleInv, InitBegin, Enter, Goto, MayEnter
<1>6. CASE TrampolineBegin(t)
  BY <1>6 DEF TypeOK, HandleInv, TrampolineBegin, Enter, Goto, MayEnter
<1> QED
  BY <1>1, <1>2, <1>3, <1>4, <1>5, <1>6 DEF BeginStep

(* Taking the lock preserves the types.                                    *)
LEMMA LockStepType ==
  ASSUME TypeOK, HandleInv, NEW t \in Threads, LockStep(t)
  PROVE  TypeOK' /\ HandleInv'
<1>1. CASE CreateLock(t)
  BY <1>1 DEF TypeOK, HandleInv, CreateLock, Acquire, Goto
<1>2. CASE DestroyLock(t)
  BY <1>2 DEF TypeOK, HandleInv, DestroyLock, Acquire, Goto
<1>3. CASE EnumLock(t)
  BY <1>3 DEF TypeOK, HandleInv, EnumLock, Acquire, Goto
<1> QED
  BY <1>1, <1>2, <1>3 DEF LockStep

(* xrCreateInstance preserves the types.                                   *)
LEMMA CreateLockedStepType ==
  ASSUME TypeOK, HandleInv, NEW t \in Threads, CreateLockedStep(t)
  PROVE  TypeOK' /\ HandleInv'
<1>1. CASE CreateLimitReached(t)
  BY <1>1 DEF TypeOK, HandleInv, CreateLimitReached, ReturnUnlock, Return, Goto
<1>2. CASE CreateAvailable(t)
  BY <1>2 DEF TypeOK, HandleInv, CreateAvailable, Step, Goto
<1>3. CASE CreateLoadRuntime(t)
  BY <1>3 DEF TypeOK, HandleInv, CreateLoadRuntime, LoadRuntime, Step, Goto
<1>4. CASE CreateLoadLayers(t)
  BY <1>4 DEF TypeOK, HandleInv, CreateLoadLayers, Step, Goto
<1>5. CASE CreateCheckExtensions(t)
  BY <1>5 DEF TypeOK, HandleInv, CreateCheckExtensions, Step, Goto
<1>6. CASE CreateCallFails(t)
  BY <1>6 DEF TypeOK, HandleInv, CreateCallFails, Step, Goto
<1>7. CASE CreateCall(t)
  BY <1>7 DEF TypeOK, HandleInv, CreateCall, Step, Goto
<1>8. CASE CreateTable(t)
  BY <1>8 DEF TypeOK, HandleInv, CreateTable, Step, Goto
<1>9. CASE CreateSet(t)
  BY <1>9 DEF TypeOK, HandleInv, CreateSet, Step, Goto
<1>10. CASE CreateNoMessenger(t)
  BY <1>10 DEF TypeOK, HandleInv, CreateNoMessenger, Step, Goto
<1>11. CASE CreateMessenger(t)
  BY <1>11 DEF TypeOK, HandleInv, CreateMessenger, Step, Goto
<1>12. CASE CreateMessengerFails(t)
  BY <1>12 DEF TypeOK, HandleInv, CreateMessengerFails, ReturnUnlock, Return, Goto
<1>13. CASE CreateReturn(t)
  BY <1>13 DEF TypeOK, HandleInv, CreateReturn, ReturnUnlock, Return, Goto
<1>14. CASE CreateCleanup(t)
  BY <1>14 DEF TypeOK, HandleInv, CreateCleanup, ReturnUnlock, Return, Goto, UnloadRuntime
<1> QED
  BY <1>1, <1>2, <1>3, <1>4, <1>5, <1>6, <1>7, <1>8, <1>9, <1>10, <1>11, <1>12, <1>13, <1>14 DEF CreateLockedStep

(* xrDestroyInstance preserves the types.                                  *)
LEMMA DestroyLockedStepType ==
  ASSUME TypeOK, HandleInv, NEW t \in Threads, DestroyLockedStep(t)
  PROVE  TypeOK' /\ HandleInv'
<1>1. CASE DestroyGet(t)
  BY <1>1 DEF TypeOK, HandleInv, DestroyGet, ReturnUnlock, Return, Step, Goto
<1>2. CASE DestroyMessenger(t)
  BY <1>2 DEF TypeOK, HandleInv, DestroyMessenger, Step, Goto
<1>3. CASE DestroyTable(t)
  BY <1>3 DEF TypeOK, HandleInv, DestroyTable, Step, Goto
<1>4. CASE DestroyCall(t)
  BY <1>4 DEF TypeOK, HandleInv, DestroyCall, Step, Goto
<1>5. CASE DestroyRemove(t)
  BY <1>5 DEF TypeOK, HandleInv, DestroyRemove, Step, Goto
<1>6. CASE DestroyUnload(t)
  BY <1>6 DEF TypeOK, HandleInv, DestroyUnload, ReturnUnlock, Return, Goto, UnloadRuntime
<1> QED
  BY <1>1, <1>2, <1>3, <1>4, <1>5, <1>6 DEF DestroyLockedStep

(* The enumerations preserves the types.                                   *)
LEMMA EnumLockedStepType ==
  ASSUME TypeOK, HandleInv, NEW t \in Threads, EnumLockedStep(t)
  PROVE  TypeOK' /\ HandleInv'
<1>1. CASE EnumLayersOnly(t)
  BY <1>1 DEF TypeOK, HandleInv, EnumLayersOnly, ReturnUnlock, Return, Goto
<1>2. CASE EnumLayers(t)
  BY <1>2 DEF TypeOK, HandleInv, EnumLayers, Step, Goto
<1>3. CASE EnumLoadRuntime(t)
  BY <1>3 DEF TypeOK, HandleInv, EnumLoadRuntime, LoadRuntime, Step, Goto
<1>4. CASE EnumLoadRuntimeFails(t)
  BY <1>4 DEF TypeOK, HandleInv, EnumLoadRuntimeFails, LoadRuntime, ReturnUnlock, Return, Goto
<1>5. CASE EnumQuery(t)
  BY <1>5 DEF TypeOK, HandleInv, EnumQuery, ReturnUnlock, Return, Goto
<1> QED
  BY <1>1, <1>2, <1>3, <1>4, <1>5 DEF EnumLockedStep

(* xrInitializeLoaderKHR preserves the types.                              *)
LEMMA InitStepType ==
  ASSUME TypeOK, HandleInv, NEW t \in Threads, InitStep(t)
  PROVE  TypeOK' /\ HandleInv'
<1>1. CASE InitCheck(t)
  BY <1>1 DEF TypeOK, HandleInv, InitCheck, Return, Step, Goto
<1>2. CASE InitUnload(t)
  BY <1>2 DEF TypeOK, HandleInv, InitUnload, Step, Goto, UnloadRuntime
<1>3. CASE InitData(t)
  BY <1>3 DEF TypeOK, HandleInv, InitData, Return, Goto
<1> QED
  BY <1>1, <1>2, <1>3 DEF InitStep

(* The trampolines preserves the types.                                    *)
LEMMA TrampolineStepType ==
  ASSUME TypeOK, HandleInv, NEW t \in Threads, TrampolineStep(t)
  PROVE  TypeOK' /\ HandleInv'
<1>1. CASE TrampolineGet(t)
  BY <1>1 DEF TypeOK, HandleInv, TrampolineGet, Return, Step, Goto
<1>2. CASE TrampolineReturn(t)
  BY <1>2 DEF TypeOK, HandleInv, TrampolineReturn, Return, Goto
<1> QED
  BY <1>1, <1>2 DEF TrampolineStep

(* The initial values are of their types.                                  *)
LEMMA InitType ==
  ASSUME Init
  PROVE  TypeOK /\ HandleInv
<1>1. calls \in [Threads -> 0..MaxCalls]
  <2>1. 0 \in 0..MaxCalls
    OBVIOUS
  <2> QED
    BY <2>1 DEF Init
<1>2. /\ pc \in [Threads -> Labels]
      /\ inst \in [Threads -> Handles \cup {None}]
      /\ ret \in [Threads -> Results]
  BY DEF Init
<1> QED
  BY <1>1, <1>2 DEF Init, TypeOK, HandleInv

(* The types of every variable hold in every reachable state, in every     *)
(* build and under every discipline of the application.                    *)
THEOREM TypeCorrect == Spec => []TypeOK
<1> DEFINE TInv == TypeOK /\ HandleInv
<1>1. Init => TInv
  BY InitType
<1>2. TInv /\ [Next]_vars => TInv'
  <2> SUFFICES ASSUME TInv, [Next]_vars
               PROVE  TInv'
    OBVIOUS
  <2>1. CASE UNCHANGED vars
    BY <2>1 DEF TypeOK, HandleInv
  <2>2. CASE Finished
    BY <2>2 DEF TypeOK, HandleInv, Finished
  <2>3. ASSUME NEW t \in Threads, InsideStep(t) \/ BeginStep(t)
        PROVE  TInv'
    BY <2>3, BeginStepType, LockStepType, CreateLockedStepType, DestroyLockedStepType,
       EnumLockedStepType, InitStepType, TrampolineStepType DEF InsideStep
  <2> QED
    BY <2>1, <2>2, <2>3 DEF Next
<1> QED
  BY <1>1, <1>2, PTL DEF Spec

-----------------------------------------------------------------------------
(* The inductive invariant                                                 *)

(* Beginning a call preserves the invariant.                               *)
LEMMA BeginStepInv ==
  ASSUME InitSerialised, LifecycleInv, NEW t \in Threads, BeginStep(t)
  PROVE  LifecycleInv'
<1> USE DEF LifecycleInv, MutexInv, InitAlone, OwnerInv, LabelInv, OwnedInv, GrantedHandleWorks
<1>0. TypeOK /\ TypeOK' /\ HandleInv /\ HandleInv'
  BY BeginStepType
<1>1. CASE Rejected(t)
  BY <1>0, <1>1 DEF TypeOK, HandleInv, Rejected, MayEnter
<1>2. CASE CreateBegin(t)
  BY <1>0, <1>2 DEF TypeOK, HandleInv, CreateBegin, Enter, Goto, MayEnter
<1>3. CASE DestroyBegin(t)
  BY <1>0, <1>3 DEF TypeOK, HandleInv, DestroyBegin, Enter, Goto, MayEnter
<1>4. CASE EnumBegin(t)
  BY <1>0, <1>4 DEF TypeOK, HandleInv, EnumBegin, Enter, Goto, MayEnter
<1>5. CASE InitBegin(t)
  BY <1>0, <1>5 DEF TypeOK, HandleInv, InitBegin, Enter, Goto, MayEnter
<1>6. CASE TrampolineBegin(t)
  <2> USE <1>0, <1>6 DEF TypeOK, HandleInv, TrampolineBegin, Enter, Goto, MayEnter
  <2>1. MutexInv'
    OBVIOUS
  <2>2. InitAlone'
    OBVIOUS
  <2>3. OwnerInv'
    OBVIOUS
  <2>4. LabelInv'
    OBVIOUS
  <2>5. OwnedInv'
    OBVIOUS
  <2>6. GrantedHandleWorks'
    OBVIOUS
  <2> QED
    BY <1>0, <2>1, <2>2, <2>3, <2>4, <2>5, <2>6
<1> QED
  BY <1>1, <1>2, <1>3, <1>4, <1>5, <1>6 DEF BeginStep

(* Taking the lock preserves the invariant.                                *)
LEMMA LockStepInv ==
  ASSUME InitSerialised, LifecycleInv, NEW t \in Threads, LockStep(t)
  PROVE  LifecycleInv'
<1> USE DEF LifecycleInv, MutexInv, InitAlone, OwnerInv, LabelInv, OwnedInv, GrantedHandleWorks
<1>0. TypeOK /\ TypeOK' /\ HandleInv /\ HandleInv'
  BY LockStepType
<1>1. CASE CreateLock(t)
  BY <1>0, <1>1 DEF TypeOK, HandleInv, CreateLock, Acquire, Goto
<1>2. CASE DestroyLock(t)
  BY <1>0, <1>2 DEF TypeOK, HandleInv, DestroyLock, Acquire, Goto
<1>3. CASE EnumLock(t)
  BY <1>0, <1>3 DEF TypeOK, HandleInv, EnumLock, Acquire, Goto
<1> QED
  BY <1>1, <1>2, <1>3 DEF LockStep

(* xrCreateInstance preserves the invariant.                               *)
LEMMA CreateLockedStepInv ==
  ASSUME InitSerialised, LifecycleInv, NEW t \in Threads, CreateLockedStep(t)
  PROVE  LifecycleInv'
<1> USE DEF LifecycleInv, MutexInv, InitAlone, OwnerInv, LabelInv, OwnedInv, GrantedHandleWorks
<1>0. TypeOK /\ TypeOK' /\ HandleInv /\ HandleInv'
  BY CreateLockedStepType
<1>1. CASE CreateLimitReached(t)
  BY <1>0, <1>1 DEF TypeOK, HandleInv, CreateLimitReached, ReturnUnlock, Return, Goto
<1>2. CASE CreateAvailable(t)
  BY <1>0, <1>2 DEF TypeOK, HandleInv, CreateAvailable, Step, Goto
<1>3. CASE CreateLoadRuntime(t)
  BY <1>0, <1>3 DEF TypeOK, HandleInv, CreateLoadRuntime, LoadRuntime, Step, Goto
<1>4. CASE CreateLoadLayers(t)
  BY <1>0, <1>4 DEF TypeOK, HandleInv, CreateLoadLayers, Step, Goto
<1>5. CASE CreateCheckExtensions(t)
  BY <1>0, <1>5 DEF TypeOK, HandleInv, CreateCheckExtensions, Step, Goto
<1>6. CASE CreateCallFails(t)
  BY <1>0, <1>6 DEF TypeOK, HandleInv, CreateCallFails, Step, Goto
<1>7. CASE CreateCall(t)
  <2> USE <1>0, <1>7 DEF TypeOK, HandleInv, CreateCall, Step, Goto
  <2>1. MutexInv'
    OBVIOUS
  <2>2. InitAlone'
    OBVIOUS
  <2>3. OwnerInv'
    OBVIOUS
  <2>4. LabelInv'
    OBVIOUS
  <2>5. OwnedInv'
    OBVIOUS
  <2>6. GrantedHandleWorks'
    OBVIOUS
  <2> QED
    BY <1>0, <2>1, <2>2, <2>3, <2>4, <2>5, <2>6
<1>8. CASE CreateTable(t)
  BY <1>0, <1>8 DEF TypeOK, HandleInv, CreateTable, Step, Goto
<1>9. CASE CreateSet(t)
  <2> USE <1>0, <1>9 DEF TypeOK, HandleInv, CreateSet, Step, Goto
  <2>1. MutexInv'
    OBVIOUS
  <2>2. InitAlone'
    OBVIOUS
  <2>3. OwnerInv'
    OBVIOUS
  <2>4. LabelInv'
    OBVIOUS
  <2>5. OwnedInv'
    OBVIOUS
  <2>6. GrantedHandleWorks'
    OBVIOUS
  <2> QED
    BY <1>0, <2>1, <2>2, <2>3, <2>4, <2>5, <2>6
<1>10. CASE CreateNoMessenger(t)
  BY <1>0, <1>10 DEF TypeOK, HandleInv, CreateNoMessenger, Step, Goto
<1>11. CASE CreateMessenger(t)
  BY <1>0, <1>11 DEF TypeOK, HandleInv, CreateMessenger, Step, Goto
<1>12. CASE CreateMessengerFails(t)
  BY <1>0, <1>12 DEF TypeOK, HandleInv, CreateMessengerFails, ReturnUnlock, Return, Goto
<1>13. CASE CreateReturn(t)
  BY <1>0, <1>13 DEF TypeOK, HandleInv, CreateReturn, ReturnUnlock, Return, Goto
<1>14. CASE CreateCleanup(t)
  <2> USE <1>0, <1>14 DEF TypeOK, HandleInv, CreateCleanup, ReturnUnlock, Return, Goto, UnloadRuntime
  <2>1. MutexInv'
    OBVIOUS
  <2>2. InitAlone'
    OBVIOUS
  <2>3. OwnerInv'
    OBVIOUS
  <2>4. LabelInv'
    OBVIOUS
  <2>5. OwnedInv'
    OBVIOUS
  <2>6. GrantedHandleWorks'
    OBVIOUS
  <2> QED
    BY <1>0, <2>1, <2>2, <2>3, <2>4, <2>5, <2>6
<1> QED
  BY <1>1, <1>2, <1>3, <1>4, <1>5, <1>6, <1>7, <1>8, <1>9, <1>10, <1>11, <1>12, <1>13, <1>14 DEF CreateLockedStep

(* xrDestroyInstance preserves the invariant.                              *)
LEMMA DestroyLockedStepInv ==
  ASSUME InitSerialised, LifecycleInv, NEW t \in Threads, DestroyLockedStep(t)
  PROVE  LifecycleInv'
<1> USE DEF LifecycleInv, MutexInv, InitAlone, OwnerInv, LabelInv, OwnedInv, GrantedHandleWorks
<1>0. TypeOK /\ TypeOK' /\ HandleInv /\ HandleInv'
  BY DestroyLockedStepType
<1>1. CASE DestroyGet(t)
  BY <1>0, <1>1 DEF TypeOK, HandleInv, DestroyGet, ReturnUnlock, Return, Step, Goto
<1>2. CASE DestroyMessenger(t)
  BY <1>0, <1>2 DEF TypeOK, HandleInv, DestroyMessenger, Step, Goto
<1>3. CASE DestroyTable(t)
  BY <1>0, <1>3 DEF TypeOK, HandleInv, DestroyTable, Step, Goto
<1>4. CASE DestroyCall(t)
  BY <1>0, <1>4 DEF TypeOK, HandleInv, DestroyCall, Step, Goto
<1>5. CASE DestroyRemove(t)
  BY <1>0, <1>5 DEF TypeOK, HandleInv, DestroyRemove, Step, Goto
<1>6. CASE DestroyUnload(t)
  <2> USE <1>0, <1>6 DEF TypeOK, HandleInv, DestroyUnload, ReturnUnlock, Return, Goto, UnloadRuntime
  <2>1. MutexInv'
    OBVIOUS
  <2>2. InitAlone'
    OBVIOUS
  <2>3. OwnerInv'
    OBVIOUS
  <2>4. LabelInv'
    OBVIOUS
  <2>5. OwnedInv'
    OBVIOUS
  <2>6. GrantedHandleWorks'
    OBVIOUS
  <2> QED
    BY <1>0, <2>1, <2>2, <2>3, <2>4, <2>5, <2>6
<1> QED
  BY <1>1, <1>2, <1>3, <1>4, <1>5, <1>6 DEF DestroyLockedStep

(* The enumerations preserves the invariant.                               *)
LEMMA EnumLockedStepInv ==
  ASSUME InitSerialised, LifecycleInv, NEW t \in Threads, EnumLockedStep(t)
  PROVE  LifecycleInv'
<1> USE DEF LifecycleInv, MutexInv, InitAlone, OwnerInv, LabelInv, OwnedInv, GrantedHandleWorks
<1>0. TypeOK /\ TypeOK' /\ HandleInv /\ HandleInv'
  BY EnumLockedStepType
<1>1. CASE EnumLayersOnly(t)
  BY <1>0, <1>1 DEF TypeOK, HandleInv, EnumLayersOnly, ReturnUnlock, Return, Goto
<1>2. CASE EnumLayers(t)
  BY <1>0, <1>2 DEF TypeOK, HandleInv, EnumLayers, Step, Goto
<1>3. CASE EnumLoadRuntime(t)
  BY <1>0, <1>3 DEF TypeOK, HandleInv, EnumLoadRuntime, LoadRuntime, Step, Goto
<1>4. CASE EnumLoadRuntimeFails(t)
  BY <1>0, <1>4 DEF TypeOK, HandleInv, EnumLoadRuntimeFails, LoadRuntime, ReturnUnlock, Return, Goto
<1>5. CASE EnumQuery(t)
  BY <1>0, <1>5 DEF TypeOK, HandleInv, EnumQuery, ReturnUnlock, Return, Goto
<1> QED
  BY <1>1, <1>2, <1>3, <1>4, <1>5 DEF EnumLockedStep

(* xrInitializeLoaderKHR preserves the invariant.                          *)
LEMMA InitStepInv ==
  ASSUME InitSerialised, LifecycleInv, NEW t \in Threads, InitStep(t)
  PROVE  LifecycleInv'
<1> USE DEF LifecycleInv, MutexInv, InitAlone, OwnerInv, LabelInv, OwnedInv, GrantedHandleWorks
<1>0. TypeOK /\ TypeOK' /\ HandleInv /\ HandleInv'
  BY InitStepType
<1>1. CASE InitCheck(t)
  BY <1>0, <1>1 DEF TypeOK, HandleInv, InitCheck, Return, Step, Goto
<1>2. CASE InitUnload(t)
  <2> USE <1>0, <1>2 DEF TypeOK, HandleInv, InitUnload, Step, Goto, UnloadRuntime
  <2>1. MutexInv'
    OBVIOUS
  <2>2. InitAlone'
    OBVIOUS
  <2>3. OwnerInv'
    OBVIOUS
  <2>4. LabelInv'
    OBVIOUS
  <2>5. OwnedInv'
    OBVIOUS
  <2>6. GrantedHandleWorks'
    OBVIOUS
  <2> QED
    BY <1>0, <2>1, <2>2, <2>3, <2>4, <2>5, <2>6
<1>3. CASE InitData(t)
  BY <1>0, <1>3 DEF TypeOK, HandleInv, InitData, Return, Goto
<1> QED
  BY <1>1, <1>2, <1>3 DEF InitStep

(* The trampolines preserves the invariant.                                *)
LEMMA TrampolineStepInv ==
  ASSUME InitSerialised, LifecycleInv, NEW t \in Threads, TrampolineStep(t)
  PROVE  LifecycleInv'
<1> USE DEF LifecycleInv, MutexInv, InitAlone, OwnerInv, LabelInv, OwnedInv, GrantedHandleWorks
<1>0. TypeOK /\ TypeOK' /\ HandleInv /\ HandleInv'
  BY TrampolineStepType
<1>1. CASE TrampolineGet(t)
  BY <1>0, <1>1 DEF TypeOK, HandleInv, TrampolineGet, Return, Step, Goto
<1>2. CASE TrampolineReturn(t)
  BY <1>0, <1>2 DEF TypeOK, HandleInv, TrampolineReturn, Return, Goto
<1> QED
  BY <1>1, <1>2 DEF TrampolineStep

(* Every reachable state satisfies the invariant.                          *)
THEOREM LifecycleInvariant ==
  ASSUME InitSerialised
  PROVE  Spec => []LifecycleInv
<1>1. Init => LifecycleInv
  BY InitType DEF Init, LifecycleInv, MutexInv, InitAlone, OwnerInv, LabelInv, OwnedInv,
         GrantedHandleWorks
<1>2. LifecycleInv /\ [Next]_vars => LifecycleInv'
  <2> SUFFICES ASSUME LifecycleInv, [Next]_vars
               PROVE  LifecycleInv'
    OBVIOUS
  <2>1. CASE UNCHANGED vars
    BY <2>1 DEF LifecycleInv, TypeOK, HandleInv, MutexInv, InitAlone, OwnerInv, LabelInv, OwnedInv,
                GrantedHandleWorks
  <2>2. CASE Finished
    BY <2>2 DEF Finished, LifecycleInv, TypeOK, HandleInv, MutexInv, InitAlone, OwnerInv, LabelInv,
                OwnedInv, GrantedHandleWorks
  <2>3. ASSUME NEW t \in Threads, InsideStep(t) \/ BeginStep(t)
        PROVE  LifecycleInv'
    BY <2>3, BeginStepInv, LockStepInv, CreateLockedStepInv, DestroyLockedStepInv,
       EnumLockedStepInv, InitStepInv, TrampolineStepInv DEF InsideStep
  <2> QED
    BY <2>1, <2>2, <2>3 DEF Next
<1> QED
  BY <1>1, <1>2, PTL DEF Spec

-----------------------------------------------------------------------------
(* What follows                                                            *)

(* No thread is inside the runtime, or about to use RuntimeInterface,      *)
(* while no runtime is loaded (the purpose of GetGlobalLoaderMutex).       *)
THEOREM RuntimeStaysLoadedInUse ==
  ASSUME InitSerialised
  PROVE  Spec => []RuntimeLoadedInUse
<1>1. LifecycleInv => RuntimeLoadedInUse
  BY DEF LifecycleInv, LabelInv, RuntimeLoadedInUse
<1> QED
  BY <1>1, LifecycleInvariant, PTL

(* A handle xrCreateInstance returned names the active instance, its       *)
(* runtime and its dispatch table until the application destroys it.       *)
THEOREM GrantedHandlesWork ==
  ASSUME InitSerialised
  PROVE  Spec => []GrantedHandleWorks
<1>1. LifecycleInv => GrantedHandleWorks
  BY DEF LifecycleInv
<1> QED
  BY <1>1, LifecycleInvariant, PTL

(* The runtime library is never closed with an XrInstance alive in it.     *)
THEOREM NothingOutlivesItsOwner ==
  ASSUME InitSerialised
  PROVE  Spec => []InstancesNeedRuntime
<1>1. LifecycleInv => InstancesNeedRuntime
  BY DEF LifecycleInv, OwnedInv, InstancesNeedRuntime
<1> QED
  BY <1>1, LifecycleInvariant, PTL

(* The default messenger never outlives its instance.                      *)
THEOREM MessengersDieFirst ==
  ASSUME InitSerialised
  PROVE  Spec => []MessengerDiesFirst
<1>1. LifecycleInv => MessengerDiesFirst
  BY DEF LifecycleInv, OwnedInv, MessengerDiesFirst
<1> QED
  BY <1>1, LifecycleInvariant, PTL

(* The terminators that make and free the default messenger find the       *)
(* dispatch table they dereference.                                        *)
THEOREM MessengerTableIsPresent ==
  ASSUME InitSerialised
  PROVE  Spec => []TablePresentForMessenger
<1>1. LifecycleInv => TablePresentForMessenger
  BY DEF LifecycleInv, OwnerInv, LabelInv, TablePresentForMessenger
<1> QED
  BY <1>1, LifecycleInvariant, PTL

-----------------------------------------------------------------------------
(* LoaderCore implements SingleInstance, for any threads, handles and      *)
(* number of calls, when the application runs xrInitializeLoaderKHR alone  *)
(* and the messenger of the "next" chain can be created.  Without the      *)
(* second condition it does not: see FailedCreateCleansUp.                 *)

Phase == [t \in Threads |-> PhaseOf(t)]

(* A step of thread t leaves the phases of the others alone.               *)
LEMMA PhaseMoves ==
  ASSUME TypeOK, NEW t \in Threads,
         \A u \in Threads : u # t => pc'[u] = pc[u] /\ ret'[u] = ret[u]
  PROVE  Phase' = [Phase EXCEPT ![t] = PhaseOf(t)']
<1>1. \A u \in Threads : u # t => PhaseOf(u)' = PhaseOf(u)
  BY DEF PhaseOf
<1> QED
  BY <1>1 DEF Phase

(* The steps of each group do to the slot what SingleInstance allows.      *)
LEMMA BeginStepSlot ==
  ASSUME TypeOK, NEW t \in Threads, BeginStep(t)
  PROVE  [Slot!Next]_(Slot!vars)
<1> DEFINE Held == active' = active /\ granted' = granted
<1>1. \A u \in Threads : u # t => pc'[u] = pc[u] /\ ret'[u] = ret[u]
  BY DEF BeginStep, Rejected, CreateBegin, DestroyBegin, EnumBegin, InitBegin, TrampolineBegin,
         Enter, Goto, TypeOK
<1>2. Phase' = [Phase EXCEPT ![t] = PhaseOf(t)']
  BY <1>1, PhaseMoves
<1>3. Phase[t] \in {"idle", "denied"}
  BY DEF Phase, PhaseOf, BeginStep, Rejected, CreateBegin, DestroyBegin, EnumBegin, InitBegin,
         TrampolineBegin, Enter, Goto
<1>4. CASE CreateBegin(t)
  <2>1. PhaseOf(t)' = "creating" /\ Held
    BY <1>4 DEF CreateBegin, Enter, Goto, PhaseOf, TypeOK
  <2> QED
    BY <1>2, <1>3, <2>1 DEF Slot!Next, Slot!BeginCreate, Slot!Move, Phase
<1>5. CASE DestroyBegin(t)
  <2>1. PhaseOf(t)' = "destroying" /\ active' = active
    BY <1>5 DEF DestroyBegin, Enter, Goto, PhaseOf, TypeOK
  <2>2. \E h \in granted : granted' = granted \ {h}
    BY <1>5 DEF DestroyBegin
  <2> QED
    BY <1>2, <1>3, <2>1, <2>2 DEF Slot!Next, Slot!BeginDestroy, Slot!Move, Phase
<1>6. CASE Rejected(t) \/ EnumBegin(t) \/ InitBegin(t) \/ TrampolineBegin(t)
  <2>1. PhaseOf(t)' = "idle" /\ Held
    BY <1>6 DEF Rejected, EnumBegin, InitBegin, TrampolineBegin, Enter, Goto, PhaseOf, TypeOK
  <2>2. CASE Phase[t] = "denied"
    BY <1>2, <2>1, <2>2 DEF Slot!Next, Slot!Forget, Slot!Move, Phase
  <2>3. CASE Phase[t] = "idle"
    BY <1>2, <2>1, <2>3 DEF Slot!vars, Phase
  <2> QED
    BY <1>3, <2>2, <2>3
<1> QED
  BY <1>4, <1>5, <1>6 DEF BeginStep

LEMMA CreateLockedStepSlot ==
  ASSUME LifecycleInv, ~MessengerMayFail, NEW t \in Threads, CreateLockedStep(t)
  PROVE  [Slot!Next]_(Slot!vars)
<1> DEFINE Held == active' = active /\ granted' = granted
<1> USE DEF LifecycleInv
<1>1. \A u \in Threads : u # t => pc'[u] = pc[u] /\ ret'[u] = ret[u]
  BY DEF CreateLockedStep, CreateLimitReached, CreateAvailable, CreateLoadRuntime,
         CreateLoadLayers, CreateCheckExtensions, CreateCallFails, CreateCall, CreateTable,
         CreateSet, CreateNoMessenger, CreateMessenger, CreateMessengerFails, CreateReturn,
         CreateCleanup, Step, ReturnUnlock, Return, Goto, TypeOK
<1>2. Phase' = [Phase EXCEPT ![t] = PhaseOf(t)']
  BY <1>1, PhaseMoves
<1>3. Phase[t] = PhaseOf(t)
  BY DEF Phase
<1>4. CASE CreateLimitReached(t)
  <2>1. PhaseOf(t) = "creating" /\ PhaseOf(t)' = "denied" /\ Held /\ active # None
    BY <1>4 DEF CreateLimitReached, ReturnUnlock, Return, Goto, PhaseOf, TypeOK
  <2> QED
    BY <1>2, <1>3, <2>1 DEF Slot!Next, Slot!Deny, Slot!Move, Phase
<1>5. CASE CreateSet(t)
  <2>1. active = None /\ inst[t] \in Handles
    BY <1>5 DEF CreateSet, Step, Goto, LabelInv, HandleInv
  <2>2. PhaseOf(t) = "creating" /\ PhaseOf(t)' = "created"
    BY <1>5, <2>1 DEF CreateSet, Step, Goto, PhaseOf, TypeOK
  <2>3. active' \in Handles /\ granted' = granted
    BY <1>5, <2>1 DEF CreateSet, Step
  <2> QED
    BY <1>2, <1>3, <2>1, <2>2, <2>3 DEF Slot!Next, Slot!Take, Slot!Move, Phase
<1>6. CASE CreateReturn(t)
  <2>1. PhaseOf(t) = "created" /\ PhaseOf(t)' = "idle"
    BY <1>6 DEF CreateReturn, ReturnUnlock, Return, Goto, PhaseOf, TypeOK
  <2>2. inst[t] = active
    BY <1>6 DEF CreateReturn, ReturnUnlock, Return, Goto, OwnerInv
  <2>3. active' = active /\ granted' = granted \cup {active}
    BY <1>6, <2>2 DEF CreateReturn
  <2> QED
    BY <1>2, <1>3, <2>1, <2>3 DEF Slot!Next, Slot!Grant, Slot!Move, Phase
<1>7. CASE CreateCleanup(t)
  <2>1. active = None
    BY <1>7 DEF CreateCleanup, ReturnUnlock, Return, Goto, LabelInv
  <2>2. PhaseOf(t) = "creating" /\ PhaseOf(t)' = "idle" /\ Held
    BY <1>7, <2>1 DEF CreateCleanup, ReturnUnlock, Return, Goto, PhaseOf, TypeOK
  <2> QED
    BY <1>2, <1>3, <2>1, <2>2 DEF Slot!Next, Slot!GiveUp, Slot!Move, Phase
<1>8. CASE \/ CreateAvailable(t) \/ CreateLoadRuntime(t) \/ CreateLoadLayers(t)
           \/ CreateCheckExtensions(t) \/ CreateCallFails(t) \/ CreateCall(t) \/ CreateTable(t)
  <2>1. PhaseOf(t) = "creating" /\ PhaseOf(t)' = "creating" /\ Held
    BY <1>8 DEF CreateAvailable, CreateLoadRuntime, CreateLoadLayers, CreateCheckExtensions,
                CreateCallFails, CreateCall, CreateTable, Step, Goto, PhaseOf, TypeOK
  <2> QED
    BY <1>2, <1>3, <2>1 DEF Slot!vars, Phase
<1>9. CASE CreateNoMessenger(t) \/ CreateMessenger(t)
  <2>1. PhaseOf(t) = "created" /\ PhaseOf(t)' = "created" /\ Held
    BY <1>9 DEF CreateNoMessenger, CreateMessenger, Step, Goto, PhaseOf, TypeOK
  <2> QED
    BY <1>2, <1>3, <2>1 DEF Slot!vars, Phase
<1> QED
  BY <1>4, <1>5, <1>6, <1>7, <1>8, <1>9 DEF CreateLockedStep, CreateMessengerFails

LEMMA DestroyLockedStepSlot ==
  ASSUME LifecycleInv, NEW t \in Threads, DestroyLockedStep(t)
  PROVE  [Slot!Next]_(Slot!vars)
<1> DEFINE Held == active' = active /\ granted' = granted
<1> USE DEF LifecycleInv
<1>1. \A u \in Threads : u # t => pc'[u] = pc[u] /\ ret'[u] = ret[u]
  BY DEF DestroyLockedStep, DestroyGet, DestroyMessenger, DestroyTable, DestroyCall,
         DestroyRemove, DestroyUnload, Step, ReturnUnlock, Return, Goto, TypeOK
<1>2. Phase' = [Phase EXCEPT ![t] = PhaseOf(t)']
  BY <1>1, PhaseMoves
<1>3. Phase[t] = PhaseOf(t)
  BY DEF Phase
<1>4. CASE DestroyRemove(t)
  <2>1. PhaseOf(t) = "destroying" /\ PhaseOf(t)' = "idle"
    BY <1>4 DEF DestroyRemove, Step, Goto, PhaseOf, TypeOK
  <2>2. active' = None /\ granted' = granted
    BY <1>4 DEF DestroyRemove, Step
  <2> QED
    BY <1>2, <1>3, <2>1, <2>2 DEF Slot!Next, Slot!Release, Slot!Move, Phase
<1>5. CASE DestroyGet(t)
  <2>1. active # None
    BY <1>5 DEF DestroyGet, ReturnUnlock, Return, Step, Goto, OwnerInv
  <2>2. PhaseOf(t) = "destroying" /\ PhaseOf(t)' = "destroying" /\ Held
    BY <1>5, <2>1 DEF DestroyGet, Step, Goto, PhaseOf, TypeOK
  <2> QED
    BY <1>2, <1>3, <2>2 DEF Slot!vars, Phase
<1>6. CASE DestroyMessenger(t) \/ DestroyTable(t) \/ DestroyCall(t)
  <2>1. PhaseOf(t) = "destroying" /\ PhaseOf(t)' = "destroying" /\ Held
    BY <1>6 DEF DestroyMessenger, DestroyTable, DestroyCall, Step, Goto, PhaseOf, TypeOK
  <2> QED
    BY <1>2, <1>3, <2>1 DEF Slot!vars, Phase
<1>7. CASE DestroyUnload(t)
  <2>1. PhaseOf(t) = "idle" /\ PhaseOf(t)' = "idle" /\ Held
    BY <1>7 DEF DestroyUnload, ReturnUnlock, Return, Goto, PhaseOf, TypeOK
  <2> QED
    BY <1>2, <1>3, <2>1 DEF Slot!vars, Phase
<1> QED
  BY <1>4, <1>5, <1>6, <1>7 DEF DestroyLockedStep

(* Labels of a thread whose call has nothing to do with the slot.          *)
Outside == EnumLocked \cup InitSteps \cup TrampolineSteps \cup {"enum.lock"}

LEMMA OutsideIdle ==
  ASSUME NEW t \in Threads
  PROVE  /\ pc[t] \in Outside => PhaseOf(t) = "idle"
         /\ pc'[t] \in Outside => PhaseOf(t)' = "idle"
         /\ pc'[t] = "idle" /\ ret'[t] # "limit_reached" => PhaseOf(t)' = "idle"
  BY DEF PhaseOf, Outside

(* Taking the lock keeps the phase.                                        *)
LEMMA LockStepSlot ==
  ASSUME TypeOK, NEW t \in Threads, LockStep(t)
  PROVE  /\ \A u \in Threads : u # t => pc'[u] = pc[u] /\ ret'[u] = ret[u]
         /\ PhaseOf(t)' = PhaseOf(t)
         /\ active' = active /\ granted' = granted
<1>1. CASE CreateLock(t)
  <2>1. pc[t] = "create.lock" /\ pc'[t] = "create.check"
    BY <1>1 DEF CreateLock, Acquire, Goto, TypeOK
  <2>2. PhaseOf(t) = "creating" /\ PhaseOf(t)' = "creating"
    BY <2>1 DEF PhaseOf
  <2> QED
    BY <1>1, <2>2 DEF CreateLock, Acquire, Goto, TypeOK
<1>2. CASE DestroyLock(t)
  <2>1. pc[t] = "destroy.lock" /\ pc'[t] = "destroy.get"
    BY <1>2 DEF DestroyLock, Acquire, Goto, TypeOK
  <2>2. PhaseOf(t) = "destroying" /\ PhaseOf(t)' = "destroying"
    BY <2>1 DEF PhaseOf
  <2> QED
    BY <1>2, <2>2 DEF DestroyLock, Acquire, Goto, TypeOK
<1>3. CASE EnumLock(t)
  <2>1. pc[t] \in Outside /\ pc'[t] \in Outside
    BY <1>3 DEF EnumLock, Acquire, Goto, TypeOK, Outside
  <2> QED
    BY <1>3, <2>1, OutsideIdle DEF EnumLock, Acquire, Goto, TypeOK
<1> QED
  BY <1>1, <1>2, <1>3 DEF LockStep

(* A thread outside the slot moves on outside it, or returns.              *)
LEMMA OutsideStep ==
  ASSUME TypeOK, NEW t \in Threads, EnumLockedStep(t) \/ InitStep(t) \/ TrampolineStep(t)
  PROVE  /\ \A u \in Threads : u # t => pc'[u] = pc[u] /\ ret'[u] = ret[u]
         /\ pc[t] \in Outside
         /\ pc'[t] \in Outside \/ (pc'[t] = "idle" /\ ret'[t] # "limit_reached")
         /\ active' = active /\ granted' = granted
<1>1. CASE EnumLayersOnly(t)
  BY <1>1 DEF EnumLayersOnly, ReturnUnlock, Return, Goto, TypeOK, Outside
<1>2. CASE EnumLayers(t)
  BY <1>2 DEF EnumLayers, Step, Goto, TypeOK, Outside
<1>3. CASE EnumLoadRuntime(t)
  BY <1>3 DEF EnumLoadRuntime, Step, Goto, TypeOK, Outside
<1>4. CASE EnumLoadRuntimeFails(t)
  BY <1>4 DEF EnumLoadRuntimeFails, ReturnUnlock, Return, Goto, TypeOK, Outside
<1>5. CASE EnumQuery(t)
  BY <1>5 DEF EnumQuery, ReturnUnlock, Return, Goto, TypeOK, Outside
<1>6. CASE InitCheck(t)
  BY <1>6 DEF InitCheck, Return, Step, Goto, TypeOK, Outside
<1>7. CASE InitUnload(t)
  BY <1>7 DEF InitUnload, Step, Goto, TypeOK, Outside
<1>8. CASE InitData(t)
  BY <1>8 DEF InitData, Return, Goto, TypeOK, Outside
<1>9. CASE TrampolineGet(t)
  BY <1>9 DEF TrampolineGet, Return, Step, Goto, TypeOK, Outside
<1>10. CASE TrampolineReturn(t)
  BY <1>10 DEF TrampolineReturn, Return, Goto, TypeOK, Outside
<1> QED
  BY <1>1, <1>2, <1>3, <1>4, <1>5, <1>6, <1>7, <1>8, <1>9, <1>10
     DEF EnumLockedStep, InitStep, TrampolineStep

(* Locking, the enumerations, xrInitializeLoaderKHR and the trampolines    *)
(* are invisible to the slot.                                              *)
LEMMA OtherStepSlot ==
  ASSUME TypeOK, NEW t \in Threads,
         LockStep(t) \/ EnumLockedStep(t) \/ InitStep(t) \/ TrampolineStep(t)
  PROVE  UNCHANGED Slot!vars
<1>1. /\ \A u \in Threads : u # t => pc'[u] = pc[u] /\ ret'[u] = ret[u]
      /\ active' = active /\ granted' = granted
  BY LockStepSlot, OutsideStep
<1>2. PhaseOf(t)' = PhaseOf(t)
  <2>1. CASE LockStep(t)
    BY <2>1, LockStepSlot
  <2>2. CASE EnumLockedStep(t) \/ InitStep(t) \/ TrampolineStep(t)
    BY <2>2, OutsideStep, OutsideIdle
  <2> QED
    BY <2>1, <2>2
<1>3. Phase' = [Phase EXCEPT ![t] = PhaseOf(t)']
  BY <1>1, PhaseMoves
<1> QED
  BY <1>1, <1>2, <1>3 DEF Slot!vars, Phase

(* Every behaviour of the loader is a behaviour of the single slot.        *)
THEOREM LoaderImplementsSlot ==
  ASSUME InitSerialised, ~MessengerMayFail
  PROVE  Spec => ImplementsSlot
<1>1. Init => Slot!Init
  BY DEF Init, Slot!Init, PhaseOf
<1>2. LifecycleInv /\ [Next]_vars => [Slot!Next]_(Slot!vars)
  <2> SUFFICES ASSUME LifecycleInv, [Next]_vars
               PROVE  [Slot!Next]_(Slot!vars)
    OBVIOUS
  <2>1. CASE UNCHANGED vars \/ Finished
    <3>1. UNCHANGED vars
      BY <2>1 DEF Finished
    <3> QED
      BY <3>1 DEF Slot!vars, PhaseOf
  <2>2. ASSUME NEW t \in Threads, InsideStep(t) \/ BeginStep(t)
        PROVE  [Slot!Next]_(Slot!vars)
    <3>1. TypeOK
      BY DEF LifecycleInv
    <3> QED
      BY <2>2, <3>1, BeginStepSlot, CreateLockedStepSlot, DestroyLockedStepSlot, OtherStepSlot
         DEF InsideStep
  <2> QED
    BY <2>1, <2>2 DEF Next
<1> QED
  BY <1>1, <1>2, LifecycleInvariant, PTL DEF Spec, ImplementsSlot, Slot!Spec

(* Two XrInstances never exist for the application at once, even when the  *)
(* messenger may fail.                                                     *)
THEOREM NeverTwo ==
  ASSUME InitSerialised
  PROVE  Spec => []NeverTwoInstances
<1>1. LifecycleInv => NeverTwoInstances
  <2> SUFFICES ASSUME LifecycleInv
               PROVE  NeverTwoInstances
    OBVIOUS
  <2>1. \A t \in Threads :
          PhaseOf(t) \in {"created", "destroying"} => pc[t] \in Creating \cup Destroying
    BY DEF PhaseOf
  <2>2. granted \subseteq {active} \ {None}
    BY DEF LifecycleInv, GrantedHandleWorks, TypeOK
  <2>3. \A t \in Slot!Owners : t \in Threads /\ pc[t] \in Creating \cup Destroying
    BY <2>1 DEF Slot!Owners
  <2> QED
    BY <2>2, <2>3 DEF NeverTwoInstances, Slot!Exclusive, LifecycleInv, OwnerInv
<1> QED
  BY <1>1, LifecycleInvariant, PTL

-----------------------------------------------------------------------------
(* Nothing is left behind                                                  *)

(* Between calls the slot keeps its holder.                                *)
LEMMA OutsideStepHolder ==
  ASSUME LifecycleInv, HolderInv, NEW t \in Threads,
         BeginStep(t) \/ LockStep(t) \/ EnumLockedStep(t) \/ InitStep(t) \/ TrampolineStep(t)
  PROVE  HolderInv'
<1> USE DEF LifecycleInv, HolderInv
<1>1. CASE BeginStep(t)
  BY <1>1 DEF BeginStep, Rejected, CreateBegin, DestroyBegin, EnumBegin, InitBegin,
              TrampolineBegin, Enter, Goto, TypeOK
<1>2. CASE LockStep(t)
  BY <1>2 DEF LockStep, CreateLock, DestroyLock, EnumLock, Acquire, Goto, TypeOK
<1>3. CASE EnumLockedStep(t) \/ InitStep(t) \/ TrampolineStep(t)
  <2>1. pc[t] \notin Creating \cup Destroying /\ active' = active /\ granted' = granted
    BY <1>3, OutsideStep DEF EnumLockedStep, EnumLayersOnly, EnumLayers, EnumLoadRuntime,
         EnumLoadRuntimeFails, EnumQuery, InitStep, InitCheck, InitUnload, InitData,
         TrampolineStep, TrampolineGet, TrampolineReturn, ReturnUnlock, Return, Step, Goto
  <2>2. \A u \in Threads : u # t => pc'[u] = pc[u]
    BY <1>3, OutsideStep
  <2> QED
    BY <2>1, <2>2
<1> QED
  BY <1>1, <1>2, <1>3

(* A creation hands the slot it has taken to the application.              *)
LEMMA CreateStepHolder ==
  ASSUME LifecycleInv, ~MessengerMayFail, HolderInv, NEW t \in Threads, CreateLockedStep(t)
  PROVE  HolderInv'
<1> USE DEF LifecycleInv, HolderInv
<1>1. CASE CreateSet(t) \/ CreateNoMessenger(t) \/ CreateMessenger(t)
  BY <1>1 DEF CreateSet, CreateNoMessenger, CreateMessenger, Step, Goto, TypeOK, LabelInv
<1>2. CASE CreateReturn(t)
  BY <1>2 DEF CreateReturn
<1>3. CASE CreateCleanup(t)
  BY <1>3 DEF CreateCleanup
<1>4. CASE CreateLimitReached(t)
  BY <1>4 DEF CreateLimitReached, ReturnUnlock, Return, Goto, TypeOK
<1>5. CASE \/ CreateAvailable(t) \/ CreateLoadRuntime(t) \/ CreateLoadLayers(t)
           \/ CreateCheckExtensions(t) \/ CreateCallFails(t) \/ CreateCall(t) \/ CreateTable(t)
  <2>1. active = None /\ active' = active
    BY <1>5 DEF CreateAvailable, CreateLoadRuntime, CreateLoadLayers, CreateCheckExtensions,
                CreateCallFails, CreateCall, CreateTable, Step, Goto, LabelInv
  <2> QED
    BY <2>1
<1> QED
  BY <1>1, <1>2, <1>3, <1>4, <1>5 DEF CreateLockedStep, CreateMessengerFails

(* A destruction keeps the slot until it has emptied it.                   *)
LEMMA DestroyStepHolder ==
  ASSUME LifecycleInv, HolderInv, NEW t \in Threads, DestroyLockedStep(t)
  PROVE  HolderInv'
<1> USE DEF LifecycleInv, HolderInv
<1>1. CASE DestroyGet(t)
  BY <1>1 DEF DestroyGet, ReturnUnlock, Return, Step, Goto, TypeOK
<1>2. CASE DestroyMessenger(t) \/ DestroyTable(t) \/ DestroyCall(t)
  BY <1>2 DEF DestroyMessenger, DestroyTable, DestroyCall, Step, Goto, TypeOK
<1>3. CASE DestroyRemove(t)
  BY <1>3 DEF DestroyRemove
<1>4. CASE DestroyUnload(t)
  BY <1>4 DEF DestroyUnload, ReturnUnlock, Return, Goto, LabelInv
<1> QED
  BY <1>1, <1>2, <1>3, <1>4 DEF DestroyLockedStep

(* While no thread is in the loader an instance exists exactly if the      *)
(* application holds its handle; finding 1 is what happens otherwise.      *)
THEOREM NothingIsStranded ==
  ASSUME InitSerialised, ~MessengerMayFail
  PROVE  Spec => []NoStrandedInstance
<1>1. Init => HolderInv
  BY DEF Init, HolderInv
<1>2. LifecycleInv /\ HolderInv /\ [Next]_vars => HolderInv'
  <2> SUFFICES ASSUME LifecycleInv, HolderInv, [Next]_vars
               PROVE  HolderInv'
    OBVIOUS
  <2>1. CASE UNCHANGED vars \/ Finished
    BY <2>1 DEF Finished, HolderInv
  <2>2. ASSUME NEW t \in Threads, InsideStep(t) \/ BeginStep(t)
        PROVE  HolderInv'
    BY <2>2, OutsideStepHolder, CreateStepHolder, DestroyStepHolder DEF InsideStep
  <2> QED
    BY <2>1, <2>2 DEF Next
<1>3. LifecycleInv /\ HolderInv => NoStrandedInstance
  <2> SUFFICES ASSUME LifecycleInv, HolderInv, \A t \in Threads : pc[t] = "idle"
               PROVE  (active = None <=> granted = {}) /\ rtInstances = granted
    BY DEF NoStrandedInstance
  <2>1. granted \subseteq {active} /\ granted \subseteq rtInstances /\ None \notin granted
    BY DEF LifecycleInv, GrantedHandleWorks, TypeOK
  <2>2. rtInstances \subseteq {active} /\ None \notin rtInstances
    BY DEF LifecycleInv, OwnedInv, TypeOK
  <2>3. active # None => granted # {}
    BY DEF HolderInv
  <2> QED
    BY <2>1, <2>2, <2>3
<1> QED
  BY <1>1, <1>2, <1>3, LifecycleInvariant, PTL DEF Spec

(* A creation that fails leaves neither an active instance nor a loaded    *)
(* runtime (loader_core.cpp:303), if its messenger is not what fails.      *)
THEOREM FailuresCleanUp ==
  ASSUME ~MessengerMayFail
  PROVE  Spec => FailedCreateCleansUp
<1>1. TypeOK /\ [Next]_vars =>
        [\A t \in Threads :
           pc[t] \in CreateLocked /\ ret'[t] = "failed" /\ ret[t] # "failed"
             => active' = None /\ ~rtLoaded']_vars
  <2> SUFFICES ASSUME TypeOK, [Next]_vars, NEW t \in Threads, pc[t] \in CreateLocked,
                      ret'[t] = "failed", ret[t] # "failed"
               PROVE  active' = None /\ ~rtLoaded'
    OBVIOUS
  <2>1. PICK u \in Threads : InsideStep(u) \/ BeginStep(u)
    BY DEF Next, Finished
  <2>2. CASE CreateLockedStep(u)
    BY <2>2 DEF CreateLockedStep, CreateLimitReached, CreateAvailable, CreateLoadRuntime,
         CreateLoadLayers, CreateCheckExtensions, CreateCallFails, CreateCall, CreateTable,
         CreateSet, CreateNoMessenger, CreateMessenger, CreateMessengerFails, CreateReturn,
         CreateCleanup, UnloadRuntime, Step, ReturnUnlock, Return, Goto, TypeOK
  <2>3. CASE BeginStep(u)
    BY <2>3 DEF BeginStep, Rejected, CreateBegin, DestroyBegin, EnumBegin, InitBegin,
         TrampolineBegin, Enter, Goto, TypeOK
  <2>4. CASE DestroyLockedStep(u)
    BY <2>4 DEF DestroyLockedStep, DestroyGet, DestroyMessenger, DestroyTable, DestroyCall,
         DestroyRemove, DestroyUnload, Step, ReturnUnlock, Return, Goto, TypeOK
  <2>5. CASE LockStep(u)
    BY <2>5, LockStepSlot DEF LockStep, CreateLock, DestroyLock, EnumLock, Acquire
  <2>6. CASE EnumLockedStep(u) \/ InitStep(u) \/ TrampolineStep(u)
    <3>1. u # t
      BY <2>6 DEF EnumLockedStep, EnumLayersOnly, EnumLayers, EnumLoadRuntime,
           EnumLoadRuntimeFails, EnumQuery, InitStep, InitCheck, InitUnload, InitData,
           TrampolineStep, TrampolineGet, TrampolineReturn, ReturnUnlock, Return, Step, Goto
    <3> QED
      BY <2>6, <3>1, OutsideStep
  <2> QED
    BY <2>1, <2>2, <2>3, <2>4, <2>5, <2>6 DEF InsideStep
<1> QED
  BY <1>1, TypeCorrect, PTL DEF Spec, FailedCreateCleansUp
=============================================================================
