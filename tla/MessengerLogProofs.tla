------------------------- MODULE MessengerLogProofs --------------------------
(***************************************************************************)
(* The logger of MessengerLog, for any threads, messengers and messages:   *)
(* a callback runs only while its recorder and its messenger exist, and    *)
(* the dispatch table a destruction has found is there when it is used.    *)
(* The invariant is LogInv: whoever stands in the loop holds the lock      *)
(* shared, so that no recorder goes under it; and xr.xml lets at most one  *)
(* thread at a time make or destroy messengers or end the instance.        *)
(***************************************************************************)
EXTENDS MessengerLog, TLAPS

USE DEF vars, logger, runtime, locals, Labels, LogSteps, LogLocked, Calls, Alone,
        CreateSteps, DestroySteps, EndSteps

(* The recorders of messengers are recorders.                              *)
LEMMA MessengerRecorderKnown ==
  ASSUME NEW m \in Messengers, NEW request \in Requests
  PROVE  MessengerRecorder(m, request) \in Recorder
<1>1. request.severities \in SUBSET Severities
  BY MessengerLogAssumption
<1>2. ToLogTypes(request.types) \in SUBSET LogTypes
  BY DEF ToLogTypes
<1> QED
  BY <1>1, <1>2 DEF MessengerRecorder, Recorder

LEMMA StdRecordersKnown ==
  ASSUME NEW debug \in LoaderDebug
  PROVE  StdRecorders(debug) \subseteq {r \in Recorder : r.id = None}
<1>1. \A kind \in {"stderr", "stdout"} : \A s \in SUBSET Severities :
        StdRecorder(kind, s) \in Recorder /\ StdRecorder(kind, s).id = None
  BY DEF StdRecorder, Recorder
<1>2. {"error"} \subseteq Severities /\ StdOutLevel(debug) \subseteq Severities
  BY MessengerLogAssumption DEF StdOutLevel
<1> QED
  BY <1>1, <1>2 DEF StdRecorders

-----------------------------------------------------------------------------
(* Types                                                                   *)

LEMMA InitTyped == Init => TypeOK
<1> SUFFICES ASSUME Init
             PROVE  TypeOK
  OBVIOUS
<1>1. recorders \subseteq Recorder
  BY StdRecordersKnown DEF Init
<1>2. DOMAIN byInstance = {} /\ DOMAIN tracked = {} /\ DOMAIN held = {}
  BY DEF Init
<1>3. 0 \in 0..MaxCalls
  <2>1. MaxCalls \in Nat
    BY Zenon, MessengerLogAssumption
  <2> QED
    BY <2>1
<1> QED
  BY <1>1, <1>2, <1>3 DEF Init, TypeOK

LEMMA LogStepTyped ==
  ASSUME TypeOK, LockInv, NEW t \in Threads, LogStep(t)
  PROVE  TypeOK'
<1>1. CASE SubmitDown(t)
  BY <1>1 DEF SubmitDown, RuntimeTells, Goto, TypeOK
<1>2. CASE LogRead(t)
  BY <1>2 DEF LogRead, Goto, TypeOK
<1>3. CASE LogLock(t)
  BY <1>3 DEF LogLock, Goto, TypeOK
<1>4. CASE LogCall(t)
  BY <1>4 DEF LogCall, Goto, TypeOK
<1>5. CASE LogCalled(t)
  <2>1. at[t].id \in Messengers \cup {None}
    BY <1>5 DEF LogCalled, Goto, LockInv, TypeOK, Recorder
  <2> QED
    BY <1>5, <2>1 DEF LogCalled, Goto, TypeOK
<1>6. CASE LogEnd(t)
  BY <1>6 DEF LogEnd, Goto, TypeOK
<1>7. CASE LogReturn(t)
  BY <1>7 DEF LogReturn, Return, TypeOK
<1> QED
  BY <1>1, <1>2, <1>3, <1>4, <1>5, <1>6, <1>7 DEF LogStep

LEMMA MessengerStepTyped ==
  ASSUME TypeOK, RecorderInv, TrackedInv, AloneInv, NEW t \in Threads, MessengerStep(t)
  PROVE  TypeOK'
<1>1. CASE CreateFails(t)
  BY <1>1 DEF CreateFails, Return, TypeOK
<1>2. CASE CreateMessenger(t)
  BY <1>2 DEF CreateMessenger, Goto, TypeOK
<1>3. CASE AddLogRecorderForXrInstance(t)
  <2>1. alive \in Instances /\ mess[t] \in Messengers /\ want[t] \in Requests
    BY <1>3 DEF AddLogRecorderForXrInstance, Goto, TypeOK, AloneInv, TrackedInv
  <2>2. recorders' \subseteq Recorder
    BY <1>3, <2>1, MessengerRecorderKnown DEF AddLogRecorderForXrInstance, TypeOK
  <2>3. /\ DOMAIN byInstance' = DOMAIN byInstance \cup {alive}
        /\ \A i \in DOMAIN byInstance' :
             byInstance'[i] = IF i = alive THEN IdsOf(alive) \cup {mess[t]} ELSE byInstance[i]
    BY <1>3 DEF AddLogRecorderForXrInstance, With
  <2>4. IdsOf(alive) \subseteq Messengers
    BY DEF IdsOf, TypeOK
  <2>5. DOMAIN byInstance' \subseteq Instances
    BY <2>1, <2>3 DEF TypeOK
  <2>6. \A i \in DOMAIN byInstance' : byInstance'[i] \subseteq Messengers
    BY <2>1, <2>3, <2>4 DEF TypeOK
  <2> QED
    BY <1>3, <2>2, <2>5, <2>6 DEF AddLogRecorderForXrInstance, Goto, TypeOK
<1>4. CASE TrackDebugMessenger(t)
  <2>1. alive \in Instances /\ mess[t] \in Messengers /\ want[t] \in Requests
    BY <1>4 DEF TrackDebugMessenger, Return, TypeOK, AloneInv, TrackedInv
  <2>2. /\ DOMAIN tracked' = DOMAIN tracked \cup {mess[t]}
        /\ \A m \in DOMAIN tracked' :
             tracked'[m] = IF m = mess[t] THEN alive ELSE tracked[m]
    BY <1>4 DEF TrackDebugMessenger, With
  <2>3. /\ DOMAIN held' = DOMAIN held \cup {mess[t]}
        /\ \A m \in DOMAIN held' : held'[m] = IF m = mess[t] THEN want[t] ELSE held[m]
    BY <1>4 DEF TrackDebugMessenger, With
  <2>4. DOMAIN tracked' \subseteq Messengers /\ \A m \in DOMAIN tracked' : tracked'[m] \in Instances
    BY <2>1, <2>2 DEF TypeOK
  <2>5. DOMAIN held' \subseteq Messengers /\ \A m \in DOMAIN held' : held'[m] \in Requests
    BY <2>1, <2>3 DEF TypeOK
  <2> QED
    BY <1>4, <2>4, <2>5 DEF TrackDebugMessenger, Return, TypeOK
<1>5. CASE DestroyFind(t)
  BY <1>5 DEF DestroyFind, TableOf, Goto, TypeOK
<1>6. CASE RemoveLogRecorder(t)
  BY <1>6 DEF RemoveLogRecorder, Goto, TypeOK
<1>7. CASE ForgetDebugMessenger(t)
  <2>1. DOMAIN tracked' \subseteq Messengers /\ \A m \in DOMAIN tracked' : tracked'[m] \in Instances
    BY <1>7 DEF ForgetDebugMessenger, Without, TypeOK
  <2> QED
    BY <1>7, <2>1 DEF ForgetDebugMessenger, Goto, TypeOK
<1>8. CASE DestroyMessenger(t)
  BY <1>8 DEF DestroyMessenger, Return, TypeOK
<1> QED
  BY <1>1, <1>2, <1>3, <1>4, <1>5, <1>6, <1>7, <1>8 DEF MessengerStep

LEMMA EndStepTyped ==
  ASSUME TypeOK, NEW t \in Threads, EndStep(t)
  PROVE  TypeOK'
<1>1. CASE RemoveLogRecordersForXrInstance(t)
  <2>1. DOMAIN byInstance' \subseteq Instances
        /\ \A i \in DOMAIN byInstance' : byInstance'[i] \subseteq Messengers
    BY <1>1 DEF RemoveLogRecordersForXrInstance, Without, TypeOK
  <2> QED
    BY <1>1, <2>1 DEF RemoveLogRecordersForXrInstance, Goto, TypeOK
<1>2. CASE DestroyInstance(t)
  BY <1>2 DEF DestroyInstance, Goto, TypeOK
<1>3. CASE UnloadRuntime(t)
  <2>1. DOMAIN tracked' = {}
    BY <1>3 DEF UnloadRuntime
  <2> QED
    BY <1>3, <2>1 DEF UnloadRuntime, Return, TypeOK
<1> QED
  BY <1>1, <1>2, <1>3 DEF EndStep

LEMMA BeginStepTyped ==
  ASSUME TypeOK, NEW t \in Threads, BeginStep(t)
  PROVE  TypeOK'
<1>1. calls[t] < MaxCalls /\ calls' = [calls EXCEPT ![t] = @ + 1]
  BY DEF BeginStep, LogBegin, SubmitBegin, LabelCall, CreateBegin, DestroyBegin, CreateInstance,
         EndBegin, Enter
<1>2. MaxCalls \in Nat
  BY Zenon, MessengerLogAssumption
<1>3. calls' \in [Threads -> 0..MaxCalls]
  BY <1>1, <1>2 DEF TypeOK
<1>4. CASE LogBegin(t)
  BY <1>3, <1>4 DEF LogBegin, Enter, TypeOK
<1>5. CASE SubmitBegin(t)
  BY <1>3, <1>5 DEF SubmitBegin, Enter, TypeOK
<1>6. CASE LabelCall(t)
  BY <1>3, <1>6 DEF LabelCall, TypeOK
<1>7. CASE CreateBegin(t)
  BY <1>3, <1>7 DEF CreateBegin, Enter, TypeOK
<1>8. CASE DestroyBegin(t)
  <2>1. DOMAIN held' \subseteq Messengers /\ \A m \in DOMAIN held' : held'[m] \in Requests
    BY <1>8 DEF DestroyBegin, Without, TypeOK
  <2> QED
    BY <1>3, <1>8, <2>1 DEF DestroyBegin, Enter, TypeOK
<1>9. CASE CreateInstance(t)
  BY <1>3, <1>9 DEF CreateInstance, TypeOK
<1>10. CASE EndBegin(t)
  <2>1. DOMAIN held' = {}
    BY <1>10 DEF EndBegin
  <2> QED
    BY <1>3, <1>10, <2>1 DEF EndBegin, Enter, TypeOK
<1> QED
  BY <1>4, <1>5, <1>6, <1>7, <1>8, <1>9, <1>10 DEF BeginStep

-----------------------------------------------------------------------------
(* The lock                                                                *)

(* A step of a thread outside the loop, which takes recorders away only    *)
(* when nobody holds the lock.                                             *)
LEMMA OutsideLoop ==
  ASSUME LockInv, NEW t \in Threads,
         pc'[t] \notin {"log.loop", "log.callback"},
         \A u \in Threads : u # t => /\ pc'[u] = pc[u] /\ todo'[u] = todo[u] /\ at'[u] = at[u]
                                     /\ u \in readers => u \in readers',
         recorders \subseteq recorders' \/ readers = {}
  PROVE  LockInv'
  BY DEF LockInv

LEMMA LogStepLock ==
  ASSUME TypeOK, LockInv, NEW t \in Threads, LogStep(t)
  PROVE  LockInv'
<1>1. CASE LogLock(t)
  BY <1>1 DEF LogLock, Goto, TypeOK, LockInv
<1>2. CASE LogCall(t)
  BY <1>2 DEF LogCall, Goto, TypeOK, LockInv
<1>3. CASE LogCalled(t)
  BY <1>3 DEF LogCalled, Goto, TypeOK, LockInv
<1>4. CASE SubmitDown(t)
  BY <1>4, OutsideLoop DEF SubmitDown, Goto, TypeOK
<1>5. CASE LogRead(t)
  BY <1>5, OutsideLoop DEF LogRead, Goto, TypeOK
<1>6. CASE LogEnd(t)
  BY <1>6, OutsideLoop DEF LogEnd, Goto, TypeOK
<1>7. CASE LogReturn(t)
  BY <1>7, OutsideLoop DEF LogReturn, Return, TypeOK
<1> QED
  BY <1>1, <1>2, <1>3, <1>4, <1>5, <1>6, <1>7 DEF LogStep

LEMMA MessengerStepLock ==
  ASSUME TypeOK, LockInv, NEW t \in Threads, MessengerStep(t)
  PROVE  LockInv'
<1>1. CASE CreateFails(t)
  BY <1>1, OutsideLoop DEF CreateFails, Return, TypeOK
<1>2. CASE CreateMessenger(t)
  BY <1>2, OutsideLoop DEF CreateMessenger, Goto, TypeOK
<1>3. CASE AddLogRecorderForXrInstance(t)
  BY <1>3, OutsideLoop DEF AddLogRecorderForXrInstance, UniqueLock, Goto, TypeOK
<1>4. CASE TrackDebugMessenger(t)
  BY <1>4, OutsideLoop DEF TrackDebugMessenger, Return, TypeOK
<1>5. CASE DestroyFind(t)
  BY <1>5, OutsideLoop DEF DestroyFind, Goto, TypeOK
<1>6. CASE RemoveLogRecorder(t)
  BY <1>6, OutsideLoop DEF RemoveLogRecorder, UniqueLock, Goto, TypeOK
<1>7. CASE ForgetDebugMessenger(t)
  BY <1>7, OutsideLoop DEF ForgetDebugMessenger, Goto, TypeOK
<1>8. CASE DestroyMessenger(t)
  BY <1>8, OutsideLoop DEF DestroyMessenger, Return, TypeOK
<1> QED
  BY <1>1, <1>2, <1>3, <1>4, <1>5, <1>6, <1>7, <1>8 DEF MessengerStep

LEMMA EndStepLock ==
  ASSUME TypeOK, LockInv, NEW t \in Threads, EndStep(t)
  PROVE  LockInv'
<1>1. CASE RemoveLogRecordersForXrInstance(t)
  BY <1>1, OutsideLoop DEF RemoveLogRecordersForXrInstance, UniqueLock, Goto, TypeOK
<1>2. CASE DestroyInstance(t)
  BY <1>2, OutsideLoop DEF DestroyInstance, Goto, TypeOK
<1>3. CASE UnloadRuntime(t)
  BY <1>3, OutsideLoop DEF UnloadRuntime, Return, TypeOK
<1> QED
  BY <1>1, <1>2, <1>3 DEF EndStep

LEMMA BeginStepLock ==
  ASSUME TypeOK, LockInv, NEW t \in Threads, BeginStep(t)
  PROVE  LockInv'
<1>1. CASE LabelCall(t) \/ CreateInstance(t)
  BY <1>1 DEF LabelCall, CreateInstance, LockInv
<1>2. CASE LogBegin(t)
  BY <1>2, OutsideLoop DEF LogBegin, Enter, TypeOK
<1>3. CASE SubmitBegin(t)
  BY <1>3, OutsideLoop DEF SubmitBegin, Enter, TypeOK
<1>4. CASE CreateBegin(t)
  BY <1>4, OutsideLoop DEF CreateBegin, Enter, TypeOK
<1>5. CASE DestroyBegin(t)
  BY <1>5, OutsideLoop DEF DestroyBegin, Enter, TypeOK
<1>6. CASE EndBegin(t)
  BY <1>6, OutsideLoop DEF EndBegin, Enter, TypeOK
<1> QED
  BY <1>1, <1>2, <1>3, <1>4, <1>5, <1>6 DEF BeginStep

-----------------------------------------------------------------------------
(* Deliveries and labels concern neither messengers nor the instance.      *)
LEMMA QuietStep ==
  ASSUME TypeOK, AloneInv, NEW t \in Threads,
         LogStep(t) \/ LogBegin(t) \/ SubmitBegin(t) \/ LabelCall(t)
  PROVE  /\ UNCHANGED <<recorders, byInstance, tracked, alive, inUse, held>>
         /\ \A u \in Threads : u # t => /\ pc'[u] = pc[u] /\ call'[u] = call[u]
                                        /\ mess'[u] = mess[u] /\ want'[u] = want[u]
                                        /\ table'[u] = table[u]
         /\ call'[t] \notin Alone
         /\ pc'[t] \notin CreateSteps \cup DestroySteps \cup EndSteps
<1>1. CASE SubmitDown(t)
  BY <1>1 DEF SubmitDown, Goto, TypeOK, AloneInv
<1>2. CASE LogRead(t)
  BY <1>2 DEF LogRead, Goto, TypeOK, AloneInv
<1>3. CASE LogLock(t)
  BY <1>3 DEF LogLock, Goto, TypeOK, AloneInv
<1>4. CASE LogCall(t)
  BY <1>4 DEF LogCall, Goto, TypeOK, AloneInv
<1>5. CASE LogCalled(t)
  BY <1>5 DEF LogCalled, Goto, TypeOK, AloneInv
<1>6. CASE LogEnd(t)
  BY <1>6 DEF LogEnd, Goto, TypeOK, AloneInv
<1>7. CASE LogReturn(t)
  BY <1>7 DEF LogReturn, Return, TypeOK, AloneInv
<1>8. CASE LogBegin(t)
  BY <1>8 DEF LogBegin, Enter, TypeOK, AloneInv
<1>9. CASE SubmitBegin(t)
  BY <1>9 DEF SubmitBegin, Enter, TypeOK, AloneInv
<1>10. CASE LabelCall(t)
  BY <1>10 DEF LabelCall, TypeOK, AloneInv
<1> QED
  BY <1>1, <1>2, <1>3, <1>4, <1>5, <1>6, <1>7, <1>8, <1>9, <1>10 DEF LogStep

LEMMA QuietStepInv ==
  ASSUME TypeOK, AloneInv, RecorderInv, TrackedInv, NEW t \in Threads,
         LogStep(t) \/ LogBegin(t) \/ SubmitBegin(t) \/ LabelCall(t)
  PROVE  AloneInv' /\ RecorderInv' /\ TrackedInv'
<1>1. AloneInv'
  BY QuietStep DEF AloneInv
<1>2. IdsOf(alive)' = IdsOf(alive)
  BY QuietStep DEF IdsOf
<1>3. RecorderInv'
  BY QuietStep, <1>2 DEF RecorderInv
<1>4. TrackedInv'
  BY QuietStep DEF TrackedInv
<1> QED
  BY <1>1, <1>3, <1>4
-----------------------------------------------------------------------------
(* Creations, destructions and the end of the instance                     *)

(* The thread that runs alone is the only one at their steps.              *)
LEMMA OnlyOne ==
  ASSUME AloneInv, NEW t \in Threads, NEW u \in Threads, u # t,
         call[t] \in Alone \/ pc[t] \in CreateSteps \cup DestroySteps \cup EndSteps
  PROVE  call[u] \notin Alone /\ pc[u] \notin CreateSteps \cup DestroySteps \cup EndSteps
  BY DEF AloneInv

(* A step of one thread inside such a call, or at its beginning.           *)
LEMMA AloneStep ==
  ASSUME TypeOK, AloneInv, NEW t \in Threads,
         \A u \in Threads : u # t => pc'[u] = pc[u] /\ call'[u] = call[u],
         \A u \in Threads : u # t => call[u] \notin Alone,
         pc'[t] \in CreateSteps <=> call'[t] = "create",
         pc'[t] \in DestroySteps <=> call'[t] = "destroy",
         pc'[t] \in EndSteps <=> call'[t] = "end",
         call'[t] \in Alone /\ pc'[t] # "end.unload" => alive' # None
  PROVE  AloneInv'
  BY DEF AloneInv

LEMMA CreateStepsInv ==
  ASSUME TypeOK, AloneInv, RecorderInv, TrackedInv, NEW t \in Threads,
         CreateFails(t) \/ CreateMessenger(t) \/ AddLogRecorderForXrInstance(t)
         \/ TrackDebugMessenger(t)
  PROVE  AloneInv' /\ RecorderInv' /\ TrackedInv'
<1>1. pc[t] \in CreateSteps /\ call[t] = "create" /\ alive # None
  BY DEF CreateFails, CreateMessenger, AddLogRecorderForXrInstance, TrackDebugMessenger,
         Goto, Return, AloneInv
<1>2. \A u \in Threads : u # t =>
        call[u] \notin Alone /\ pc[u] \notin CreateSteps \cup DestroySteps \cup EndSteps
  BY <1>1, OnlyOne
<1>3. CASE CreateFails(t)
  <2>1. AloneInv'
    BY <1>2, <1>3, AloneStep DEF CreateFails, Return, TypeOK
  <2>2. RecorderInv'
    BY <1>2, <1>3 DEF CreateFails, Return, TypeOK, RecorderInv, IdsOf
  <2>3. TrackedInv'
    BY <1>2, <1>3 DEF CreateFails, Return, TypeOK, TrackedInv
  <2> QED
    BY <2>1, <2>2, <2>3
<1>4. CASE CreateMessenger(t)
  <2>1. AloneInv'
    BY <1>1, <1>2, <1>4, AloneStep DEF CreateMessenger, Goto, TypeOK
  <2>2. RecorderInv'
    BY <1>2, <1>4 DEF CreateMessenger, Goto, TypeOK, RecorderInv, IdsOf
  <2>3. mess'[t] \notin inUse /\ mess'[t] \in Messengers
    BY <1>4 DEF CreateMessenger, TypeOK
  <2>4. mess'[t] # None
    BY <2>3, MessengerLogAssumption
  <2>5. TrackedInv'
    BY <1>2, <1>4, <2>3, <2>4 DEF CreateMessenger, Goto, TypeOK, TrackedInv
  <2> QED
    BY <2>1, <2>2, <2>5
<1>5. CASE AddLogRecorderForXrInstance(t)
  <2>1. AloneInv'
    BY <1>1, <1>2, <1>5, AloneStep DEF AddLogRecorderForXrInstance, Goto, TypeOK
  <2>2. mess[t] \in inUse
    BY <1>5 DEF AddLogRecorderForXrInstance, Goto, RecorderInv
  <2>3. IdsOf(alive)' = IdsOf(alive) \cup {mess[t]}
    BY <1>5 DEF AddLogRecorderForXrInstance, With, IdsOf, runtime
  <2>4. \A r \in recorders' : r \in recorders \/ r.id = mess[t]
    BY <1>5 DEF AddLogRecorderForXrInstance, MessengerRecorder
  <2>5. \A r \in recorders' : r.id # None =>
          alive' # None /\ r.id \in inUse' \cap IdsOf(alive)'
    BY <1>1, <1>5, <2>2, <2>3, <2>4 DEF AddLogRecorderForXrInstance, RecorderInv
  <2>6. RecorderInv'
    BY <1>2, <1>5, <2>2, <2>5 DEF AddLogRecorderForXrInstance, Goto, TypeOK, RecorderInv
  <2>7. TrackedInv'
    BY <1>2, <1>5 DEF AddLogRecorderForXrInstance, Goto, TypeOK, TrackedInv
  <2> QED
    BY <2>1, <2>6, <2>7
<1>6. CASE TrackDebugMessenger(t)
  <2>1. AloneInv'
    BY <1>2, <1>6, AloneStep DEF TrackDebugMessenger, Return, TypeOK
  <2>2. RecorderInv'
    BY <1>2, <1>6 DEF TrackDebugMessenger, Return, TypeOK, RecorderInv, IdsOf
  <2>3. mess[t] \in inUse
    BY <1>6 DEF TrackDebugMessenger, Return, RecorderInv
  <2>4. /\ DOMAIN tracked' = DOMAIN tracked \cup {mess[t]}
        /\ \A m \in DOMAIN tracked' :
             tracked'[m] = IF m = mess[t] THEN alive ELSE tracked[m]
    BY <1>6 DEF TrackDebugMessenger, With
  <2>5. DOMAIN held' = DOMAIN held \cup {mess[t]}
    BY <1>6 DEF TrackDebugMessenger, With
  <2>6. \A m \in DOMAIN held' : m \in DOMAIN tracked' /\ tracked'[m] = alive' /\ m \in inUse'
    BY <1>6, <2>3, <2>4, <2>5 DEF TrackDebugMessenger, TrackedInv
  <2>7. TrackedInv'
    BY <1>2, <1>6, <2>6 DEF TrackDebugMessenger, Return, TypeOK, TrackedInv
  <2> QED
    BY <2>1, <2>2, <2>7
<1> QED
  BY <1>3, <1>4, <1>5, <1>6

LEMMA DestroyStepsInv ==
  ASSUME TypeOK, AloneInv, RecorderInv, TrackedInv, NEW t \in Threads,
         DestroyFind(t) \/ RemoveLogRecorder(t) \/ ForgetDebugMessenger(t)
         \/ DestroyMessenger(t)
  PROVE  AloneInv' /\ RecorderInv' /\ TrackedInv'
<1>1. pc[t] \in DestroySteps /\ call[t] = "destroy" /\ alive # None
  BY DEF DestroyFind, RemoveLogRecorder, ForgetDebugMessenger, DestroyMessenger,
         Goto, Return, AloneInv
<1>2. \A u \in Threads : u # t =>
        call[u] \notin Alone /\ pc[u] \notin CreateSteps \cup DestroySteps \cup EndSteps
  BY <1>1, OnlyOne
<1>3. CASE DestroyFind(t)
  <2>1. AloneInv'
    BY <1>1, <1>2, <1>3, AloneStep DEF DestroyFind, Goto, TypeOK
  <2>2. mess[t] \in Messengers
    BY <1>3 DEF DestroyFind, Goto, TypeOK, TrackedInv
  <2>3. mess[t] # None
    BY <2>2, MessengerLogAssumption
  <2>4. RecorderInv'
    BY <1>2, <1>3, <2>3 DEF DestroyFind, Goto, TypeOK, RecorderInv, IdsOf
  <2>5. table'[t] = alive
    BY <1>3 DEF DestroyFind, TableOf, Goto, TypeOK, TrackedInv
  <2>6. TrackedInv'
    BY <1>2, <1>3, <2>5 DEF DestroyFind, Goto, TypeOK, TrackedInv
  <2> QED
    BY <2>1, <2>4, <2>6
<1>4. CASE RemoveLogRecorder(t)
  <2>1. AloneInv'
    BY <1>1, <1>2, <1>4, AloneStep DEF RemoveLogRecorder, Goto, TypeOK
  <2>2. \A r \in recorders' : r \in recorders /\ r.id # mess[t]
    BY <1>4 DEF RemoveLogRecorder
  <2>3. \A r \in recorders' : r.id \in IdsOf(alive) => r.id \in IdsOf(alive)'
    BY <1>4, <2>2 DEF RemoveLogRecorder, IdsOf
  <2>4. \A r \in recorders' : r.id # None =>
          alive' # None /\ r.id \in inUse' \cap IdsOf(alive)'
    BY <1>4, <2>2, <2>3 DEF RemoveLogRecorder, RecorderInv
  <2>5. RecorderInv'
    BY <1>2, <1>4, <2>2, <2>4 DEF RemoveLogRecorder, Goto, TypeOK, RecorderInv
  <2>6. TrackedInv'
    BY <1>2, <1>4 DEF RemoveLogRecorder, Goto, TypeOK, TrackedInv
  <2> QED
    BY <2>1, <2>5, <2>6
<1>5. CASE ForgetDebugMessenger(t)
  <2>1. AloneInv'
    BY <1>1, <1>2, <1>5, AloneStep DEF ForgetDebugMessenger, Goto, TypeOK
  <2>2. RecorderInv'
    BY <1>2, <1>5 DEF ForgetDebugMessenger, Goto, TypeOK, RecorderInv, IdsOf
  <2>3. mess[t] \notin DOMAIN held
    BY <1>1 DEF TrackedInv
  <2>4. \A m \in DOMAIN held : m \in DOMAIN tracked' /\ tracked'[m] = tracked[m]
    BY <1>5, <2>3 DEF ForgetDebugMessenger, Without, TrackedInv
  <2>5. TrackedInv'
    BY <1>2, <1>5, <2>4 DEF ForgetDebugMessenger, Goto, TypeOK, TrackedInv
  <2> QED
    BY <2>1, <2>2, <2>5
<1>6. CASE DestroyMessenger(t)
  <2>1. AloneInv'
    BY <1>2, <1>6, AloneStep DEF DestroyMessenger, Return, TypeOK
  <2>2. \A r \in recorders : r.id # mess[t]
    BY <1>6 DEF DestroyMessenger, Return, RecorderInv
  <2>3. RecorderInv'
    BY <1>2, <1>6, <2>2 DEF DestroyMessenger, Return, TypeOK, RecorderInv, IdsOf
  <2>4. mess[t] \notin DOMAIN held
    BY <1>1 DEF TrackedInv
  <2>5. TrackedInv'
    BY <1>2, <1>6, <2>4 DEF DestroyMessenger, Return, TypeOK, TrackedInv
  <2> QED
    BY <2>1, <2>3, <2>5
<1> QED
  BY <1>3, <1>4, <1>5, <1>6

LEMMA EndStepsInv ==
  ASSUME TypeOK, AloneInv, RecorderInv, TrackedInv, NEW t \in Threads, EndStep(t)
  PROVE  AloneInv' /\ RecorderInv' /\ TrackedInv'
<1>1. pc[t] \in EndSteps /\ call[t] = "end" /\ DOMAIN held = {}
  BY DEF EndStep, RemoveLogRecordersForXrInstance, DestroyInstance, UnloadRuntime,
         Goto, Return, AloneInv, TrackedInv
<1>2. \A u \in Threads : u # t =>
        call[u] \notin Alone /\ pc[u] \notin CreateSteps \cup DestroySteps \cup EndSteps
  BY <1>1, OnlyOne
<1>3. CASE RemoveLogRecordersForXrInstance(t)
  <2>1. AloneInv'
    BY <1>1, <1>2, <1>3, AloneStep DEF RemoveLogRecordersForXrInstance, Goto, TypeOK, AloneInv
  <2>2. \A r \in recorders' : r.id = None
    BY <1>3 DEF RemoveLogRecordersForXrInstance, RecorderInv
  <2>3. RecorderInv'
    BY <1>2, <1>3, <2>2 DEF RemoveLogRecordersForXrInstance, Goto, TypeOK, RecorderInv
  <2>4. TrackedInv'
    BY <1>1, <1>2, <1>3 DEF RemoveLogRecordersForXrInstance, Goto, TypeOK, TrackedInv
  <2> QED
    BY <2>1, <2>3, <2>4
<1>4. CASE DestroyInstance(t)
  <2>1. AloneInv'
    BY <1>1, <1>2, <1>4, AloneStep DEF DestroyInstance, Goto, TypeOK
  <2>2. \A r \in recorders : r.id = None
    BY <1>4 DEF DestroyInstance, Goto, RecorderInv
  <2>3. RecorderInv'
    BY <1>2, <1>4, <2>2 DEF DestroyInstance, Goto, TypeOK, RecorderInv
  <2>4. TrackedInv'
    BY <1>1, <1>2, <1>4 DEF DestroyInstance, Goto, TypeOK, TrackedInv
  <2> QED
    BY <2>1, <2>3, <2>4
<1>5. CASE UnloadRuntime(t)
  <2>1. AloneInv'
    BY <1>2, <1>5, AloneStep DEF UnloadRuntime, Return, TypeOK
  <2>2. \A r \in recorders : r.id = None
    BY <1>5 DEF UnloadRuntime, Return, RecorderInv
  <2>3. RecorderInv'
    BY <1>2, <1>5, <2>2 DEF UnloadRuntime, Return, TypeOK, RecorderInv
  <2>4. TrackedInv'
    BY <1>1, <1>2, <1>5 DEF UnloadRuntime, Return, TypeOK, TrackedInv
  <2> QED
    BY <2>1, <2>3, <2>4
<1> QED
  BY <1>3, <1>4, <1>5 DEF EndStep

(* The beginnings: xr.xml's rule is what makes the caller the only one.    *)
LEMMA BeginStepsInv ==
  ASSUME TypeOK, AloneInv, RecorderInv, TrackedInv, NEW t \in Threads,
         CreateBegin(t) \/ DestroyBegin(t) \/ EndBegin(t) \/ CreateInstance(t)
  PROVE  AloneInv' /\ RecorderInv' /\ TrackedInv'
<1>1. \A u \in Threads :
        call[u] \notin Alone /\ pc[u] \notin CreateSteps \cup DestroySteps \cup EndSteps
  BY DEF CreateBegin, DestroyBegin, EndBegin, CreateInstance, MayRunAlone, AloneInv
<1>2. CASE CreateBegin(t)
  <2>1. AloneInv'
    BY <1>1, <1>2, AloneStep DEF CreateBegin, MayRunAlone, Enter, TypeOK
  <2>2. RecorderInv'
    BY <1>1, <1>2 DEF CreateBegin, Enter, TypeOK, RecorderInv, IdsOf
  <2>3. TrackedInv'
    BY <1>1, <1>2 DEF CreateBegin, Enter, TypeOK, TrackedInv
  <2> QED
    BY <2>1, <2>2, <2>3
<1>3. CASE DestroyBegin(t)
  <2>1. AloneInv'
    BY <1>1, <1>3, AloneStep DEF DestroyBegin, MayRunAlone, Enter, TypeOK
  <2>2. RecorderInv'
    BY <1>1, <1>3 DEF DestroyBegin, Enter, TypeOK, RecorderInv, IdsOf
  <2>3. /\ mess'[t] \in DOMAIN held
        /\ DOMAIN held' = DOMAIN held \ {mess'[t]}
    BY <1>3 DEF DestroyBegin, Without, TypeOK
  <2>4. TrackedInv'
    BY <1>1, <1>3, <2>3 DEF DestroyBegin, Enter, TypeOK, TrackedInv
  <2> QED
    BY <2>1, <2>2, <2>4
<1>4. CASE EndBegin(t)
  <2>1. AloneInv'
    BY <1>1, <1>4, AloneStep DEF EndBegin, MayRunAlone, Enter, TypeOK
  <2>2. RecorderInv'
    BY <1>1, <1>4 DEF EndBegin, Enter, TypeOK, RecorderInv, IdsOf
  <2>3. DOMAIN held' = {}
    BY <1>4 DEF EndBegin
  <2>4. TrackedInv'
    BY <1>1, <1>4, <2>3 DEF EndBegin, Enter, TypeOK, TrackedInv
  <2> QED
    BY <2>1, <2>2, <2>4
<1>5. CASE CreateInstance(t)
  <2>1. AloneInv'
    BY <1>1, <1>5 DEF CreateInstance, AloneInv
  <2>2. \A r \in recorders : r.id = None
    BY <1>5 DEF CreateInstance, RecorderInv
  <2>3. RecorderInv'
    BY <1>1, <1>5, <2>2 DEF CreateInstance, RecorderInv
  <2>4. \A m \in DOMAIN held : tracked[m] = None /\ tracked[m] \in Instances
    BY <1>5 DEF CreateInstance, TypeOK, TrackedInv
  <2>5. None \notin Instances
    BY MessengerLogAssumption
  <2>6. DOMAIN held = {}
    BY <2>4, <2>5
  <2>7. TrackedInv'
    BY <1>1, <1>5, <2>6 DEF CreateInstance, TrackedInv
  <2> QED
    BY <2>1, <2>3, <2>7
<1> QED
  BY <1>2, <1>3, <1>4, <1>5

-----------------------------------------------------------------------------
(* The invariant                                                           *)

LEMMA InitInv == Init => LogInv
<1> SUFFICES ASSUME Init
             PROVE  LogInv
  OBVIOUS
<1>1. \A r \in recorders : r.id = None
  BY StdRecordersKnown DEF Init
<1>2. DOMAIN held = {}
  BY DEF Init
<1>3. LockInv /\ AloneInv
  BY DEF Init, LockInv, AloneInv
<1>4. RecorderInv
  BY <1>1 DEF Init, RecorderInv
<1>5. TrackedInv
  BY <1>2 DEF Init, TrackedInv
<1> QED
  BY <1>3, <1>4, <1>5, InitTyped DEF LogInv

LEMMA NextInv == LogInv /\ [Next]_vars => LogInv'
<1> SUFFICES ASSUME LogInv, [Next]_vars
             PROVE  LogInv'
  OBVIOUS
<1> USE DEF LogInv
<1>1. ASSUME NEW t \in Threads, LogStep(t)
      PROVE  LogInv'
  BY <1>1, LogStepTyped, LogStepLock, QuietStepInv
<1>2. ASSUME NEW t \in Threads, MessengerStep(t)
      PROVE  LogInv'
  <2>1. TypeOK' /\ LockInv'
    BY <1>2, MessengerStepTyped, MessengerStepLock
  <2>2. AloneInv' /\ RecorderInv' /\ TrackedInv'
    BY <1>2, CreateStepsInv, DestroyStepsInv DEF MessengerStep
  <2> QED
    BY <2>1, <2>2
<1>3. ASSUME NEW t \in Threads, EndStep(t)
      PROVE  LogInv'
  BY <1>3, EndStepTyped, EndStepLock, EndStepsInv
<1>4. ASSUME NEW t \in Threads, BeginStep(t)
      PROVE  LogInv'
  <2>1. TypeOK' /\ LockInv'
    BY <1>4, BeginStepTyped, BeginStepLock
  <2>2. AloneInv' /\ RecorderInv' /\ TrackedInv'
    BY <1>4, QuietStepInv, BeginStepsInv DEF BeginStep
  <2> QED
    BY <2>1, <2>2
<1>5. CASE Finished \/ UNCHANGED vars
  <2>1. UNCHANGED vars
    BY <1>5 DEF Finished
  <2>2. TypeOK'
    BY <2>1 DEF TypeOK
  <2>3. LockInv' /\ AloneInv'
    BY <2>1 DEF LockInv, AloneInv
  <2>4. RecorderInv' /\ TrackedInv'
    BY <2>1 DEF RecorderInv, TrackedInv, IdsOf
  <2> QED
    BY <2>2, <2>3, <2>4
<1> QED
  BY <1>1, <1>2, <1>3, <1>4, <1>5 DEF Next, InsideStep

(* Whoever stands in the loop over the recorders holds the lock, and       *)
(* recorders, messengers and the map of their instances go in an order     *)
(* that leaves none pointing to what is gone.                              *)
THEOREM LogInvariant == Spec => []LogInv
<1>1. Init => LogInv
  BY InitInv
<1>2. LogInv /\ [Next]_vars => LogInv'
  BY NextInv
<1> QED
  BY <1>1, <1>2, PTL DEF Spec

(* However threads interleave, no callback runs on a recorder that was     *)
(* removed or on a messenger that was destroyed (loader_logger.cpp         *)
(* 143-175, 177-227).                                                      *)
THEOREM CallbacksOnLiveMessengers == Spec => []CallbackOnLiveMessenger
<1>1. LogInv => CallbackOnLiveMessenger
  BY DEF LogInv, LockInv, RecorderInv, CallbackOnLiveMessenger
<1> QED
  BY <1>1, LogInvariant, PTL

(* xrDestroyDebugUtilsMessengerEXT finds a dispatch table before it forgets *)
(* the messenger, and its instance still has it when the terminator        *)
(* dereferences it (loader_core.cpp 661-667).                              *)
THEOREM DestructionFindsTable == Spec => []DestroyFindsTable
<1>1. LogInv => DestroyFindsTable
  BY DEF LogInv, AloneInv, TrackedInv, DestroyFindsTable
<1> QED
  BY <1>1, LogInvariant, PTL

-----------------------------------------------------------------------------
(* Who is told of a message, for any threads, messengers and messages: all *)
(* that asked for it and only these, each once, whatever is created and    *)
(* destroyed meanwhile.  The invariant is DeliveryInv: a thread in the     *)
(* loop has the recorders divided into those called and those left, and    *)
(* since it holds the lock no step of another thread changes them; a       *)
(* runtime's own delivery is one step, and xr.xml keeps creations and      *)
(* destructions from overlapping xrSubmitDebugUtilsMessageEXT.             *)

-----------------------------------------------------------------------------
(* Registered messengers                                                   *)

LEMMA RecorderHasId ==
  ASSUME NEW m, NEW request
  PROVE  MessengerRecorder(m, request).id = m
  BY DEF MessengerRecorder

LEMMA InitRegistered == Init => RegisteredInv
<1> SUFFICES ASSUME Init
             PROVE  RegisteredInv
  OBVIOUS
<1>1. \A r \in recorders : r.id = None
  BY StdRecordersKnown DEF Init
<1>2. DOMAIN held = {}
  BY DEF Init
<1> QED
  BY <1>1, <1>2 DEF Init, RegisteredInv

LEMMA QuietStepRegistered ==
  ASSUME TypeOK, AloneInv, RegisteredInv, NEW t \in Threads,
         LogStep(t) \/ LogBegin(t) \/ SubmitBegin(t) \/ LabelCall(t)
  PROVE  RegisteredInv'
<1>1. \A m, request : MessengerRecorder(m, request)' = MessengerRecorder(m, request)
  BY DEF MessengerRecorder
<1> QED
  BY <1>1, QuietStep DEF RegisteredInv

LEMMA CreateStepsRegistered ==
  ASSUME TypeOK, AloneInv, RecorderInv, TrackedInv, RegisteredInv, NEW t \in Threads,
         CreateFails(t) \/ CreateMessenger(t) \/ AddLogRecorderForXrInstance(t)
         \/ TrackDebugMessenger(t)
  PROVE  RegisteredInv'
<1>1. pc[t] \in CreateSteps
  BY DEF CreateFails, CreateMessenger, AddLogRecorderForXrInstance, TrackDebugMessenger,
         Goto, Return
<1>2. \A u \in Threads : u # t => pc[u] \notin CreateSteps
  BY <1>1, OnlyOne
<1>3. CASE CreateFails(t)
  BY <1>2, <1>3 DEF CreateFails, Return, TypeOK, RegisteredInv
<1>4. CASE CreateMessenger(t)
  <2>1. mess'[t] \in Messengers \ inUse
    BY <1>4 DEF CreateMessenger, TypeOK
  <2>2. mess'[t] # None
    BY <2>1, MessengerLogAssumption
  <2>3. \A r \in recorders : r.id # mess'[t]
    BY <2>1, <2>2 DEF RecorderInv
  <2> QED
    BY <1>2, <1>4, <2>3 DEF CreateMessenger, Goto, TypeOK, RegisteredInv
<1>5. CASE AddLogRecorderForXrInstance(t)
  <2> DEFINE new == MessengerRecorder(mess[t], want[t])
  <2>1. recorders' = recorders \cup {new}
    BY <1>5 DEF AddLogRecorderForXrInstance
  <2>2. \A r \in recorders : r.id # mess[t]
    BY <1>5 DEF AddLogRecorderForXrInstance, Goto, RegisteredInv
  <2>3. new.id = mess[t]
    BY RecorderHasId
  <2> HIDE DEF new
  <2>4. \A r, s \in recorders' : r.id = s.id /\ r.id # None => r = s
    BY <2>1, <2>2, <2>3 DEF RegisteredInv
  <2>5. \A m \in DOMAIN held' : MessengerRecorder(m, held'[m]) \in recorders'
    BY <1>5, <2>1 DEF AddLogRecorderForXrInstance, RegisteredInv
  <2>6. /\ MessengerRecorder(mess'[t], want'[t]) \in recorders'
        /\ pc'[t] = "create.track"
    BY <1>5, <2>1 DEF AddLogRecorderForXrInstance, Goto, TypeOK, new
  <2>7. \A u \in Threads : u # t => pc'[u] \notin CreateSteps
    BY <1>2, <1>5 DEF AddLogRecorderForXrInstance, Goto, TypeOK
  <2> QED
    BY <2>4, <2>5, <2>6, <2>7 DEF RegisteredInv
<1>6. CASE TrackDebugMessenger(t)
  <2>1. MessengerRecorder(mess[t], want[t]) \in recorders
    BY <1>6 DEF TrackDebugMessenger, Return, RegisteredInv
  <2>2. /\ DOMAIN held' = DOMAIN held \cup {mess[t]}
        /\ \A m \in DOMAIN held' : held'[m] = IF m = mess[t] THEN want[t] ELSE held[m]
    BY <1>6 DEF TrackDebugMessenger, With
  <2>3. recorders' = recorders
    BY <1>6 DEF TrackDebugMessenger
  <2>4. \A m \in DOMAIN held' : MessengerRecorder(m, held'[m]) \in recorders'
    BY <2>1, <2>2, <2>3 DEF RegisteredInv
  <2>5. \A u \in Threads : pc'[u] \notin CreateSteps
    BY <1>2, <1>6 DEF TrackDebugMessenger, Return, TypeOK
  <2> QED
    BY <2>3, <2>4, <2>5 DEF RegisteredInv
<1> QED
  BY <1>3, <1>4, <1>5, <1>6

(* Steps that only take recorders away, of messengers nobody holds.        *)
LEMMA FewerRecorders ==
  ASSUME RegisteredInv,
         recorders' \subseteq recorders,
         \A m \in DOMAIN held' : m \in DOMAIN held /\ held'[m] = held[m],
         \A m \in DOMAIN held' : \A r \in recorders : r.id = m => r \in recorders',
         \A u \in Threads : pc'[u] \notin {"create.add", "create.track"}
  PROVE  RegisteredInv'
<1>1. \A m \in DOMAIN held' : MessengerRecorder(m, held'[m]) \in recorders'
  BY RecorderHasId DEF RegisteredInv
<1> QED
  BY <1>1 DEF RegisteredInv

LEMMA DestroyStepsRegistered ==
  ASSUME TypeOK, AloneInv, TrackedInv, RegisteredInv, NEW t \in Threads,
         DestroyFind(t) \/ RemoveLogRecorder(t) \/ ForgetDebugMessenger(t)
         \/ DestroyMessenger(t)
  PROVE  RegisteredInv'
<1>1. pc[t] \in DestroySteps
  BY DEF DestroyFind, RemoveLogRecorder, ForgetDebugMessenger, DestroyMessenger, Goto, Return
<1>2. \A u \in Threads : u # t => pc[u] \notin CreateSteps
  BY <1>1, OnlyOne
<1>3. \A u \in Threads : pc'[u] \notin CreateSteps
  BY <1>2 DEF DestroyFind, RemoveLogRecorder, ForgetDebugMessenger, DestroyMessenger,
              Goto, Return, TypeOK
<1>4. held' = held
  BY DEF DestroyFind, RemoveLogRecorder, ForgetDebugMessenger, DestroyMessenger
<1>5. mess[t] \notin DOMAIN held
  BY <1>1 DEF TrackedInv
<1>6. /\ recorders' \subseteq recorders
      /\ \A r \in recorders : r.id # mess[t] => r \in recorders'
  BY DEF DestroyFind, RemoveLogRecorder, ForgetDebugMessenger, DestroyMessenger
<1> QED
  BY <1>3, <1>4, <1>5, <1>6, FewerRecorders

LEMMA EndStepRegistered ==
  ASSUME TypeOK, AloneInv, TrackedInv, RegisteredInv, NEW t \in Threads, EndStep(t)
  PROVE  RegisteredInv'
<1>1. pc[t] \in EndSteps /\ DOMAIN held = {}
  BY DEF EndStep, RemoveLogRecordersForXrInstance, DestroyInstance, UnloadRuntime, Goto,
         Return, TrackedInv
<1>2. \A u \in Threads : u # t => pc[u] \notin CreateSteps
  BY <1>1, OnlyOne
<1>3. \A u \in Threads : pc'[u] \notin CreateSteps
  BY <1>2 DEF EndStep, RemoveLogRecordersForXrInstance, DestroyInstance, UnloadRuntime, Goto,
              Return, TypeOK
<1>4. held' = held /\ recorders' \subseteq recorders
  BY DEF EndStep, RemoveLogRecordersForXrInstance, DestroyInstance, UnloadRuntime
<1> QED
  BY <1>1, <1>3, <1>4, FewerRecorders

LEMMA BeginStepsRegistered ==
  ASSUME TypeOK, AloneInv, RegisteredInv, NEW t \in Threads,
         CreateBegin(t) \/ DestroyBegin(t) \/ EndBegin(t) \/ CreateInstance(t)
  PROVE  RegisteredInv'
<1>1. \A u \in Threads : pc[u] \notin CreateSteps
  BY DEF CreateBegin, DestroyBegin, EndBegin, CreateInstance, MayRunAlone, AloneInv
<1>2. \A u \in Threads : pc'[u] \notin {"create.add", "create.track"}
  BY <1>1 DEF CreateBegin, DestroyBegin, EndBegin, CreateInstance, Enter, TypeOK
<1>3. recorders' = recorders
  BY DEF CreateBegin, DestroyBegin, EndBegin, CreateInstance
<1>4. \A m \in DOMAIN held' : m \in DOMAIN held /\ held'[m] = held[m]
  <2>1. CASE EndBegin(t)
    <3>1. DOMAIN held' = {}
      BY <2>1 DEF EndBegin
    <3> QED
      BY <3>1
  <2>2. CASE CreateBegin(t) \/ DestroyBegin(t) \/ CreateInstance(t)
    BY <2>2 DEF CreateBegin, DestroyBegin, CreateInstance, Without
  <2> QED
    BY <2>1, <2>2
<1> QED
  BY <1>2, <1>3, <1>4, FewerRecorders

-----------------------------------------------------------------------------
(* A submission keeps out whatever changes messengers                      *)

LEMMA SubmitAlone ==
  ASSUME TypeOK, SubmitInv, NEW t \in Threads, InsideStep(t) \/ BeginStep(t)
  PROVE  SubmitInv'
<1>1. CASE InsideStep(t)
  <2>1. \A u \in Threads : call'[u] = call[u] \/ call'[u] = "none"
    BY <1>1 DEF InsideStep, LogStep, MessengerStep, EndStep, SubmitDown, LogRead, LogLock, LogCall,
                LogCalled, LogEnd, LogReturn, CreateFails, CreateMessenger,
                AddLogRecorderForXrInstance, TrackDebugMessenger, DestroyFind, RemoveLogRecorder,
                ForgetDebugMessenger, DestroyMessenger, RemoveLogRecordersForXrInstance,
                DestroyInstance, UnloadRuntime, Goto, Return, TypeOK
  <2> QED
    BY <2>1 DEF SubmitInv
<1>2. CASE LogBegin(t)
  BY <1>2 DEF LogBegin, Enter, TypeOK, SubmitInv
<1>3. CASE SubmitBegin(t)
  BY <1>3 DEF SubmitBegin, MayRun, Enter, TypeOK, SubmitInv
<1>4. CASE LabelCall(t) \/ CreateInstance(t)
  BY <1>4 DEF LabelCall, CreateInstance, SubmitInv
<1>5. CASE CreateBegin(t) \/ DestroyBegin(t) \/ EndBegin(t)
  <2>1. \A u \in Threads : call[u] # "submit"
    BY <1>5 DEF CreateBegin, DestroyBegin, EndBegin, MayRunAlone
  <2>2. \A u \in Threads : call'[u] # "submit"
    BY <1>5, <2>1 DEF CreateBegin, DestroyBegin, EndBegin, Enter, TypeOK
  <2> QED
    BY <2>2 DEF SubmitInv
<1> QED
  BY <1>1, <1>2, <1>3, <1>4, <1>5 DEF BeginStep

(* What a step of t leaves to another thread u: all that is its own, the   *)
(* recorders while it reads them, and the messengers while it submits.     *)
SeenBy(u) == <<pc[u], call[u], msg[u], todo[u], at[u], told[u], supports>>

LEMMA LogStepElsewhere ==
  ASSUME TypeOK, NEW t \in Threads, LogStep(t)
  PROVE  \A u \in Threads \ {t} : /\ SeenBy(u)' = SeenBy(u)
                                  /\ u \in readers => u \in readers'
<1>1. CASE SubmitDown(t)
  BY <1>1 DEF SubmitDown, Goto, TypeOK, SeenBy
<1>2. CASE LogRead(t)
  BY <1>2 DEF LogRead, Goto, TypeOK, SeenBy
<1>3. CASE LogLock(t)
  BY <1>3 DEF LogLock, Goto, TypeOK, SeenBy
<1>4. CASE LogCall(t)
  BY <1>4 DEF LogCall, Goto, TypeOK, SeenBy
<1>5. CASE LogCalled(t)
  BY <1>5 DEF LogCalled, Goto, TypeOK, SeenBy
<1>6. CASE LogEnd(t)
  BY <1>6 DEF LogEnd, Goto, TypeOK, SeenBy
<1>7. CASE LogReturn(t)
  BY <1>7 DEF LogReturn, Return, TypeOK, SeenBy
<1> QED
  BY <1>1, <1>2, <1>3, <1>4, <1>5, <1>6, <1>7 DEF LogStep

LEMMA MessengerStepElsewhere ==
  ASSUME TypeOK, NEW t \in Threads, MessengerStep(t)
  PROVE  \A u \in Threads \ {t} : /\ SeenBy(u)' = SeenBy(u)
                                  /\ u \in readers => u \in readers'
<1>1. CASE CreateFails(t)
  BY <1>1 DEF CreateFails, Return, TypeOK, SeenBy
<1>2. CASE CreateMessenger(t)
  BY <1>2 DEF CreateMessenger, Goto, TypeOK, SeenBy
<1>3. CASE AddLogRecorderForXrInstance(t)
  BY <1>3 DEF AddLogRecorderForXrInstance, Goto, TypeOK, SeenBy
<1>4. CASE TrackDebugMessenger(t)
  BY <1>4 DEF TrackDebugMessenger, Return, TypeOK, SeenBy
<1>5. CASE DestroyFind(t)
  BY <1>5 DEF DestroyFind, Goto, TypeOK, SeenBy
<1>6. CASE RemoveLogRecorder(t)
  BY <1>6 DEF RemoveLogRecorder, Goto, TypeOK, SeenBy
<1>7. CASE ForgetDebugMessenger(t)
  BY <1>7 DEF ForgetDebugMessenger, Goto, TypeOK, SeenBy
<1>8. CASE DestroyMessenger(t)
  BY <1>8 DEF DestroyMessenger, Return, TypeOK, SeenBy
<1> QED
  BY <1>1, <1>2, <1>3, <1>4, <1>5, <1>6, <1>7, <1>8 DEF MessengerStep

LEMMA EndStepElsewhere ==
  ASSUME TypeOK, NEW t \in Threads, EndStep(t)
  PROVE  \A u \in Threads \ {t} : /\ SeenBy(u)' = SeenBy(u)
                                  /\ u \in readers => u \in readers'
<1>1. CASE RemoveLogRecordersForXrInstance(t)
  BY <1>1 DEF RemoveLogRecordersForXrInstance, Goto, TypeOK, SeenBy
<1>2. CASE DestroyInstance(t)
  BY <1>2 DEF DestroyInstance, Goto, TypeOK, SeenBy
<1>3. CASE UnloadRuntime(t)
  BY <1>3 DEF UnloadRuntime, Return, TypeOK, SeenBy
<1> QED
  BY <1>1, <1>2, <1>3 DEF EndStep

LEMMA BeginStepElsewhere ==
  ASSUME TypeOK, NEW t \in Threads, BeginStep(t)
  PROVE  \A u \in Threads \ {t} : /\ SeenBy(u)' = SeenBy(u)
                                  /\ u \in readers => u \in readers'
<1>1. CASE LogBegin(t)
  BY <1>1 DEF LogBegin, Enter, TypeOK, SeenBy
<1>2. CASE SubmitBegin(t)
  BY <1>2 DEF SubmitBegin, Enter, TypeOK, SeenBy
<1>3. CASE LabelCall(t)
  BY <1>3 DEF LabelCall, TypeOK, SeenBy
<1>4. CASE CreateBegin(t)
  BY <1>4 DEF CreateBegin, Enter, TypeOK, SeenBy
<1>5. CASE DestroyBegin(t)
  BY <1>5 DEF DestroyBegin, Enter, TypeOK, SeenBy
<1>6. CASE CreateInstance(t)
  BY <1>6 DEF CreateInstance, TypeOK, SeenBy
<1>7. CASE EndBegin(t)
  BY <1>7 DEF EndBegin, Enter, TypeOK, SeenBy
<1> QED
  BY <1>1, <1>2, <1>3, <1>4, <1>5, <1>6, <1>7 DEF BeginStep

(* Recorders change only when nobody reads, the application's messengers   *)
(* only when nobody submits.                                               *)
LEMMA SharedKept ==
  ASSUME TypeOK, AloneInv, SubmitInv, NEW t \in Threads, InsideStep(t) \/ BeginStep(t)
  PROVE  /\ recorders' = recorders \/ readers = {}
         /\ held' = held \/ \A u \in Threads : call[u] # "submit"
<1>1. CASE LogStep(t) \/ LogBegin(t) \/ SubmitBegin(t) \/ LabelCall(t)
  BY <1>1, QuietStep
<1>2. CASE TrackDebugMessenger(t)
  <2>1. call[t] = "create" /\ recorders' = recorders
    BY <1>2 DEF TrackDebugMessenger, Return, AloneInv
  <2> QED
    BY <2>1 DEF SubmitInv
<1>3. CASE MessengerStep(t) /\ ~TrackDebugMessenger(t)
  BY <1>3 DEF MessengerStep, CreateFails, CreateMessenger, AddLogRecorderForXrInstance,
              DestroyFind, RemoveLogRecorder, ForgetDebugMessenger, DestroyMessenger, UniqueLock
<1>4. CASE EndStep(t)
  BY <1>4 DEF EndStep, RemoveLogRecordersForXrInstance, DestroyInstance, UnloadRuntime, UniqueLock
<1>5. CASE CreateBegin(t) \/ DestroyBegin(t) \/ EndBegin(t) \/ CreateInstance(t)
  BY <1>5 DEF CreateBegin, DestroyBegin, EndBegin, CreateInstance, MayRunAlone
<1> QED
  BY <1>1, <1>2, <1>3, <1>4, <1>5 DEF InsideStep, BeginStep

LEMMA DeliveryElsewhere ==
  ASSUME NEW u \in Threads, DeliveryOf(u),
         SeenBy(u)' = SeenBy(u),
         u \in readers => u \in readers',
         recorders' = recorders \/ readers = {},
         held' = held \/ call[u] # "submit"
  PROVE  DeliveryOf(u)'
<1>1. /\ pc'[u] = pc[u] /\ call'[u] = call[u] /\ msg'[u] = msg[u] /\ todo'[u] = todo[u]
      /\ at'[u] = at[u] /\ told'[u] = told[u] /\ supports' = supports
  BY DEF SeenBy
<1>2. ToldByRuntime(u)' = ToldByRuntime(u)
  BY <1>1 DEF ToldByRuntime
<1>3. \A r : Accepts(u, r)' = Accepts(u, r)
  BY <1>1 DEF Accepts, AcceptsSubmitted, AcceptsLogged, ToLogTypes
<1>4. ASSUME Divided(u)
      PROVE  Divided(u)'
  <2>1. recorders' = recorders /\ u \in readers'
    BY <1>4 DEF Divided
  <2> QED
    BY <1>1, <1>3, <1>4, <2>1 DEF Divided
<1>5. ASSUME call[u] = "submit"
      PROVE  RuntimeTells(msg[u])' = RuntimeTells(msg[u])
  BY <1>1, <1>5 DEF RuntimeTells
<1> QED
  BY <1>1, <1>2, <1>4, <1>5 DEF DeliveryOf, ToldByRuntime

-----------------------------------------------------------------------------
(* The delivering thread itself                                            *)

LEMMA DeliveryByLogStep ==
  ASSUME TypeOK, LockInv, RegisteredInv, NEW t \in Threads, DeliveryOf(t), LogStep(t)
  PROVE  DeliveryOf(t)'
<1>1. CASE SubmitDown(t)
  <2>1. /\ pc[t] = "submit" /\ call[t] = "submit" /\ call' = call /\ msg' = msg
        /\ supports' = supports /\ held' = held
        /\ pc'[t] = IF supports THEN "log.done" ELSE "log.read"
        /\ told'[t] = IF supports THEN RuntimeTells(msg[t]) ELSE {}
    BY <1>1 DEF SubmitDown, Goto, TypeOK, DeliveryOf
  <2>2. RuntimeTells(msg[t])' = RuntimeTells(msg[t])
    BY <2>1 DEF RuntimeTells
  <2>3. ToldByRuntime(t)' <=> supports
    BY <2>1 DEF ToldByRuntime
  <2> QED
    BY <2>1, <2>2, <2>3 DEF DeliveryOf
<1>2. CASE LogRead(t)
  <2>1. /\ pc[t] = "log.read" /\ pc'[t] = "log.lock" /\ call' = call /\ msg' = msg
        /\ told' = told /\ supports' = supports
    BY <1>2 DEF LogRead, Goto, TypeOK
  <2> QED
    BY <2>1 DEF DeliveryOf, ToldByRuntime
<1>3. CASE LogLock(t)
  <2>1. /\ pc[t] = "log.lock" /\ pc'[t] = "log.loop" /\ call' = call /\ msg' = msg
        /\ told' = told /\ supports' = supports /\ recorders' = recorders /\ t \in readers'
        /\ todo'[t] = {r \in recorders : Accepts(t, r)}
    BY <1>3 DEF LogLock, Goto, TypeOK
  <2>2. \A r : Accepts(t, r)' = Accepts(t, r)
    BY <2>1 DEF Accepts, AcceptsSubmitted, AcceptsLogged, ToLogTypes
  <2>3. told[t] = {}
    BY <2>1 DEF DeliveryOf
  <2>4. Divided(t)'
    BY <2>1, <2>2, <2>3 DEF Divided
  <2> QED
    BY <2>1, <2>4 DEF DeliveryOf, ToldByRuntime
<1>4. CASE LogCall(t)
  <2>1. /\ pc[t] = "log.loop" /\ pc'[t] = "log.callback" /\ call' = call /\ msg' = msg
        /\ told' = told /\ supports' = supports /\ recorders' = recorders /\ readers' = readers
        /\ at'[t] \in todo[t] /\ todo'[t] = todo[t] \ {at'[t]}
    BY <1>4 DEF LogCall, Goto, TypeOK
  <2>2. \A r : Accepts(t, r)' = Accepts(t, r)
    BY <2>1 DEF Accepts, AcceptsSubmitted, AcceptsLogged, ToLogTypes
  <2>3. Divided(t)
    BY <2>1 DEF DeliveryOf, ToldByRuntime
  <2>4. Divided(t)'
    BY <2>1, <2>2, <2>3 DEF Divided
  <2> QED
    BY <2>1, <2>4 DEF DeliveryOf, ToldByRuntime
<1>5. CASE LogCalled(t)
  <2>1. /\ pc[t] = "log.callback" /\ pc'[t] = "log.loop" /\ call' = call /\ msg' = msg
        /\ supports' = supports /\ recorders' = recorders /\ readers' = readers
        /\ todo' = todo /\ told'[t] = told[t] \cup ({at[t].id} \ {None})
    BY <1>5 DEF LogCalled, Goto, TypeOK
  <2>2. \A r : Accepts(t, r)' = Accepts(t, r)
    BY <2>1 DEF Accepts, AcceptsSubmitted, AcceptsLogged, ToLogTypes
  <2>3. Divided(t)
    BY <2>1 DEF DeliveryOf, ToldByRuntime
  <2>4. at[t] \in recorders /\ todo[t] \subseteq recorders
    BY <2>1 DEF LockInv
  <2>5. \A r \in todo[t] : r.id # at[t].id \/ r.id = None
    BY <2>1, <2>3, <2>4 DEF RegisteredInv, Divided
  <2>6. \A r \in todo'[t] : Accepts(t, r)' /\ r.id \notin told'[t]
    BY <2>1, <2>2, <2>3, <2>5 DEF Divided
  <2>7. \A m \in told'[t] : \E r \in recorders' : r.id = m /\ Accepts(t, r)'
    BY <2>1, <2>2, <2>3, <2>4 DEF Divided
  <2>8. \A r \in recorders' : r.id # None /\ Accepts(t, r)' => r \in todo'[t] \/ r.id \in told'[t]
    BY <2>1, <2>2, <2>3 DEF Divided
  <2>9. Divided(t)'
    BY <2>1, <2>3, <2>6, <2>7, <2>8 DEF Divided
  <2> QED
    BY <2>1, <2>9 DEF DeliveryOf, ToldByRuntime
<1>6. CASE LogEnd(t)
  <2>1. /\ pc[t] = "log.loop" /\ pc'[t] = "log.done" /\ call' = call /\ msg' = msg
        /\ told' = told /\ supports' = supports /\ recorders' = recorders /\ readers' = readers
        /\ todo' = todo /\ todo[t] = {}
    BY <1>6 DEF LogEnd, Goto, TypeOK
  <2>2. \A r : Accepts(t, r)' = Accepts(t, r)
    BY <2>1 DEF Accepts, AcceptsSubmitted, AcceptsLogged, ToLogTypes
  <2>3. Divided(t) /\ ~ToldByRuntime(t)
    BY <2>1 DEF DeliveryOf
  <2>4. Divided(t)'
    BY <2>1, <2>2, <2>3 DEF Divided
  <2> QED
    BY <2>1, <2>3, <2>4 DEF DeliveryOf, ToldByRuntime
<1>7. CASE LogReturn(t)
  <2>1. pc'[t] = "idle" /\ told'[t] = {}
    BY <1>7 DEF LogReturn, Return, TypeOK
  <2> QED
    BY <2>1 DEF DeliveryOf
<1> QED
  BY <1>1, <1>2, <1>3, <1>4, <1>5, <1>6, <1>7 DEF LogStep

(* Other calls deliver nothing.                                            *)
LEMMA NoDelivery ==
  ASSUME TypeOK, NEW t \in Threads, DeliveryOf(t), MessengerStep(t) \/ EndStep(t)
  PROVE  DeliveryOf(t)'
<1>1. /\ pc'[t] \notin LogSteps \cup {"submit"}
      /\ pc'[t] = "idle" => told'[t] = {}
  BY DEF MessengerStep, EndStep, CreateFails, CreateMessenger, AddLogRecorderForXrInstance,
         TrackDebugMessenger, DestroyFind, RemoveLogRecorder, ForgetDebugMessenger,
         DestroyMessenger, RemoveLogRecordersForXrInstance, DestroyInstance, UnloadRuntime,
         Goto, Return, TypeOK
<1> QED
  BY <1>1 DEF DeliveryOf

LEMMA DeliveryBegins ==
  ASSUME TypeOK, NEW t \in Threads, DeliveryOf(t), BeginStep(t)
  PROVE  DeliveryOf(t)'
<1>1. pc[t] = "idle" /\ told[t] = {} /\ told' = told
  BY DEF BeginStep, LogBegin, SubmitBegin, LabelCall, CreateBegin, DestroyBegin, CreateInstance,
         EndBegin, Enter, DeliveryOf
<1>2. CASE LogBegin(t)
  <2>1. pc'[t] = "log.read" /\ call'[t] \in {"report", "log"} /\ msg'[t] \in Logged
    BY <1>2 DEF LogBegin, Enter, TypeOK
  <2> QED
    BY <1>1, <2>1 DEF DeliveryOf, ToldByRuntime
<1>3. CASE SubmitBegin(t)
  <2>1. pc'[t] = "submit" /\ call'[t] = "submit" /\ msg'[t] \in Submitted
    BY <1>3 DEF SubmitBegin, Enter, TypeOK
  <2> QED
    BY <1>1, <2>1 DEF DeliveryOf
<1>4. CASE LabelCall(t) \/ CreateBegin(t) \/ DestroyBegin(t) \/ CreateInstance(t) \/ EndBegin(t)
  <2>1. pc'[t] \in {"idle", "create.runtime", "destroy.find", "end.remove"}
    BY <1>4 DEF LabelCall, CreateBegin, DestroyBegin, CreateInstance, EndBegin, Enter, TypeOK
  <2> QED
    BY <1>1, <2>1 DEF DeliveryOf
<1> QED
  BY <1>2, <1>3, <1>4 DEF BeginStep

-----------------------------------------------------------------------------
(* The invariant                                                           *)

LEMMA InitDelivery == Init => DeliveryInv
<1> SUFFICES ASSUME Init
             PROVE  DeliveryInv
  OBVIOUS
<1>1. SubmitInv
  BY DEF Init, SubmitInv
<1>2. \A t \in Threads : DeliveryOf(t)
  BY DEF Init, DeliveryOf
<1> QED
  BY <1>1, <1>2, InitRegistered DEF DeliveryInv

LEMMA NextDelivery == LogInv /\ DeliveryInv /\ [Next]_vars => DeliveryInv'
<1> SUFFICES ASSUME LogInv, DeliveryInv, [Next]_vars
             PROVE  DeliveryInv'
  OBVIOUS
<1> USE DEF LogInv, DeliveryInv
<1>1. ASSUME NEW t \in Threads, InsideStep(t) \/ BeginStep(t)
      PROVE  DeliveryInv'
  <2>1. RegisteredInv'
    BY <1>1, QuietStepRegistered, CreateStepsRegistered, DestroyStepsRegistered,
       EndStepRegistered, BeginStepsRegistered DEF InsideStep, MessengerStep, BeginStep
  <2>2. SubmitInv'
    BY <1>1, SubmitAlone
  <2>3. DeliveryOf(t)'
    BY <1>1, DeliveryByLogStep, NoDelivery, DeliveryBegins DEF InsideStep
  <2>4. ASSUME NEW u \in Threads \ {t}
        PROVE  DeliveryOf(u)'
    <3>1. SeenBy(u)' = SeenBy(u) /\ (u \in readers => u \in readers')
      BY <1>1, LogStepElsewhere, MessengerStepElsewhere, EndStepElsewhere, BeginStepElsewhere
         DEF InsideStep
    <3> QED
      BY <1>1, <3>1, SharedKept, DeliveryElsewhere
  <2> QED
    BY <2>1, <2>2, <2>3, <2>4
<1>2. CASE Finished \/ UNCHANGED vars
  <2>1. UNCHANGED vars
    BY <1>2 DEF Finished
  <2>2. RegisteredInv'
    BY <2>1 DEF RegisteredInv, MessengerRecorder, ToLogTypes
  <2>3. SubmitInv'
    BY <2>1 DEF SubmitInv
  <2>4. ASSUME NEW u \in Threads
        PROVE  DeliveryOf(u)'
    BY <2>1, DeliveryElsewhere DEF SeenBy
  <2> QED
    BY <2>2, <2>3, <2>4
<1> QED
  BY <1>1, <1>2 DEF Next

(* While a message is on its way each recorder that accepts it is called   *)
(* or left to call, and messengers are registered once, as they asked.     *)
THEOREM DeliveryInvariant == Spec => [](LogInv /\ DeliveryInv)
<1>1. Init => DeliveryInv
  BY InitDelivery
<1>2. LogInv /\ DeliveryInv /\ [Next]_vars => DeliveryInv'
  BY NextDelivery
<1> QED
  BY <1>1, <1>2, LogInvariant, PTL DEF Spec

-----------------------------------------------------------------------------
(* What it says of who is told                                             *)

LEMMA MessagesTyped ==
  /\ \A m \in Logged : m.types \subseteq LogTypes /\ m.types # {}
  /\ \A m \in Submitted : m.types \subseteq Types /\ m.types # {}
<1>1. Logged \subseteq MessageOf(LogTypes) /\ Submitted \subseteq MessageOf(Types)
  BY MessengerLogAssumption
<1>2. ASSUME NEW types, NEW m \in MessageOf(types)
      PROVE  m.types \subseteq types /\ m.types # {}
  <2>1. m.types \in (SUBSET types) \ {{}}
    BY DEF MessageOf
  <2> QED
    BY <2>1
<1> QED
  BY <1>1, <1>2

(* A request for all types of a message makes its recorder accept it.      *)
LEMMA AskedIsAccepted ==
  ASSUME NEW t \in Threads, NEW m, NEW request,
         msg[t] \in (IF call[t] = "submit" THEN Submitted ELSE Logged),
         msg[t].severity \in request.severities, TypesTold(t) \subseteq request.types
  PROVE  Accepts(t, MessengerRecorder(m, request))
<1>1. CASE call[t] = "submit"
  <2>1. ToLogTypes(msg[t].types) \subseteq ToLogTypes(request.types)
    BY <1>1 DEF TypesTold, ToLogTypes
  <2> QED
    BY <1>1, <2>1 DEF Accepts, AcceptsSubmitted, MessengerRecorder
<1>2. CASE call[t] # "submit"
  <2>1. msg[t].types \subseteq LogTypes /\ msg[t].types # {}
    BY <1>2, MessagesTyped
  <2>2. msg[t].types \subseteq ToLogTypes(request.types)
    BY <1>2, <2>1 DEF TypesTold, ToUtilsTypes, ToLogTypes
  <2> QED
    BY <1>2, <2>1, <2>2 DEF Accepts, AcceptsLogged, MessengerRecorder
<1> QED
  BY <1>1, <1>2

(* If it accepts a message, one of its types was requested, save where the *)
(* only type is the one without a counterpart.                             *)
LEMMA AcceptedIsAsked ==
  ASSUME NEW t \in Threads, NEW m, NEW request,
         msg[t] \in (IF call[t] = "submit" THEN Submitted ELSE Logged),
         TypesTold(t) # {"conformance"}, Accepts(t, MessengerRecorder(m, request))
  PROVE  msg[t].severity \in request.severities /\ TypesTold(t) \cap request.types # {}
<1>1. CASE call[t] = "submit"
  <2>1. ToLogTypes(msg[t].types) \subseteq ToLogTypes(request.types)
        /\ msg[t].severity \in request.severities
    BY <1>1 DEF Accepts, AcceptsSubmitted, MessengerRecorder
  <2>2. PICK type \in msg[t].types : type \in {"general", "validation", "performance"}
    BY <1>1, MessagesTyped DEF TypesTold, Types
  <2>3. PICK l \in LogTypes : UtilsTypeOf[l] = type
    BY <2>2 DEF LogTypes, UtilsTypeOf
  <2>4. type \in request.types
    BY <2>1, <2>2, <2>3 DEF ToLogTypes
  <2> QED
    BY <1>1, <2>1, <2>2, <2>4 DEF TypesTold
<1>2. CASE call[t] # "submit"
  <2>1. /\ msg[t].types \cap ToLogTypes(request.types) # {}
        /\ msg[t].severity \in request.severities
    BY <1>2 DEF Accepts, AcceptsLogged, MessengerRecorder
  <2> QED
    BY <1>2, <2>1 DEF TypesTold, ToUtilsTypes, ToLogTypes
<1> QED
  BY <1>1, <1>2

(* No messenger that asked for a message is passed over, though others are *)
(* created and destroyed on the way (loader_logger.cpp 177-227).           *)
THEOREM NobodyIsMissed == Spec => []NobodyMissed
<1>1. ASSUME DeliveryInv, NEW t \in Threads, pc[t] = "log.done", NEW m \in DOMAIN held, m # None,
             msg[t].severity \in held[m].severities, TypesTold(t) \subseteq held[m].types
      PROVE  m \in told[t]
  <2>1. /\ msg[t] \in (IF call[t] = "submit" THEN Submitted ELSE Logged)
        /\ ToldByRuntime(t) => told[t] = RuntimeTells(msg[t])
        /\ ~ToldByRuntime(t) => Divided(t)
    BY <1>1 DEF DeliveryInv, DeliveryOf
  <2>2. CASE ToldByRuntime(t)
    <3>1. TypesTold(t) = msg[t].types /\ msg[t].types # {}
      BY <2>1, <2>2, MessagesTyped DEF ToldByRuntime, TypesTold
    <3> QED
      BY <1>1, <2>1, <2>2, <3>1 DEF RuntimeTells
  <2>3. CASE ~ToldByRuntime(t)
    <3>1. MessengerRecorder(m, held[m]) \in recorders
      BY <1>1 DEF DeliveryInv, RegisteredInv
    <3>2. Accepts(t, MessengerRecorder(m, held[m]))
      BY <1>1, <2>1, AskedIsAccepted
    <3> QED
      BY <1>1, <2>1, <2>3, <3>1, <3>2, RecorderHasId DEF Divided
  <2> QED
    BY <2>2, <2>3
<1>2. LogInv => \A m \in DOMAIN held : m # None
  BY MessengerLogAssumption DEF LogInv, TypeOK
<1>3. LogInv /\ DeliveryInv => NobodyMissed
  BY <1>1, <1>2 DEF NobodyMissed
<1> QED
  BY <1>3, DeliveryInvariant, PTL

(* None is told of what it did not ask for, but for messages whose only    *)
(* type is unknown to the logger (loader_logger.cpp 77-88).                *)
THEOREM OnlyThoseAsked == Spec => []OnlyAsked
<1>1. ASSUME DeliveryInv, NEW t \in Threads, pc[t] = "log.done", TypesTold(t) # {"conformance"},
             NEW m \in told[t], m \in DOMAIN held, m # None
      PROVE  msg[t].severity \in held[m].severities /\ TypesTold(t) \cap held[m].types # {}
  <2>1. /\ msg[t] \in (IF call[t] = "submit" THEN Submitted ELSE Logged)
        /\ ToldByRuntime(t) => told[t] = RuntimeTells(msg[t])
        /\ ~ToldByRuntime(t) => Divided(t)
    BY <1>1 DEF DeliveryInv, DeliveryOf
  <2>2. CASE ToldByRuntime(t)
    BY <1>1, <2>1, <2>2 DEF RuntimeTells, ToldByRuntime, TypesTold
  <2>3. CASE ~ToldByRuntime(t)
    <3>1. PICK r \in recorders : r.id = m /\ Accepts(t, r)
      BY <1>1, <2>1, <2>3 DEF Divided
    <3>2. r = MessengerRecorder(m, held[m])
      BY <1>1, <3>1, RecorderHasId DEF DeliveryInv, RegisteredInv
    <3> QED
      BY <1>1, <2>1, <3>1, <3>2, AcceptedIsAsked
  <2> QED
    BY <2>2, <2>3
<1>2. LogInv => \A m \in DOMAIN held : m # None
  BY MessengerLogAssumption DEF LogInv, TypeOK
<1>3. LogInv /\ DeliveryInv => OnlyAsked
  BY <1>1, <1>2 DEF OnlyAsked
<1> QED
  BY <1>3, DeliveryInvariant, PTL

(* No messenger gets a message twice (loader_core.cpp 685-697,             *)
(* loader_logger.cpp 206-227).                                             *)
THEOREM NobodyToldTwice == Spec => []NotToldTwice
<1>1. DeliveryInv => NotToldTwice
  BY DEF DeliveryInv, DeliveryOf, Divided, ToldByRuntime, NotToldTwice
<1> QED
  BY <1>1, DeliveryInvariant, PTL

-----------------------------------------------------------------------------
(* The three tables                                                        *)

(* What is pending belongs to the thread that runs alone.                  *)
LEMMA PendingIsOwn ==
  ASSUME NEW t \in Threads, NEW m,
         NEW steps \in SUBSET (CreateSteps \cup DestroySteps \cup EndSteps), Pending(m, steps),
         \A u \in Threads : u # t => pc[u] \notin CreateSteps \cup DestroySteps \cup EndSteps
  PROVE  pc[t] \in steps /\ (mess[t] = m \/ pc[t] \in EndSteps)
  BY DEF Pending

LEMMA PendingKept ==
  ASSUME NEW t \in Threads, NEW m,
         NEW steps \in SUBSET (CreateSteps \cup DestroySteps \cup EndSteps), Pending(m, steps),
         \A u \in Threads : u # t => pc'[u] = pc[u] /\ mess'[u] = mess[u],
         pc[t] \in steps => /\ pc'[t] \in steps /\ mess'[t] = mess[t]
                            /\ pc[t] \in EndSteps => pc'[t] \in EndSteps
  PROVE  Pending(m, steps)'
  BY DEF Pending

LEMMA StepSets ==
  /\ Entered \in SUBSET (CreateSteps \cup DestroySteps \cup EndSteps)
  /\ Tracked \in SUBSET (CreateSteps \cup DestroySteps \cup EndSteps)
BY DEF Entered, Tracked

LEMMA QuietStepMatches ==
  ASSUME TypeOK, AloneInv, MatchInv, NEW t \in Threads,
         LogStep(t) \/ LogBegin(t) \/ SubmitBegin(t) \/ LabelCall(t)
  PROVE  MatchInv'
<1>1. pc[t] \notin CreateSteps \cup DestroySteps \cup EndSteps
  BY DEF LogStep, SubmitDown, LogRead, LogLock, LogCall, LogCalled, LogEnd, LogReturn, LogBegin,
         SubmitBegin, LabelCall, Goto, Return, Enter
<1>2. \A m : Pending(m, Entered) => Pending(m, Entered)'
  BY <1>1, QuietStep, PendingKept, StepSets
<1>3. \A m : Pending(m, Tracked) => Pending(m, Tracked)'
  BY <1>1, QuietStep, PendingKept, StepSets
<1> QED
  BY <1>2, <1>3, QuietStep DEF MatchInv

LEMMA CreateStepsMatch ==
  ASSUME TypeOK, AloneInv, RecorderInv, TrackedInv, MatchInv, NEW t \in Threads,
         CreateFails(t) \/ CreateMessenger(t) \/ AddLogRecorderForXrInstance(t)
         \/ TrackDebugMessenger(t)
  PROVE  MatchInv'
<1>1. pc[t] \in CreateSteps
  BY DEF CreateFails, CreateMessenger, AddLogRecorderForXrInstance, TrackDebugMessenger,
         Goto, Return
<1>2. \A u \in Threads : u # t => pc[u] \notin CreateSteps \cup DestroySteps \cup EndSteps
  BY <1>1, OnlyOne
<1>3. \A m : ~Pending(m, Tracked)
  BY <1>1, <1>2, PendingIsOwn, StepSets DEF Tracked
<1>4. \A m : Pending(m, Entered) => pc[t] = "create.track" /\ mess[t] = m
  BY <1>1, <1>2, PendingIsOwn, StepSets DEF Entered
<1>5. \A u \in Threads : pc'[u] # "end.runtime"
  BY <1>1, <1>2 DEF CreateFails, CreateMessenger, AddLogRecorderForXrInstance,
                    TrackDebugMessenger, Goto, Return, TypeOK
<1>6. CASE CreateFails(t) \/ CreateMessenger(t)
  <2>1. pc[t] = "create.runtime" /\ UNCHANGED <<recorders, byInstance, tracked, alive, held>>
    BY <1>6 DEF CreateFails, CreateMessenger, Goto, Return
  <2> QED
    BY <1>3, <1>4, <1>5, <2>1 DEF MatchInv
<1>7. CASE AddLogRecorderForXrInstance(t)
  <2>1. /\ pc[t] = "create.add" /\ mess[t] # None /\ UNCHANGED <<tracked, alive, held>>
        /\ recorders' = recorders \cup {MessengerRecorder(mess[t], want[t])}
    BY <1>7 DEF AddLogRecorderForXrInstance, Goto, TrackedInv
  <2>2. \A m : m = mess[t] => Pending(m, Entered)'
    BY <1>7 DEF AddLogRecorderForXrInstance, Goto, TypeOK, Pending, Entered
  <2>3. /\ MessengerRecorder(mess[t], want[t]).kind = "debug_utils"
        /\ MessengerRecorder(mess[t], want[t]).id = mess[t]
    BY DEF MessengerRecorder
  <2>4. /\ DOMAIN byInstance' = DOMAIN byInstance \cup {alive}
        /\ \A i \in DOMAIN byInstance' :
             byInstance'[i] = IF i = alive THEN IdsOf(alive) \cup {mess[t]} ELSE byInstance[i]
    BY <1>7 DEF AddLogRecorderForXrInstance, With
  <2>5. \A i \in DOMAIN byInstance' :
          i = alive' /\ \A m \in byInstance'[i] : m \in DOMAIN held' \/ Pending(m, Entered)'
    BY <1>4, <2>1, <2>2, <2>4 DEF MatchInv, IdsOf
  <2>6. \A r \in recorders' : /\ r.kind = "debug_utils" <=> r.id # None
                              /\ r.id # None => r.id \in DOMAIN held' \/ Pending(r.id, Entered)'
    BY <1>4, <2>1, <2>2, <2>3 DEF MatchInv
  <2> QED
    BY <1>3, <1>5, <2>1, <2>5, <2>6 DEF MatchInv
<1>8. CASE TrackDebugMessenger(t)
  <2>1. UNCHANGED <<recorders, byInstance, alive>>
    BY <1>8 DEF TrackDebugMessenger
  <2>2. /\ DOMAIN held' = DOMAIN held \cup {mess[t]}
        /\ DOMAIN tracked' = DOMAIN tracked \cup {mess[t]}
    BY <1>8 DEF TrackDebugMessenger, With
  <2> QED
    BY <1>3, <1>4, <1>5, <2>1, <2>2 DEF MatchInv
<1> QED
  BY <1>6, <1>7, <1>8

LEMMA DestroyStepsMatch ==
  ASSUME TypeOK, AloneInv, TrackedInv, MatchInv, NEW t \in Threads,
         DestroyFind(t) \/ RemoveLogRecorder(t) \/ ForgetDebugMessenger(t)
         \/ DestroyMessenger(t)
  PROVE  MatchInv'
<1>1. pc[t] \in DestroySteps /\ UNCHANGED <<alive, held>>
  BY DEF DestroyFind, RemoveLogRecorder, ForgetDebugMessenger, DestroyMessenger, Goto, Return
<1>2. \A u \in Threads : u # t => pc[u] \notin CreateSteps \cup DestroySteps \cup EndSteps
  BY <1>1, OnlyOne
<1>3. \A m : Pending(m, Tracked) =>
        pc[t] \in {"destroy.find", "destroy.remove", "destroy.forget"} /\ mess[t] = m
  BY <1>1, <1>2, PendingIsOwn, StepSets DEF Tracked
<1>4. \A m : Pending(m, Entered) => pc[t] \in {"destroy.find", "destroy.remove"} /\ mess[t] = m
  BY <1>1, <1>2, PendingIsOwn, StepSets DEF Entered
<1>5. \A u \in Threads : pc'[u] # "end.runtime"
  BY <1>1, <1>2 DEF DestroyFind, RemoveLogRecorder, ForgetDebugMessenger, DestroyMessenger,
                    Goto, Return, TypeOK
<1>6. CASE DestroyFind(t)
  <2>1. \A m : mess[t] = m => Pending(m, Entered)' /\ Pending(m, Tracked)'
    BY <1>6 DEF DestroyFind, Goto, TypeOK, Pending, Entered, Tracked
  <2> QED
    BY <1>3, <1>4, <1>5, <1>6, <2>1 DEF DestroyFind, MatchInv
<1>7. CASE RemoveLogRecorder(t)
  <2>1. /\ recorders' = {r \in recorders : r.id # mess[t]}
        /\ DOMAIN byInstance' = DOMAIN byInstance
        /\ \A i \in DOMAIN byInstance : byInstance'[i] = byInstance[i] \ {mess[t]}
        /\ tracked' = tracked
    BY <1>7 DEF RemoveLogRecorder
  <2>2. \A m : mess[t] = m => Pending(m, Tracked)'
    BY <1>7 DEF RemoveLogRecorder, Goto, TypeOK, Pending, Tracked
  <2>3. \A i \in DOMAIN byInstance' :
          i = alive' /\ \A m \in byInstance'[i] : m \in DOMAIN held'
    BY <1>1, <1>4, <2>1 DEF MatchInv
  <2>4. \A r \in recorders' : /\ r.kind = "debug_utils" <=> r.id # None
                              /\ r.id # None => r.id \in DOMAIN held'
    BY <1>1, <1>4, <2>1 DEF MatchInv
  <2> QED
    BY <1>1, <1>3, <1>5, <2>1, <2>2, <2>3, <2>4 DEF MatchInv
<1>8. CASE ForgetDebugMessenger(t)
  <2>1. /\ pc[t] = "destroy.forget" /\ UNCHANGED <<recorders, byInstance>>
        /\ DOMAIN tracked' = DOMAIN tracked \ {mess[t]}
    BY <1>8 DEF ForgetDebugMessenger, Goto, Without
  <2> QED
    BY <1>1, <1>3, <1>4, <1>5, <2>1 DEF MatchInv
<1>9. CASE DestroyMessenger(t)
  <2>1. pc[t] = "destroy.free" /\ UNCHANGED <<recorders, byInstance, tracked>>
    BY <1>9 DEF DestroyMessenger, Return
  <2> QED
    BY <1>1, <1>3, <1>4, <1>5, <2>1 DEF MatchInv
<1> QED
  BY <1>6, <1>7, <1>8, <1>9

LEMMA EndStepMatches ==
  ASSUME TypeOK, AloneInv, RecorderInv, TrackedInv, MatchInv, NEW t \in Threads, EndStep(t)
  PROVE  MatchInv'
<1>1. pc[t] \in EndSteps /\ held' = held
  BY DEF EndStep, RemoveLogRecordersForXrInstance, DestroyInstance, UnloadRuntime, Goto, Return
<1>2. \A u \in Threads : u # t => pc[u] \notin CreateSteps \cup DestroySteps \cup EndSteps
  BY <1>1, OnlyOne
<1>3. CASE RemoveLogRecordersForXrInstance(t)
  <2>1. \A r \in recorders' : r \in recorders /\ r.id = None
    BY <1>3 DEF RemoveLogRecordersForXrInstance, RecorderInv
  <2>2. DOMAIN byInstance' = {}
    BY <1>3 DEF RemoveLogRecordersForXrInstance, Without, MatchInv
  <2>3. \A m : Pending(m, Tracked)'
    BY <1>3 DEF RemoveLogRecordersForXrInstance, Goto, TypeOK, Pending, Tracked
  <2> QED
    BY <2>1, <2>2, <2>3 DEF MatchInv
<1>4. CASE DestroyInstance(t)
  <2>1. DOMAIN byInstance = {} /\ \A r \in recorders : r.id = None
    BY <1>4 DEF DestroyInstance, Goto, MatchInv, RecorderInv
  <2>2. \A m : Pending(m, Tracked)'
    BY <1>4 DEF DestroyInstance, Goto, TypeOK, Pending, Tracked
  <2> QED
    BY <1>4, <2>1, <2>2 DEF DestroyInstance, MatchInv
<1>5. CASE UnloadRuntime(t)
  <2>1. pc[t] = "end.unload" /\ DOMAIN tracked' = {} /\ UNCHANGED <<recorders, byInstance, alive>>
    BY <1>5 DEF UnloadRuntime, Return
  <2>2. \A m : ~Pending(m, Entered)
    BY <1>2, <2>1, PendingIsOwn, StepSets DEF Entered
  <2>3. \A u \in Threads : pc'[u] # "end.runtime"
    BY <1>2, <1>5 DEF UnloadRuntime, Return, TypeOK
  <2> QED
    BY <1>1, <2>1, <2>2, <2>3 DEF MatchInv
<1> QED
  BY <1>3, <1>4, <1>5 DEF EndStep

LEMMA BeginStepsMatch ==
  ASSUME TypeOK, AloneInv, MatchInv, NEW t \in Threads,
         CreateBegin(t) \/ DestroyBegin(t) \/ EndBegin(t) \/ CreateInstance(t)
  PROVE  MatchInv'
<1>1. \A u \in Threads : pc[u] \notin CreateSteps \cup DestroySteps \cup EndSteps
  BY DEF CreateBegin, DestroyBegin, EndBegin, CreateInstance, MayRunAlone, AloneInv
<1>2. \A m : ~Pending(m, Entered) /\ ~Pending(m, Tracked)
  BY <1>1 DEF Pending, Entered, Tracked
<1>3. \A u \in Threads : pc'[u] # "end.runtime"
  BY <1>1 DEF CreateBegin, DestroyBegin, EndBegin, CreateInstance, Enter, TypeOK
<1>4. UNCHANGED <<recorders, byInstance, tracked>>
  BY DEF CreateBegin, DestroyBegin, EndBegin, CreateInstance
<1>5. CASE CreateBegin(t)
  BY <1>2, <1>3, <1>4, <1>5 DEF CreateBegin, MatchInv
<1>6. CASE DestroyBegin(t)
  <2>1. alive' = alive /\ DOMAIN held' = DOMAIN held \ {mess'[t]}
    BY <1>6 DEF DestroyBegin, Without, TypeOK
  <2>2. \A m : m = mess'[t] => Pending(m, Entered)' /\ Pending(m, Tracked)'
    BY <1>6 DEF DestroyBegin, Enter, TypeOK, Pending, Entered, Tracked
  <2> QED
    BY <1>2, <1>3, <1>4, <2>1, <2>2 DEF MatchInv
<1>7. CASE EndBegin(t)
  <2>1. \A m : Pending(m, Entered)' /\ Pending(m, Tracked)'
    BY <1>7 DEF EndBegin, Enter, TypeOK, Pending, Entered, Tracked
  <2> QED
    BY <1>3, <1>4, <1>7, <2>1 DEF EndBegin, MatchInv
<1>8. CASE CreateInstance(t)
  <2>1. None \notin Instances
    BY MessengerLogAssumption
  <2>2. DOMAIN byInstance = {}
    <3>1. DOMAIN byInstance \subseteq Instances
      BY DEF TypeOK
    <3>2. \A i \in DOMAIN byInstance : i = None
      BY <1>8 DEF CreateInstance, MatchInv
    <3> QED
      BY <2>1, <3>1, <3>2
  <2> QED
    BY <1>2, <1>3, <1>4, <1>8, <2>2 DEF CreateInstance, MatchInv
<1> QED
  BY <1>5, <1>6, <1>7, <1>8

LEMMA InitMatches == Init => MatchInv
<1> SUFFICES ASSUME Init
             PROVE  MatchInv
  OBVIOUS
<1>1. \A r \in recorders : r.id = None /\ r.kind # "debug_utils"
  <2>1. PICK debug \in LoaderDebug : recorders = StdRecorders(debug)
    BY DEF Init
  <2> DEFINE err == StdRecorder("stderr", {"error"})
             out == StdRecorder("stdout", StdOutLevel(debug))
  <2>2. /\ err.id = None /\ err.kind = "stderr"
        /\ out.id = None /\ out.kind = "stdout"
    BY DEF StdRecorder
  <2>3. recorders \subseteq {err, out}
    BY <2>1 DEF StdRecorders
  <2> QED
    BY <2>2, <2>3
<1>2. DOMAIN byInstance = {} /\ DOMAIN tracked = {}
  BY DEF Init
<1> QED
  BY <1>1, <1>2 DEF Init, MatchInv

LEMMA NextMatches == LogInv /\ MatchInv /\ [Next]_vars => MatchInv'
<1> SUFFICES ASSUME LogInv, MatchInv, [Next]_vars
             PROVE  MatchInv'
  OBVIOUS
<1> USE DEF LogInv
<1>1. ASSUME NEW t \in Threads, InsideStep(t) \/ BeginStep(t)
      PROVE  MatchInv'
  BY <1>1, QuietStepMatches, CreateStepsMatch, DestroyStepsMatch, EndStepMatches, BeginStepsMatch
     DEF InsideStep, MessengerStep, BeginStep
<1>2. CASE Finished \/ UNCHANGED vars
  BY <1>2 DEF Finished, MatchInv, Pending
<1> QED
  BY <1>1, <1>2 DEF Next

(* Recorders, the sets per instance and the runtime interface's map never  *)
(* disagree between creations and destructions (loader_logger.cpp 143-175, *)
(* runtime_interface.cpp 369-381).                                         *)
THEOREM TablesAgree == Spec => []RecordersMatch
<1>1. LogInv /\ MatchInv /\ [Next]_vars => MatchInv'
  BY NextMatches
<1>2. Spec => []MatchInv
  BY <1>1, InitMatches, LogInvariant, PTL DEF Spec
<1>3. LogInv /\ DeliveryInv /\ MatchInv => RecordersMatch
  <2> SUFFICES ASSUME LogInv, DeliveryInv, MatchInv, \A t \in Threads : call[t] \notin Alone
               PROVE  /\ {r \in recorders : r.kind = "debug_utils"} =
                           {MessengerRecorder(m, held[m]) : m \in DOMAIN held}
                      /\ UNION {byInstance[i] : i \in DOMAIN byInstance} = DOMAIN held
                      /\ DOMAIN tracked = DOMAIN held
                      /\ \A m \in DOMAIN held :
                           m \in inUse /\ tracked[m] = alive /\ m \in IdsOf(alive)
    BY DEF RecordersMatch
  <2> USE DEF LogInv, DeliveryInv
  <2>1. \A t \in Threads : pc[t] \notin CreateSteps \cup DestroySteps \cup EndSteps
    BY DEF AloneInv
  <2>2. \A m : ~Pending(m, Entered) /\ ~Pending(m, Tracked)
    BY <2>1 DEF Pending, Entered, Tracked
  <2>3. \A m \in DOMAIN held : m # None
    <3>1. DOMAIN held \subseteq Messengers
      BY DEF TypeOK
    <3> QED
      BY <3>1, MessengerLogAssumption
  <2>4. \A m \in DOMAIN held : m \in inUse /\ tracked[m] = alive /\ m \in IdsOf(alive)
    BY <2>3, RecorderHasId DEF RegisteredInv, RecorderInv, TrackedInv
  <2>5. \A m \in DOMAIN held : MessengerRecorder(m, held[m]) \in recorders
    BY DEF RegisteredInv
  <2>6. \A r \in recorders : r.kind = "debug_utils" =>
          r.id \in DOMAIN held /\ r = MessengerRecorder(r.id, held[r.id])
    BY <2>2, <2>3, <2>5, RecorderHasId DEF MatchInv, RegisteredInv
  <2>7. \A m \in DOMAIN held : MessengerRecorder(m, held[m]).kind = "debug_utils"
    BY DEF MessengerRecorder
  <2>8. {r \in recorders : r.kind = "debug_utils"} =
          {MessengerRecorder(m, held[m]) : m \in DOMAIN held}
    BY <2>5, <2>6, <2>7
  <2>9. UNION {byInstance[i] : i \in DOMAIN byInstance} = DOMAIN held
    BY <2>2, <2>4 DEF MatchInv, IdsOf
  <2>10. DOMAIN tracked = DOMAIN held
    BY <2>2 DEF MatchInv, TrackedInv
  <2> QED
    BY <2>4, <2>8, <2>9, <2>10
<1> QED
  BY <1>2, <1>3, DeliveryInvariant, PTL
=============================================================================
