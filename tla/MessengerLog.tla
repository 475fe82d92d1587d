---------------------------- MODULE MessengerLog -----------------------------
(***************************************************************************)
(* LoaderLogger and its recorders (loader_logger.cpp,                      *)
(* loader_logger_recorders.cpp) with the terminators that make and destroy *)
(* debug utils messengers (loader_core.cpp): threads deliver messages to   *)
(* every recorder under the shared lock, the user's callback included,     *)
(* while others add and remove recorders under the unique lock.            *)
(*                                                                         *)
(* The registry (xr.xml, externsync) makes the application run the         *)
(* creation and destruction of messengers and the destruction of the       *)
(* instance alone among the calls on that instance and its children.       *)
(* Calls without an instance, such as xrEnumerateApiLayerProperties, run   *)
(* at any time and log: what the lock is for.  Every message of the loader *)
(* is such a Log call here, those of the calls below included.             *)
(* The messenger of the "next" chain is in LoaderCore.                     *)
(***************************************************************************)
EXTENDS Naturals, FiniteSets

CONSTANTS
  Threads,
  Instances,        \* XrInstance values
  Messengers,       \* XrDebugUtilsMessengerEXT values
  LabelIds,         \* the label strings the loader allocates
  None,
  Severities,       \* severity bits, the same for loader and debug utils
  Requests,         \* severities and types messengers are created with
  Logged,           \* messages of the loader
  Submitted,        \* messages of xrSubmitDebugUtilsMessageEXT
  LoaderDebug,      \* values of XR_LOADER_DEBUG
  LabelsSerialised, \* no label call while a message is on its way
  MaxCalls,         \* bound on the calls of each thread
  MaxLabels         \* bound on the labels of the session

Types == {"general", "validation", "performance", "conformance"}
LogTypes == {"general", "specification", "performance"}

MessageOf(types) ==
  [severity : Severities, types : (SUBSET types) \ {{}}, about : BOOLEAN]

ASSUME MessengerLogAssumption ==
  /\ None \notin Threads \cup Instances \cup Messengers
  /\ Requests \subseteq [severities : SUBSET Severities, types : SUBSET Types]
  /\ Logged \subseteq MessageOf(LogTypes)
  /\ Submitted \subseteq MessageOf(Types)
  /\ LoaderDebug \subseteq {"", "none", "error", "verbose"}
  /\ {"error", "verbose"} \subseteq Severities
  /\ LabelsSerialised \in BOOLEAN
  /\ MaxCalls \in Nat /\ MaxLabels \in Nat

VARIABLES
  recorders,  \* _recorders, as a set: the order of delivery is left open
  byInstance, \* _recordersByInstance: ids per instance it has an entry for
  readers,    \* threads holding _mutex shared
  tracked,    \* _messenger_to_instance_map
  supports,   \* does the runtime implement XR_EXT_debug_utils?
  alive,      \* the XrInstance with a dispatch table, or None
  inUse,      \* messenger values the runtime or operator new has given out
  held,       \* per messenger the application may use: its request
  labels,     \* allocated labels of the session
  pc,         \* per thread: the next step
  call,       \* per thread: the call it is in
  mess,       \* per thread: the messenger it makes or destroys
  want,       \* per thread: the request of the messenger it makes
  table,      \* per thread: the instance whose dispatch_table it has found
  msg,        \* per thread: the message on its way
  shown,      \* per thread: labels the callback data points into
  todo,       \* per thread: recorders the loop has still to visit
  at,         \* per thread: the recorder the loop is inside of
  told,       \* per thread: messengers the message has reached
  calls       \* per thread: calls made

logger == <<recorders, byInstance, readers>>
runtime == <<tracked, supports, alive, inUse>>
locals == <<mess, want, table, msg, shown, todo, at, told>>
vars == <<logger, runtime, held, labels, pc, call, locals, calls>>

-----------------------------------------------------------------------------
(* Recorders and what they accept                                          *)

UtilsTypeOf ==
  [general |-> "general", specification |-> "validation", performance |-> "performance"]

(* LoaderLogMessageTypesToDebugUtilsMessageTypes                           *)
ToUtilsTypes(types) == {UtilsTypeOf[l] : l \in types}

(* DebugUtilsMessageTypesToLoaderLogMessageTypes: three types of four have *)
(* a counterpart.                                                          *)
ToLogTypes(types) == {l \in LogTypes : UtilsTypeOf[l] \in types}

StdRecorder(kind, severities) ==
  [kind |-> kind, id |-> None, severities |-> severities, types |-> LogTypes]

MessengerRecorder(m, request) ==
  [kind |-> "debug_utils", id |-> m, severities |-> request.severities,
   types |-> ToLogTypes(request.types)]

StdOutLevel(debug) ==
  {s \in Severities : debug = "verbose" \/ debug = s}

(* The constructor of LoaderLogger: stderr unless told "none", and stdout  *)
(* at the level asked for.                                                 *)
StdRecorders(debug) ==
  (IF debug = "none" THEN {} ELSE {StdRecorder("stderr", {"error"})})
    \cup (IF debug = "" THEN {} ELSE {StdRecorder("stdout", StdOutLevel(debug))})

(* LogMessage: the filter of the logger, then that of the recorder.        *)
AcceptsLogged(r, m) ==
  /\ m.severity \in r.severities
  /\ m.types \subseteq r.types
  /\ m.types \cap r.types # {}

(* LogDebugUtilsMessage: only the logger filters.                          *)
AcceptsSubmitted(r, m) ==
  /\ r.kind = "debug_utils"
  /\ m.severity \in r.severities
  /\ ToLogTypes(m.types) \subseteq r.types

(* Seeded defect: the types are not compared.                              *)
AcceptsAnyType(t, r) ==
  /\ call[t] = "submit" => r.kind = "debug_utils"
  /\ msg[t].severity \in r.severities

Accepts(t, r) ==
  IF call[t] = "submit" THEN AcceptsSubmitted(r, msg[t]) ELSE AcceptsLogged(r, msg[t])

Recorder ==
  [kind : {"stderr", "stdout", "debug_utils"}, id : Messengers \cup {None},
   severities : SUBSET Severities, types : SUBSET LogTypes]

-----------------------------------------------------------------------------
LogLocked == {"log.loop", "log.callback", "log.done"}
LogSteps == {"log.read", "log.lock"} \cup LogLocked
Labels == {"idle", "submit", "create.runtime", "create.add", "create.track", "destroy.find",
           "destroy.remove", "destroy.forget", "destroy.free", "end.remove", "end.runtime",
           "end.unload"} \cup LogSteps
Calls == {"none", "log", "report", "submit", "create", "destroy", "end"}
Alone == {"create", "destroy", "end"}

TypeOK ==
  /\ recorders \subseteq Recorder
  /\ DOMAIN byInstance \subseteq Instances
  /\ \A i \in DOMAIN byInstance : byInstance[i] \subseteq Messengers
  /\ readers \subseteq Threads
  /\ DOMAIN tracked \subseteq Messengers
  /\ \A m \in DOMAIN tracked : tracked[m] \in Instances
  /\ supports \in BOOLEAN
  /\ alive \in Instances \cup {None}
  /\ inUse \subseteq Messengers
  /\ DOMAIN held \subseteq Messengers
  /\ \A m \in DOMAIN held : held[m] \in Requests
  /\ labels \subseteq LabelIds
  /\ pc \in [Threads -> Labels]
  /\ call \in [Threads -> Calls]
  /\ mess \in [Threads -> Messengers \cup {None}]
  /\ want \in [Threads -> Requests \cup {None}]
  /\ table \in [Threads -> Instances \cup {None}]
  /\ msg \in [Threads -> Logged \cup Submitted \cup {None}]
  /\ shown \in [Threads -> SUBSET LabelIds]
  /\ todo \in [Threads -> SUBSET Recorder]
  /\ at \in [Threads -> Recorder \cup {None}]
  /\ told \in [Threads -> SUBSET Messengers]
  /\ calls \in [Threads -> 0..MaxCalls]

Init ==
  /\ \E debug \in LoaderDebug : recorders = StdRecorders(debug)
  /\ byInstance = << >>
  /\ readers = {}
  /\ tracked = << >>
  /\ supports \in BOOLEAN
  /\ alive = None
  /\ inUse = {}
  /\ held = << >>
  /\ labels = {}
  /\ pc = [t \in Threads |-> "idle"]
  /\ call = [t \in Threads |-> "none"]
  /\ mess = [t \in Threads |-> None]
  /\ want = [t \in Threads |-> None]
  /\ table = [t \in Threads |-> None]
  /\ msg = [t \in Threads |-> None]
  /\ shown = [t \in Threads |-> {}]
  /\ todo = [t \in Threads |-> {}]
  /\ at = [t \in Threads |-> None]
  /\ told = [t \in Threads |-> {}]
  /\ calls = [t \in Threads |-> 0]
-----------------------------------------------------------------------------
(* Control                                                                 *)

With(f, k, v) == [x \in DOMAIN f \cup {k} |-> IF x = k THEN v ELSE f[x]]
Without(f, k) == [x \in DOMAIN f \ {k} |-> f[x]]

(* The calls of xr.xml that run alone on the instance, and those that may  *)
(* overlap all but these.                                                  *)
MayRunAlone == alive # None /\ \A u \in Threads : call[u] \in {"none", "log"}
MayRun == alive # None /\ \A u \in Threads : call[u] \notin Alone

Enter(t, name, to) ==
  /\ pc[t] = "idle"
  /\ calls[t] < MaxCalls
  /\ calls' = [calls EXCEPT ![t] = @ + 1]
  /\ call' = [call EXCEPT ![t] = name]
  /\ pc' = [pc EXCEPT ![t] = to]

Goto(t, from, to) ==
  /\ pc[t] = from
  /\ pc' = [pc EXCEPT ![t] = to]
  /\ UNCHANGED <<call, calls>>

Return(t, from) ==
  /\ pc[t] = from
  /\ pc' = [pc EXCEPT ![t] = "idle"]
  /\ call' = [call EXCEPT ![t] = "none"]
  /\ mess' = [mess EXCEPT ![t] = None]
  /\ want' = [want EXCEPT ![t] = None]
  /\ table' = [table EXCEPT ![t] = None]
  /\ msg' = [msg EXCEPT ![t] = None]
  /\ shown' = [shown EXCEPT ![t] = {}]
  /\ todo' = [todo EXCEPT ![t] = {}]
  /\ at' = [at EXCEPT ![t] = None]
  /\ told' = [told EXCEPT ![t] = {}]
  /\ UNCHANGED calls

(* std::unique_lock on _mutex; nothing blocks inside, so the section is    *)
(* one step.                                                               *)
UniqueLock == readers = {}

-----------------------------------------------------------------------------
(* Delivering a message                                                    *)

(* Only calls on a session log messages about it.                          *)
LogBegin(t) ==
  \E m \in Logged :
    /\ m.about => MayRun
    /\ Enter(t, IF m.about THEN "report" ELSE "log", "log.read")
    /\ msg' = [msg EXCEPT ![t] = m]
    /\ UNCHANGED <<logger, runtime, held, labels, mess, want, table, shown, todo, at, told>>

SubmitBegin(t) ==
  \E m \in Submitted :
    /\ MayRun
    /\ Enter(t, "submit", "submit")
    /\ msg' = [msg EXCEPT ![t] = m]
    /\ UNCHANGED <<logger, runtime, held, labels, mess, want, table, shown, todo, at, told>>

(* The messengers of the runtime that a submitted message concerns.        *)
RuntimeTells(m) ==
  {h \in DOMAIN held : m.severity \in held[h].severities /\ m.types \cap held[h].types # {}}

(* Seeded defect: the loader logs what the runtime has told already.       *)
SubmitTwice(t) ==
  /\ Goto(t, "submit", "log.read")
  /\ told' = [told EXCEPT ![t] = IF supports THEN RuntimeTells(msg[t]) ELSE {}]
  /\ UNCHANGED <<logger, runtime, held, labels, mess, want, table, msg, shown, todo, at>>

(* Only a runtime without the extension leaves the message to the loader.  *)
SubmitDown(t) ==
  /\ Goto(t, "submit", IF supports THEN "log.done" ELSE "log.read")
  /\ told' = [told EXCEPT ![t] = IF supports THEN RuntimeTells(msg[t]) ELSE {}]
  /\ UNCHANGED <<logger, runtime, held, labels, mess, want, table, msg, shown, todo, at>>

(* PopulateNamesAndLabels or WrapCallbackData, before the lock is taken:   *)
(* the copies of the labels keep pointing to the strings of the originals. *)
(* WrapCallbackData may add none, as DebugUtilsData has it.                *)
LogRead(t) ==
  /\ Goto(t, "log.read", "log.lock")
  /\ \E added \in {labels} \cup (IF call[t] = "submit" THEN {{}} ELSE {}) :
       shown' = [shown EXCEPT ![t] = IF msg[t].about THEN added ELSE {}]
  /\ UNCHANGED <<logger, runtime, held, labels, mess, want, table, msg, todo, at, told>>

(* std::shared_lock; the loop skips the recorders that do not accept.      *)
LogLock(t) ==
  /\ Goto(t, "log.lock", "log.loop")
  /\ readers' = readers \cup {t}
  /\ todo' = [todo EXCEPT ![t] = {r \in recorders : Accepts(t, r)}]
  /\ UNCHANGED <<recorders, byInstance, runtime, held, labels, mess, want, table, msg, shown,
                 at, told>>

LogCall(t) ==
  \E r \in todo[t] :
    /\ Goto(t, "log.loop", "log.callback")
    /\ todo' = [todo EXCEPT ![t] = @ \ {r}]
    /\ at' = [at EXCEPT ![t] = r]
    /\ UNCHANGED <<logger, runtime, held, labels, mess, want, table, msg, shown, told>>

(* Seeded defect: the loop ends at the first recorder that takes it.       *)
LogCalledOnce(t) ==
  /\ Goto(t, "log.callback", "log.done")
  /\ told' = [told EXCEPT ![t] = @ \cup ({at[t].id} \ {None})]
  /\ at' = [at EXCEPT ![t] = None]
  /\ UNCHANGED <<logger, runtime, held, labels, mess, want, table, msg, shown, todo>>

LogCalled(t) ==
  /\ Goto(t, "log.callback", "log.loop")
  /\ told' = [told EXCEPT ![t] = @ \cup ({at[t].id} \ {None})]
  /\ at' = [at EXCEPT ![t] = None]
  /\ UNCHANGED <<logger, runtime, held, labels, mess, want, table, msg, shown, todo>>

LogEnd(t) ==
  /\ todo[t] = {}
  /\ Goto(t, "log.loop", "log.done")
  /\ UNCHANGED <<logger, runtime, held, labels, locals>>

LogReturn(t) ==
  /\ Return(t, "log.done")
  /\ readers' = readers \ {t}
  /\ UNCHANGED <<recorders, byInstance, runtime, held, labels>>

-----------------------------------------------------------------------------
(* xrSessionBegin-, End- and InsertDebugUtilsLabel: no lock, and no rule   *)
(* of xr.xml, keeps them from overlapping a message about the session.     *)
LabelCall(t) ==
  /\ MayRun
  /\ pc[t] = "idle"
  /\ LabelsSerialised => \A u \in Threads : shown[u] = {}
  /\ calls[t] < MaxCalls
  /\ calls' = [calls EXCEPT ![t] = @ + 1]
  /\ \/ \E l \in LabelIds \ labels :
          Cardinality(labels) < MaxLabels /\ labels' = labels \cup {l}
     \/ \E l \in labels : labels' = labels \ {l}
  /\ UNCHANGED <<logger, runtime, held, pc, call, locals>>

-----------------------------------------------------------------------------
(* xrCreateDebugUtilsMessengerEXT                                          *)

CreateBegin(t) ==
  \E request \in Requests :
    /\ MayRunAlone
    /\ inUse # Messengers  \* bound: a value is left
    /\ Enter(t, "create", "create.runtime")
    /\ want' = [want EXCEPT ![t] = request]
    /\ UNCHANGED <<logger, runtime, held, labels, mess, table, msg, shown, todo, at, told>>

CreateFails(t) ==
  /\ supports
  /\ Return(t, "create.runtime")
  /\ UNCHANGED <<logger, runtime, held, labels>>

(* The runtime's messenger, or the address of a new char.                  *)
CreateMessenger(t) ==
  \E m \in Messengers \ inUse :
    /\ Goto(t, "create.runtime", "create.add")
    /\ inUse' = inUse \cup {m}
    /\ mess' = [mess EXCEPT ![t] = m]
    /\ UNCHANGED <<logger, tracked, supports, alive, held, labels>>
    /\ UNCHANGED <<want, table, msg, shown, todo, at, told>>

IdsOf(i) == IF i \in DOMAIN byInstance THEN byInstance[i] ELSE {}

AddLogRecorderForXrInstance(t) ==
  /\ UniqueLock
  /\ Goto(t, "create.add", "create.track")
  /\ byInstance' = With(byInstance, alive, IdsOf(alive) \cup {mess[t]})
  /\ recorders' = recorders \cup {MessengerRecorder(mess[t], want[t])}
  /\ UNCHANGED <<readers, runtime, held, labels, locals>>

(* Seeded defect: the messenger is not tracked.                            *)
CreateUntracked(t) ==
  /\ Return(t, "create.track")
  /\ held' = With(held, mess[t], want[t])
  /\ UNCHANGED <<logger, runtime, labels>>

TrackDebugMessenger(t) ==
  /\ Return(t, "create.track")
  /\ tracked' = With(tracked, mess[t], alive)
  /\ held' = With(held, mess[t], want[t])
  /\ UNCHANGED <<logger, supports, alive, inUse, labels>>

-----------------------------------------------------------------------------
(* xrDestroyDebugUtilsMessengerEXT                                         *)

DestroyBegin(t) ==
  \E m \in DOMAIN held :
    /\ MayRunAlone
    /\ Enter(t, "destroy", "destroy.find")
    /\ mess' = [mess EXCEPT ![t] = m]
    /\ held' = Without(held, m)
    /\ UNCHANGED <<logger, runtime, labels, want, table, msg, shown, todo, at, told>>

(* GetDebugUtilsMessengerDispatchTable: a null pointer if the messenger or *)
(* its instance is in no map.                                              *)
TableOf(m) ==
  IF m \in DOMAIN tracked /\ tracked[m] = alive THEN alive ELSE None

(* Found now, dereferenced at the end.                                     *)
DestroyFind(t) ==
  /\ Goto(t, "destroy.find", "destroy.remove")
  /\ table' = [table EXCEPT ![t] = TableOf(mess[t])]
  /\ UNCHANGED <<logger, runtime, held, labels, mess, want, msg, shown, todo, at, told>>

(* Seeded defect: the lock does not keep the remover out.                  *)
RemoveUnlocked(t) ==
  /\ Goto(t, "destroy.remove", "destroy.forget")
  /\ recorders' = {r \in recorders : r.id # mess[t]}
  /\ byInstance' = [i \in DOMAIN byInstance |-> byInstance[i] \ {mess[t]}]
  /\ UNCHANGED <<readers, runtime, held, labels, locals>>

RemoveLogRecorder(t) ==
  /\ UniqueLock
  /\ Goto(t, "destroy.remove", "destroy.forget")
  /\ recorders' = {r \in recorders : r.id # mess[t]}
  /\ byInstance' = [i \in DOMAIN byInstance |-> byInstance[i] \ {mess[t]}]
  /\ UNCHANGED <<readers, runtime, held, labels, locals>>

ForgetDebugMessenger(t) ==
  /\ Goto(t, "destroy.forget", "destroy.free")
  /\ tracked' = Without(tracked, mess[t])
  /\ UNCHANGED <<logger, supports, alive, inUse, held, labels, locals>>

DestroyMessenger(t) ==
  /\ Return(t, "destroy.free")
  /\ inUse' = inUse \ {mess[t]}
  /\ UNCHANGED <<logger, tracked, supports, alive, held, labels>>

-----------------------------------------------------------------------------
(* The instance: xrCreateInstance as one step, and xrDestroyInstance.      *)

CreateInstance(t) ==
  \E i \in Instances :
    /\ alive = None
    /\ \A u \in Threads : call[u] \notin Alone
    /\ pc[t] = "idle" /\ calls[t] < MaxCalls
    /\ calls' = [calls EXCEPT ![t] = @ + 1]
    /\ alive' = i
    /\ UNCHANGED <<logger, tracked, supports, inUse, held, labels, pc, call, locals>>

EndBegin(t) ==
  /\ MayRunAlone
  /\ Enter(t, "end", "end.remove")
  /\ held' = << >>
  /\ UNCHANGED <<logger, runtime, labels, locals>>

(* Seeded defect: the recorders outlive their instance.                    *)
RemoveNoLogRecorders(t) ==
  /\ Goto(t, "end.remove", "end.runtime")
  /\ UNCHANGED <<logger, runtime, held, labels, locals>>

RemoveLogRecordersForXrInstance(t) ==
  /\ UniqueLock
  /\ Goto(t, "end.remove", "end.runtime")
  /\ recorders' = {r \in recorders : r.id \notin IdsOf(alive)}
  /\ byInstance' = Without(byInstance, alive)
  /\ UNCHANGED <<readers, runtime, held, labels, locals>>

(* The instance's table goes, then the runtime destroys the instance and   *)
(* its messengers.  The chars of a runtime without messengers are never    *)
(* given back.                                                             *)
DestroyInstance(t) ==
  /\ Goto(t, "end.runtime", "end.unload")
  /\ alive' = None
  /\ inUse' = IF supports THEN {} ELSE inUse
  /\ UNCHANGED <<logger, tracked, supports, held, labels, locals>>

(* The map goes with the RuntimeInterface.                                 *)
UnloadRuntime(t) ==
  /\ Return(t, "end.unload")
  /\ tracked' = << >>
  /\ UNCHANGED <<logger, supports, alive, inUse, held, labels>>

-----------------------------------------------------------------------------
LogStep(t) ==
  \/ SubmitDown(t) \/ LogRead(t) \/ LogLock(t) \/ LogCall(t) \/ LogCalled(t)
  \/ LogEnd(t) \/ LogReturn(t)

MessengerStep(t) ==
  \/ CreateFails(t) \/ CreateMessenger(t) \/ AddLogRecorderForXrInstance(t)
  \/ TrackDebugMessenger(t) \/ DestroyFind(t) \/ RemoveLogRecorder(t)
  \/ ForgetDebugMessenger(t) \/ DestroyMessenger(t)

EndStep(t) ==
  RemoveLogRecordersForXrInstance(t) \/ DestroyInstance(t) \/ UnloadRuntime(t)

BeginStep(t) ==
  \/ LogBegin(t) \/ SubmitBegin(t) \/ LabelCall(t) \/ CreateBegin(t) \/ DestroyBegin(t)
  \/ CreateInstance(t) \/ EndBegin(t)

InsideStep(t) == LogStep(t) \/ MessengerStep(t) \/ EndStep(t)

(* Every thread has made its calls: the bound, not a deadlock, stops here. *)
Finished ==
  /\ \A t \in Threads : pc[t] = "idle" /\ calls[t] = MaxCalls
  /\ UNCHANGED vars

Next == (\E t \in Threads : InsideStep(t) \/ BeginStep(t)) \/ Finished

Spec == Init /\ [][Next]_vars

-----------------------------------------------------------------------------
(* Properties                                                              *)

(* While a recorder is called it is among the recorders, and its messenger *)
(* is one the runtime or the heap still has: no callback of a messenger    *)
(* runs once its destruction or that of its instance has returned, and the *)
(* loop never stands on a deleted recorder.                                *)
CallbackOnLiveMessenger ==
  \A t \in Threads :
    pc[t] = "log.callback" =>
      at[t] \in recorders /\ at[t].id \in inUse \cup {None}

(* The types of a message as its callbacks are told them.                  *)
TypesTold(t) == IF call[t] = "submit" THEN msg[t].types ELSE ToUtilsTypes(msg[t].types)

(* A message reaches every messenger the application has when its delivery *)
(* ends and which asked for its severity and for all its types, whatever   *)
(* creations and destructions overlap it.                                  *)
NobodyMissed ==
  \A t \in Threads : pc[t] = "log.done" =>
    \A m \in DOMAIN held :
      msg[t].severity \in held[m].severities /\ TypesTold(t) \subseteq held[m].types
        => m \in told[t]

(* It reaches none that asked for another severity or for no type of it,   *)
(* unless its only type is the one loader_logger.cpp does not know.        *)
OnlyAsked ==
  \A t \in Threads : pc[t] = "log.done" /\ TypesTold(t) # {"conformance"} =>
    \A m \in told[t] \cap DOMAIN held :
      msg[t].severity \in held[m].severities /\ TypesTold(t) \cap held[m].types # {}

(* No message is given to a messenger twice, be it by the loader or by a   *)
(* runtime with messengers of its own (loader_core.cpp:687-688).           *)
NotToldTwice == \A t \in Threads : pc[t] = "log.callback" => at[t].id \notin told[t]

(* Between creations and destructions, recorders, the sets per instance    *)
(* and the runtime interface's map all hold the messengers the application *)
(* has, each with what it asked for, and no others.                        *)
RecordersMatch ==
  (\A t \in Threads : call[t] \notin Alone) =>
    /\ {r \in recorders : r.kind = "debug_utils"} =
         {MessengerRecorder(m, held[m]) : m \in DOMAIN held}
    /\ UNION {byInstance[i] : i \in DOMAIN byInstance} = DOMAIN held
    /\ DOMAIN tracked = DOMAIN held
    /\ \A m \in DOMAIN held : m \in inUse /\ tracked[m] = alive /\ m \in IdsOf(alive)

(* xrDestroyDebugUtilsMessengerEXT keeps the dispatch table it found while *)
(* it removes and forgets the messenger, and then dereferences it without  *)
(* a check (loader_core.cpp:667): there is one, and its instance still     *)
(* has it.                                                                 *)
DestroyFindsTable ==
  \A t \in Threads : pc[t] = "destroy.free" => table[t] # None /\ table[t] = alive

(* The names and labels a message is given "Must persist unmodified during *)
(* the entire debug messenger call!" (object_info.h:158).                  *)
MetadataPersists ==
  \A t \in Threads : pc[t] = "log.callback" /\ at[t].id # None => shown[t] \subseteq labels
-----------------------------------------------------------------------------
(* The inductive invariant behind CallbackOnLiveMessenger and              *)
(* DestroyFindsTable.                                                      *)

(* A loop over the recorders holds the lock, and what it has still to      *)
(* visit is among the recorders.                                           *)
LockInv ==
  \A t \in Threads :
    /\ pc[t] \in {"log.loop", "log.callback"} => t \in readers /\ todo[t] \subseteq recorders
    /\ pc[t] = "log.callback" => at[t] \in recorders

CreateSteps == {"create.runtime", "create.add", "create.track"}
DestroySteps == {"destroy.find", "destroy.remove", "destroy.forget", "destroy.free"}
EndSteps == {"end.remove", "end.runtime", "end.unload"}

(* At most one thread changes the messengers or ends the instance.         *)
AloneInv ==
  /\ \A t \in Threads :
       /\ pc[t] \in CreateSteps <=> call[t] = "create"
       /\ pc[t] \in DestroySteps <=> call[t] = "destroy"
       /\ pc[t] \in EndSteps <=> call[t] = "end"
       /\ call[t] \in Alone /\ pc[t] # "end.unload" => alive # None
  /\ \A t, u \in Threads : call[t] \in Alone /\ call[u] \in Alone => t = u

(* The recorder of a messenger goes before its value is given back.        *)
RecorderInv ==
  /\ \A r \in recorders : r.id # None => alive # None /\ r.id \in inUse \cap IdsOf(alive)
  /\ \A t \in Threads :
       /\ pc[t] = "create.add" \/ pc[t] = "create.track" => mess[t] \in inUse
       /\ pc[t] \in {"destroy.forget", "destroy.free"} => \A r \in recorders : r.id # mess[t]
       /\ pc[t] \in {"destroy.remove", "destroy.forget", "destroy.free"} => mess[t] # None
       /\ pc[t] \in {"end.runtime", "end.unload"} => \A r \in recorders : r.id = None

TrackedInv ==
  /\ \A m \in DOMAIN held : m \in DOMAIN tracked /\ tracked[m] = alive /\ m \in inUse
  /\ \A t \in Threads :
       /\ pc[t] \in CreateSteps => want[t] \in Requests
       /\ pc[t] \in EndSteps => DOMAIN held = {}
       /\ pc[t] \in DestroySteps => mess[t] \notin DOMAIN held
       /\ pc[t] \in {"create.add", "create.track"} => mess[t] \notin DOMAIN held /\ mess[t] # None
       /\ pc[t] = "destroy.find" => mess[t] \in DOMAIN tracked /\ tracked[mess[t]] = alive
       /\ pc[t] \in {"destroy.remove", "destroy.forget", "destroy.free"} => table[t] = alive

LogInv == TypeOK /\ LockInv /\ AloneInv /\ RecorderInv /\ TrackedInv

-----------------------------------------------------------------------------
(* The invariant behind NobodyMissed, OnlyAsked and NotToldTwice.          *)

(* Every messenger the application has is registered, with what it asked   *)
(* for, and no messenger is registered twice.                              *)
RegisteredInv ==
  /\ \A m \in DOMAIN held : MessengerRecorder(m, held[m]) \in recorders
  /\ \A r, s \in recorders : r.id = s.id /\ r.id # None => r = s
  /\ \A t \in Threads :
       /\ pc[t] = "create.add" => \A r \in recorders : r.id # mess[t]
       /\ pc[t] = "create.track" => MessengerRecorder(mess[t], want[t]) \in recorders

(* A runtime with messengers of its own has delivered the message.         *)
ToldByRuntime(t) == call[t] = "submit" /\ supports

(* The recorders that accept a message are divided into those the loop has *)
(* called, the one it is inside of and those it has still to visit.        *)
Divided(t) ==
  /\ t \in readers
  /\ \A r \in recorders : r.id # None /\ Accepts(t, r) =>
       r \in todo[t] \/ (pc[t] = "log.callback" /\ r = at[t]) \/ r.id \in told[t]
  /\ \A r \in todo[t] : Accepts(t, r) /\ r.id \notin told[t]
  /\ \A m \in told[t] : \E r \in recorders : r.id = m /\ Accepts(t, r)
  /\ pc[t] = "log.callback" =>
       at[t] \notin todo[t] /\ at[t].id \notin told[t] /\ Accepts(t, at[t])
  /\ pc[t] = "log.done" => todo[t] = {}

DeliveryOf(t) ==
  /\ pc[t] \in LogSteps \cup {"submit"} =>
       msg[t] \in (IF call[t] = "submit" THEN Submitted ELSE Logged)
  /\ pc[t] = "submit" => call[t] = "submit"
  /\ pc[t] \in LogSteps /\ ToldByRuntime(t) =>
       pc[t] = "log.done" /\ told[t] = RuntimeTells(msg[t])
  /\ pc[t] \in {"idle", "submit", "log.read", "log.lock"} => told[t] = {}
  /\ pc[t] \in LogLocked /\ ~ToldByRuntime(t) => Divided(t)

SubmitInv == \A t, u \in Threads : call[t] = "submit" => call[u] \notin Alone

DeliveryInv == RegisteredInv /\ SubmitInv /\ \A t \in Threads : DeliveryOf(t)

(* The invariant behind RecordersMatch: what the tables hold beyond the    *)
(* messengers of the application is that of the call that runs alone.      *)
Entered == {"create.track", "destroy.find", "destroy.remove", "end.remove"}
Tracked == {"destroy.find", "destroy.remove", "destroy.forget"} \cup EndSteps

Pending(m, steps) ==
  \E t \in Threads : pc[t] \in steps /\ (mess[t] = m \/ pc[t] \in EndSteps)

MatchInv ==
  /\ \A r \in recorders : r.kind = "debug_utils" <=> r.id # None
  /\ \A r \in recorders : r.id # None => r.id \in DOMAIN held \/ Pending(r.id, Entered)
  /\ \A i \in DOMAIN byInstance :
       i = alive /\ \A m \in byInstance[i] : m \in DOMAIN held \/ Pending(m, Entered)
  /\ \A t \in Threads : pc[t] = "end.runtime" => DOMAIN byInstance = {}
  /\ \A m \in DOMAIN tracked : m \in DOMAIN held \/ Pending(m, Tracked)
=============================================================================
