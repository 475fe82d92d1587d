--------------------------- MODULE SingleInstance ---------------------------
(***************************************************************************)
(* What the loader promises about XrInstances, free of locks, libraries    *)
(* and tables: there is one slot, a creation takes it when it is empty, is *)
(* refused exactly when it is taken, and otherwise leaves it as it was;    *)
(* only the destruction of the instance empties it.  loader_core.cpp says  *)
(* so at the check of ActiveLoaderInstance::IsAvailable ("The loader does  *)
(* not support multiple simultaneous instances").                          *)
(***************************************************************************)
EXTENDS FiniteSets, Naturals

CONSTANTS Threads, Handles, None

VARIABLES
  current,  \* the instance in the slot
  granted,  \* handles the application may use
  phase     \* per thread: what it is doing with the slot

vars == <<current, granted, phase>>

Phases == {"idle", "creating", "created", "denied", "destroying"}

Init ==
  /\ current = None
  /\ granted = {}
  /\ phase = [t \in Threads |-> "idle"]

Move(t, from, to) ==
  /\ phase[t] \in from
  /\ phase' = [phase EXCEPT ![t] = to]

BeginCreate(t) ==
  /\ Move(t, {"idle", "denied"}, "creating")
  /\ UNCHANGED <<current, granted>>

Take(t) ==
  /\ current = None
  /\ current' \in Handles
  /\ Move(t, {"creating"}, "created")
  /\ UNCHANGED granted

Deny(t) ==
  /\ current # None
  /\ Move(t, {"creating"}, "denied")
  /\ UNCHANGED <<current, granted>>

GiveUp(t) ==
  /\ current = None
  /\ Move(t, {"creating"}, "idle")
  /\ UNCHANGED <<current, granted>>

Grant(t) ==
  /\ Move(t, {"created"}, "idle")
  /\ granted' = granted \cup {current}
  /\ UNCHANGED current

BeginDestroy(t) ==
  \E h \in granted :
    /\ Move(t, {"idle", "denied"}, "destroying")
    /\ granted' = granted \ {h}
    /\ UNCHANGED current

Release(t) ==
  /\ Move(t, {"destroying"}, "idle")
  /\ current' = None
  /\ UNCHANGED granted

(* The refusal is history once the thread makes another call.              *)
Forget(t) ==
  /\ Move(t, {"denied"}, "idle")
  /\ UNCHANGED <<current, granted>>

Next ==
  \E t \in Threads :
    \/ BeginCreate(t) \/ Take(t) \/ Deny(t) \/ GiveUp(t) \/ Grant(t)
    \/ BeginDestroy(t) \/ Release(t) \/ Forget(t)

Spec == Init /\ [][Next]_vars
-----------------------------------------------------------------------------

TypeOK ==
  /\ current \in Handles \cup {None}
  /\ granted \subseteq Handles
  /\ phase \in [Threads -> Phases]

(* The threads between taking the slot and granting the handle, or between *)
(* giving the handle up and emptying the slot.                             *)
Owners == {t \in Threads : phase[t] \in {"created", "destroying"}}

(* The application never holds two instances, nor one the loader has not   *)
(* in its slot; while a thread creates or destroys one, nobody holds any.  *)
Exclusive ==
  /\ granted \subseteq {current} \ {None}
  /\ \A t \in Owners : granted = {} /\ current # None /\ \A u \in Owners : u = t
=============================================================================
