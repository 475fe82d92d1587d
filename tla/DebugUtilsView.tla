--------------------------- MODULE DebugUtilsView ----------------------------
(***************************************************************************)
(* What XR_EXT_debug_utils is to an application: every object has at most  *)
(* one name, the last one given; every session handle has a stack of open  *)
(* label regions and, on top of it, at most one individual label, which    *)
(* the next label operation on that session takes away.  object_info.cpp   *)
(* keeps regions and individual labels in one list of flagged labels.      *)
(***************************************************************************)
EXTENDS Naturals, Sequences, SequencesExt

CONSTANTS Objects, Names, NoName, Sessions, Labels, NoLabel

VARIABLES
  name,      \* per object: its name, or NoName
  regions,   \* per session: its open regions, outermost first
  individual \* per session: its individual label, or NoLabel

vars == <<name, regions, individual>>

Init ==
  /\ name = [o \in Objects |-> NoName]
  /\ regions = [s \in Sessions |-> <<>>]
  /\ individual = [s \in Sessions |-> NoLabel]

SetName(o, n) ==
  /\ name' = [name EXCEPT ![o] = n]
  /\ UNCHANGED <<regions, individual>>

Begin(s, label) ==
  /\ regions' = [regions EXCEPT ![s] = Append(@, label)]
  /\ individual' = [individual EXCEPT ![s] = NoLabel]
  /\ UNCHANGED name

End(s) ==
  /\ regions' = [regions EXCEPT ![s] = SubSeq(@, 1, Len(@) - 1)]
  /\ individual' = [individual EXCEPT ![s] = NoLabel]
  /\ UNCHANGED name

Insert(s, label) ==
  /\ individual' = [individual EXCEPT ![s] = label]
  /\ UNCHANGED <<name, regions>>

Next ==
  \/ \E o \in Objects, n \in Names \cup {NoName} : SetName(o, n)
  \/ \E s \in Sessions, label \in Labels : Begin(s, label) \/ Insert(s, label)
  \/ \E s \in Sessions : End(s)

Spec == Init /\ [][Next]_vars

(* What a message about session s shows of its labels, innermost first.    *)
Shown(s) ==
  (IF individual[s] = NoLabel THEN <<>> ELSE <<individual[s]>>)
    \o Reverse(regions[s])
=============================================================================
