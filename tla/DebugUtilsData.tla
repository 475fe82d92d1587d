--------------------------- MODULE DebugUtilsData ----------------------------
(***************************************************************************)
(* DebugUtilsData and ObjectInfoCollection (object_info.cpp): the object   *)
(* names and session labels the loader keeps to complete debug messages    *)
(* with, and the two routines that complete them, for messages submitted   *)
(* by the application and for those of the loader itself.                  *)
(*                                                                         *)
(* The trampolines take no lock; calls of the application on its sessions  *)
(* are taken to follow one another.  A label call records the label before *)
(* the runtime answers, and keeps it whatever the answer, which is         *)
(* therefore left out; so are the calls rejected for a null argument.      *)
(***************************************************************************)
EXTENDS Naturals, FiniteSets, Sequences, SequencesExt

CONSTANTS
  Handles,    \* handle values
  OtherTypes, \* object types other than XR_OBJECT_TYPE_SESSION
  Session,    \* XR_OBJECT_TYPE_SESSION
  Names,      \* names given to objects
  NoName,     \* the empty string
  Labels,     \* labelName and color of a label
  NoLabel,    \* no label
  GivenNames, \* names of objects in messages, as their senders give them
  Messages,   \* messages submitted or logged
  CountRange, \* 2^8: the values of the uint8_t counts of LogMessage
  MaxLabels   \* bound on the depth of label regions

(* Handles of different types may have the same value.                     *)
Objects == [handle : Handles, type : OtherTypes \cup {Session}]

ObjectInfos == [object : Objects, name : Names]
SessionLabels == [label : Labels, individual : BOOLEAN]
SentObjects == [object : Objects, name : GivenNames]

ASSUME DebugUtilsAssumption ==
  /\ NoName \notin Names
  /\ NoLabel \notin Labels
  /\ MaxLabels \in Nat
  /\ CountRange \in Nat \ {0}
  /\ \A m \in Messages : m.objects \in Seq(SentObjects)

VARIABLES
  object_info,    \* object_info_, as a set: no two entries are of one object
  session_labels, \* session_labels_: per session handle met, its list
  live            \* the application's sessions

vars == <<object_info, session_labels, live>>

Init ==
  /\ object_info = {}
  /\ session_labels = << >>
  /\ live = {}

-----------------------------------------------------------------------------
(* Object names                                                            *)

Known(o) == \E info \in object_info : info.object = o

(* LookUpObjectName: the name stored for o, or else the one it came with.  *)
LookUpObjectName(o, given) ==
  IF Known(o) THEN (CHOOSE info \in object_info : info.object = o).name
              ELSE given

RemoveObjectName(o) ==
  /\ object_info' = {info \in object_info : info.object # o}
  /\ UNCHANGED <<session_labels, live>>

UpdateObjectName(o, n) ==
  /\ Known(o)
  /\ object_info' = {IF info.object = o THEN [info EXCEPT !.name = n] ELSE info :
                       info \in object_info}
  /\ UNCHANGED <<session_labels, live>>

(* Seeded defect: a name is stored without looking for an older one.       *)
AppendObjectName(o, n) ==
  /\ object_info' = object_info \cup {[object |-> o, name |-> n]}
  /\ UNCHANGED <<session_labels, live>>

AddObjectName(o, n) ==
  /\ ~Known(o)
  /\ object_info' = object_info \cup {[object |-> o, name |-> n]}
  /\ UNCHANGED <<session_labels, live>>

-----------------------------------------------------------------------------
(* Session labels                                                          *)

(* GetSessionLabelList, with no list as the empty one.                     *)
LabelList(s) ==
  IF s \in DOMAIN session_labels THEN session_labels[s] ELSE <<>>

HasIndividual(list) == list # <<>> /\ list[Len(list)].individual

RemoveIndividualLabel(list) ==
  IF HasIndividual(list) THEN SubSeq(list, 1, Len(list) - 1) ELSE list

(* Session s has this list from now on, whether it had one or not.         *)
SetLabelList(s, list) ==
  /\ session_labels' = [t \in DOMAIN session_labels \cup {s} |->
                          IF t = s THEN list ELSE session_labels[t]]
  /\ UNCHANGED <<object_info, live>>

BeginLabelRegion(s, label) ==
  LET list == RemoveIndividualLabel(LabelList(s)) IN
  /\ Len(list) < MaxLabels
  /\ SetLabelList(s, Append(list, [label |-> label, individual |-> FALSE]))

(* Seeded defect: the label on top goes, be it an individual one.          *)
EndTopLabel(s) ==
  LET list == LabelList(s) IN
  /\ s \in DOMAIN session_labels
  /\ SetLabelList(s, SubSeq(list, 1, Len(list) - 1))

EndLabelRegion(s) ==
  LET list == RemoveIndividualLabel(LabelList(s)) IN
  /\ s \in DOMAIN session_labels
  /\ SetLabelList(s, SubSeq(list, 1, Len(list) - 1))

(* Seeded defect: an individual label does not replace the one before it.  *)
InsertAnotherLabel(s, label) ==
  /\ Len(LabelList(s)) <= MaxLabels
  /\ SetLabelList(s, Append(LabelList(s), [label |-> label, individual |-> TRUE]))

InsertLabel(s, label) ==
  LET list == RemoveIndividualLabel(LabelList(s)) IN
  SetLabelList(s, Append(list, [label |-> label, individual |-> TRUE]))

(* xrCreateSession, xrDestroySession and the destruction of the instance   *)
(* with its sessions pass through the loader and leave the labels alone:   *)
(* nothing calls DeleteSessionLabels.                                      *)
CreateSession(s) ==
  /\ live' = live \cup {s}
  /\ UNCHANGED <<object_info, session_labels>>

DestroySession(s) ==
  /\ live' = live \ {s}
  /\ UNCHANGED <<object_info, session_labels>>

-----------------------------------------------------------------------------
(* Messages                                                                *)

(* Seeded defect: the labels are given outermost first.                    *)
LookUpInOrder(s) ==
  LET list == LabelList(s) IN [i \in DOMAIN list |-> list[i].label]

(* LookUpSessionLabels: the list of s in reverse order.                    *)
LookUpSessionLabels(s) ==
  LET list == Reverse(LabelList(s)) IN [i \in DOMAIN list |-> list[i].label]

(* The labels of all sessions among the objects of a message.              *)
LabelsOf(objects) ==
  FlattenSeq([i \in DOMAIN objects |->
    IF objects[i].object.type = Session
      THEN LookUpSessionLabels(objects[i].object.handle) ELSE <<>>])

NamesOf(objects) ==
  [i \in DOMAIN objects |->
     [objects[i] EXCEPT !.name = LookUpObjectName(objects[i].object, @)]]

(* Seeded defect: labels are added only for the sake of a name found.      *)
WrapIfNameFound(message) ==
  LET found == \E i \in DOMAIN message.objects : Known(message.objects[i].object)
  IN IF ~found THEN message
     ELSE [objects |-> NamesOf(message.objects), labels |-> LabelsOf(message.objects)]

(* A message the application submits, as messengers get it.                *)
WrapCallbackData(message) ==
  LET labels == LabelsOf(message.objects)
      found == \E i \in DOMAIN message.objects : Known(message.objects[i].object)
  IN IF object_info = {} \/ (~found /\ labels = <<>>) THEN message
     ELSE [objects |-> NamesOf(message.objects), labels |-> labels]

Counted(seq) == SubSeq(seq, 1, Len(seq) % CountRange)

(* A message of the loader about the same objects, as recorders get it.    *)
LogMessage(message) ==
  [objects |-> Counted(NamesOf(message.objects)),
   labels  |-> Counted(LabelsOf(message.objects))]
-----------------------------------------------------------------------------
NameCall ==
  \E o \in Objects :
    /\ o.type = Session => o.handle \in live
    /\ \/ RemoveObjectName(o)
       \/ \E n \in Names : UpdateObjectName(o, n) \/ AddObjectName(o, n)

LabelCall ==
  \E s \in live :
    \/ \E label \in Labels : BeginLabelRegion(s, label) \/ InsertLabel(s, label)
    \/ EndLabelRegion(s)

SessionCall ==
  \/ \E s \in Handles \ live : CreateSession(s)
  \/ \E s \in live : DestroySession(s)

Next == NameCall \/ LabelCall \/ SessionCall

Spec == Init /\ [][Next]_vars

-----------------------------------------------------------------------------
(* Properties                                                              *)

TypeOK ==
  /\ object_info \subseteq ObjectInfos
  /\ DOMAIN session_labels \subseteq Handles
  /\ \A s \in DOMAIN session_labels : session_labels[s] \in Seq(SessionLabels)
  /\ live \subseteq Handles

(* Two entries of object_info_ are of different objects, so that the name  *)
(* found first is the only one, and removing an object's name removes it.  *)
OneNamePerObject ==
  \A a, b \in object_info : a.object = b.object => a = b

(* An individual label is nowhere but at the end of its list: every label  *)
(* below it is a region still open, which EndLabelRegion can close.        *)
IndividualOnlyOnTop ==
  \A s \in DOMAIN session_labels :
    \A i \in 1..Len(session_labels[s]) - 1 : ~session_labels[s][i].individual

(* What the inductive proof needs.                                         *)
DataInv == TypeOK /\ OneNamePerObject /\ IndividualOnlyOnTop

(* The depth of regions that BeginLabelRegion's bound allows.              *)
RegionsBounded ==
  \A s \in Handles : Len(RemoveIndividualLabel(LabelList(s))) <= MaxLabels

(* The view: regions are the labels below the individual one.              *)
LabelsIn(list) == [i \in 1..Len(list) |-> list[i].label]

OpenRegions == [s \in Handles |-> LabelsIn(RemoveIndividualLabel(LabelList(s)))]

IndividualLabel ==
  [s \in Handles |->
     IF HasIndividual(LabelList(s)) THEN LabelList(s)[Len(LabelList(s))].label
                                    ELSE NoLabel]

View == INSTANCE DebugUtilsView
  WITH name <- [o \in Objects |-> LookUpObjectName(o, NoName)],
       regions <- OpenRegions, individual <- IndividualLabel,
       Sessions <- Handles

(* The flagged lists and the entries of names behave as the view says.     *)
ImplementsView == View!Spec

(* A message about a session shows its individual label, then its regions  *)
(* from the innermost out.                                                 *)
MessagesShowStack ==
  \A s \in Handles :
    LogMessage([objects |-> <<[object |-> [handle |-> s, type |-> Session],
                               name |-> NoName]>>,
                labels |-> <<>>]).labels = View!Shown(s)

(* Whether the application submits a message or the loader logs it,        *)
(* messengers are told the same names and labels: WrapCallbackData agrees  *)
(* with LogMessage, but for the sender's labels where the loader has none. *)
SameForSubmitted(m) ==
  LET submitted == WrapCallbackData(m)
      logged == LogMessage(m)
  IN /\ submitted.objects = logged.objects
     /\ \/ submitted.labels = logged.labels
        \/ logged.labels = <<>> /\ submitted.labels = m.labels

(* Any message is completed alike on both routes, as long as some object   *)
(* or other has a name.                                                    *)
SubmittedLikeLoggedIfNamed ==
  object_info # {} => \A m \in Messages : SameForSubmitted(m)

(* The same with no proviso: what DebugUtilsData keeps is all that is      *)
(* "required to fully augment XR_EXT_debug_utils-related calls"            *)
(* (object_info.h:180), so labels are shown with or without names.         *)
SubmittedLikeLogged == \A m \in Messages : SameForSubmitted(m)

(* The labels of a session are removed when it is destroyed (the comment   *)
(* on DeleteSessionLabels, object_info.h:202): a session newly created has *)
(* none, even if its handle has been used before.                          *)
NewSessionUnlabelled ==
  [][\A s \in live' \ live : LookUpSessionLabels(s)' = <<>>]_vars
=============================================================================
