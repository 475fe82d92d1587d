------------------------ MODULE DebugUtilsDataProofs -------------------------
(***************************************************************************)
(* Names and labels, for any handles, names, labels and depth: the lists   *)
(* stay well formed and implement DebugUtilsView, and messages show what   *)
(* they hold, whichever routine completes them.                            *)
(***************************************************************************)
EXTENDS DebugUtilsData, SequenceLemmas

(* A list with no individual label but on top, and one with none at all.   *)
Proper(list) ==
  /\ list \in Seq(SessionLabels)
  /\ \A i \in 1..Len(list) - 1 : ~list[i].individual

OnlyRegions(list) ==
  /\ list \in Seq(SessionLabels)
  /\ \A i \in 1..Len(list) : ~list[i].individual

-----------------------------------------------------------------------------
(* Lists                                                                   *)

(* The labels of a list, themselves a sequence.                            *)
LEMMA LabelsInType ==
  ASSUME NEW list \in Seq(SessionLabels)
  PROVE  LabelsIn(list) \in Seq(Labels) /\ Len(LabelsIn(list)) = Len(list)
<1>1. /\ Len(list) \in Nat
      /\ \A i \in 1..Len(list) : list[i] \in SessionLabels
  BY LenProperties, ElementOfSeq
<1>2. LabelsIn(list) \in [1..Len(list) -> Labels]
  BY <1>1 DEF LabelsIn, SessionLabels
<1>3. LabelsIn(list) \in Seq(Labels)
  BY <1>1, <1>2, SeqDef
<1> QED BY <1>1, <1>2, <1>3, LenProperties

(* RemoveIndividualLabel leaves the open regions.                          *)
LEMMA RemoveLeavesRegions ==
  ASSUME NEW list, Proper(list)
  PROVE  OnlyRegions(RemoveIndividualLabel(list))
<1>1. CASE HasIndividual(list)
  <2>1. list \in Seq(SessionLabels) /\ Len(list) \in Nat \ {0}
    BY <1>1, EmptySeq DEF Proper, HasIndividual
  <2>2. RemoveIndividualLabel(list) = SubSeq(list, 1, Len(list) - 1)
    BY <1>1 DEF RemoveIndividualLabel
  <2> QED BY <2>1, <2>2, SubSeqProperties, ElementOfSeq DEF Proper, OnlyRegions
<1>2. CASE ~HasIndividual(list)
  BY <1>2 DEF Proper, OnlyRegions, RemoveIndividualLabel, HasIndividual
<1> QED BY <1>1, <1>2

(* It does nothing to a list of regions.                                   *)
LEMMA RegionsStay ==
  ASSUME NEW list, OnlyRegions(list)
  PROVE  /\ Proper(list)
         /\ ~HasIndividual(list)
         /\ RemoveIndividualLabel(list) = list
BY DEF OnlyRegions, Proper, HasIndividual, RemoveIndividualLabel

(* A label appended to a list of regions.                                  *)
LEMMA AppendLabel ==
  ASSUME NEW list, OnlyRegions(list), NEW label \in Labels, NEW b \in BOOLEAN
  PROVE  LET new == Append(list, [label |-> label, individual |-> b]) IN
         /\ Proper(new)
         /\ HasIndividual(new) <=> b
         /\ new[Len(new)].label = label
         /\ b => RemoveIndividualLabel(new) = list
         /\ ~b => OnlyRegions(new)
         /\ LabelsIn(new) = Append(LabelsIn(list), label)
<1> DEFINE x == [label |-> label, individual |-> b]
           new == Append(list, x)
<1>1. /\ x \in SessionLabels
      /\ x.label = label
      /\ x.individual = b
  BY DEF SessionLabels
<1> HIDE DEF x
<1>2. /\ new \in Seq(SessionLabels)
      /\ Len(new) = Len(list) + 1
      /\ new[Len(new)] = x
      /\ \A i \in 1..Len(list) : new[i] = list[i]
  BY <1>1 DEF OnlyRegions
<1>3. Proper(new)
  BY <1>2 DEF Proper, OnlyRegions
<1>4. HasIndividual(new) <=> b
  <2>1. new # <<>>
    BY <1>2 DEF OnlyRegions
  <2>2. new[Len(new)].individual = b
    BY <1>1, <1>2
  <2> HIDE DEF new
  <2> QED BY <2>1, <2>2, Zenon DEF HasIndividual
<1>5. ASSUME b PROVE RemoveIndividualLabel(new) = list
  <2>1. RemoveIndividualLabel(new) = SubSeq(new, 1, Len(list))
    BY <1>2, <1>4, <1>5 DEF RemoveIndividualLabel, OnlyRegions
  <2>2. /\ list \in Seq(SessionLabels)
        /\ SubSeq(new, 1, Len(list)) \in Seq(SessionLabels)
        /\ Len(SubSeq(new, 1, Len(list))) = Len(list)
        /\ \A i \in 1..Len(list) : SubSeq(new, 1, Len(list))[i] = list[i]
    BY <1>2 DEF OnlyRegions
  <2> QED BY <2>1, <2>2
<1>6. ASSUME ~b PROVE OnlyRegions(new)
  BY <1>1, <1>2, <1>6 DEF OnlyRegions
<1>7. LabelsIn(new) = Append(LabelsIn(list), label)
  <2>1. LabelsIn(list) \in Seq(Labels) /\ Len(LabelsIn(list)) = Len(list)
    BY LabelsInType DEF OnlyRegions
  <2>2. LabelsIn(new) \in Seq(Labels) /\ Len(LabelsIn(new)) = Len(list) + 1
    BY <1>2, LabelsInType
  <2>3. ASSUME NEW i \in 1..Len(list) + 1
        PROVE  LabelsIn(new)[i] = Append(LabelsIn(list), label)[i]
    BY <1>1, <1>2, <2>1, <2>3 DEF LabelsIn, OnlyRegions
  <2> QED BY <2>1, <2>2, <2>3
<1> QED BY <1>1, <1>2, <1>3, <1>4, <1>5, <1>6, <1>7 DEF x

(* The innermost region closed.                                            *)
LEMMA CloseRegion ==
  ASSUME NEW list, OnlyRegions(list)
  PROVE  LET new == SubSeq(list, 1, Len(list) - 1) IN
         /\ OnlyRegions(new)
         /\ LabelsIn(new) = SubSeq(LabelsIn(list), 1, Len(LabelsIn(list)) - 1)
<1> DEFINE new == SubSeq(list, 1, Len(list) - 1)
<1>1. OnlyRegions(new)
  BY DEF OnlyRegions
<1>2. LabelsIn(list) \in Seq(Labels) /\ Len(LabelsIn(list)) = Len(list)
  BY LabelsInType DEF OnlyRegions
<1>3. CASE list = <<>>
  BY <1>1, <1>2, <1>3 DEF LabelsIn, OnlyRegions
<1>4. CASE list # <<>>
  <2>1. list \in Seq(SessionLabels) /\ Len(list) \in Nat \ {0}
    BY <1>4, EmptySeq DEF OnlyRegions
  <2> DEFINE n == Len(list) - 1
  <2>2. n \in Nat /\ \A i \in 1..n : list[i] \in SessionLabels
    BY <2>1, ElementOfSeq
  <2>3. /\ Len(SubSeq(list, 1, n)) = IF 1 <= n THEN n - 1 + 1 ELSE 0
        /\ \A i \in 1..n - 1 + 1 : SubSeq(list, 1, n)[i] = list[1 + i - 1]
    <3> HIDE DEF n
    <3> QED BY <2>2, SubSeqProperties
  <2>4. Len(SubSeq(list, 1, n)) = n /\ \A i \in 1..n : SubSeq(list, 1, n)[i] = list[i]
    <3> HIDE DEF n
    <3> QED BY <2>2, <2>3
  <2>5. /\ Len(list) \in Nat \ {0}
        /\ Len(new) = Len(list) - 1
        /\ \A i \in 1..Len(list) - 1 : new[i] = list[i]
    BY <2>1, <2>4
  <2>6. LabelsIn(new) \in Seq(Labels) /\ Len(LabelsIn(new)) = Len(list) - 1
    BY <1>1, <2>5, LabelsInType DEF OnlyRegions
  <2>7. /\ SubSeq(LabelsIn(list), 1, Len(list) - 1) \in Seq(Labels)
        /\ Len(SubSeq(LabelsIn(list), 1, Len(list) - 1)) = Len(list) - 1
        /\ \A i \in 1..Len(list) - 1 :
             SubSeq(LabelsIn(list), 1, Len(list) - 1)[i] = LabelsIn(list)[i]
    BY <1>2, <2>5
  <2>8. \A i \in 1..Len(list) - 1 : LabelsIn(new)[i] = LabelsIn(list)[i]
    BY <2>5 DEF LabelsIn
  <2> QED BY <1>1, <1>2, <2>5, <2>6, <2>7, <2>8, SeqEqual
<1> QED BY <1>1, <1>3, <1>4
-----------------------------------------------------------------------------
(* Lists well formed                                                       *)

(* In the terms of the lists' lemmas, the invariant on lists.              *)
LEMMA ListsAreProper ==
  ASSUME TypeOK, IndividualOnlyOnTop, NEW s
  PROVE  Proper(LabelList(s))
BY EmptySeq DEF TypeOK, IndividualOnlyOnTop, Proper, LabelList

(* A proper list put in the place of another keeps the invariant.          *)
LEMMA ProperListsKept ==
  ASSUME DataInv, NEW s \in Handles, NEW list, Proper(list), SetLabelList(s, list)
  PROVE  DataInv'
<1>1. /\ DOMAIN session_labels' = DOMAIN session_labels \cup {s}
      /\ \A t \in DOMAIN session_labels' :
           session_labels'[t] = IF t = s THEN list ELSE session_labels[t]
      /\ UNCHANGED <<object_info, live>>
  BY DEF SetLabelList
<1>2. TypeOK'
  BY <1>1 DEF DataInv, TypeOK, Proper
<1>3. OneNamePerObject'
  BY <1>1 DEF DataInv, OneNamePerObject
<1>4. IndividualOnlyOnTop'
  BY <1>1 DEF DataInv, IndividualOnlyOnTop, Proper
<1> QED BY <1>2, <1>3, <1>4 DEF DataInv

LEMMA InvInit == Init => DataInv
BY DEF Init, DataInv, TypeOK, OneNamePerObject, IndividualOnlyOnTop

(* Names are stored once: an update keeps the entry, and an entry is added *)
(* only where there is none.                                               *)
LEMMA InvNames ==
  ASSUME DataInv, NameCall
  PROVE  DataInv'
<1>1. PICK o \in Objects :
        \/ RemoveObjectName(o)
        \/ \E n \in Names : UpdateObjectName(o, n) \/ AddObjectName(o, n)
  BY DEF NameCall
<1>2. ASSUME UNCHANGED <<session_labels, live>>,
             object_info' \subseteq ObjectInfos, OneNamePerObject'
      PROVE  DataInv'
  BY <1>2 DEF DataInv, TypeOK, IndividualOnlyOnTop
<1>3. CASE RemoveObjectName(o)
  BY <1>2, <1>3 DEF RemoveObjectName, DataInv, TypeOK, OneNamePerObject
<1>4. ASSUME NEW n \in Names, UpdateObjectName(o, n)
      PROVE  DataInv'
  <2>1. /\ object_info \subseteq ObjectInfos
        /\ UNCHANGED <<session_labels, live>>
        /\ \A new \in object_info' : \E old \in object_info :
             new = IF old.object = o THEN [old EXCEPT !.name = n] ELSE old
    BY <1>4 DEF UpdateObjectName, DataInv, TypeOK
  <2>2. \A old \in object_info :
          /\ [old EXCEPT !.name = n] \in ObjectInfos
          /\ [old EXCEPT !.name = n].object = old.object
    BY <2>1 DEF ObjectInfos
  <2>3. object_info' \subseteq ObjectInfos
    BY <2>1, <2>2
  <2>4. ASSUME NEW a \in object_info', NEW b \in object_info', a.object = b.object
        PROVE  a = b
    <3>1. PICK i \in object_info : a = IF i.object = o THEN [i EXCEPT !.name = n] ELSE i
      BY <2>1
    <3>2. PICK j \in object_info : b = IF j.object = o THEN [j EXCEPT !.name = n] ELSE j
      BY <2>1
    <3>3. a.object = i.object /\ b.object = j.object
      BY <2>2, <3>1, <3>2
    <3>4. i = j
      BY <2>4, <3>3 DEF DataInv, OneNamePerObject
    <3> QED BY <3>1, <3>2, <3>4
  <2> QED BY <1>2, <2>1, <2>3, <2>4 DEF OneNamePerObject
<1>5. ASSUME NEW n \in Names, AddObjectName(o, n)
      PROVE  DataInv'
  <2>1. [object |-> o, name |-> n] \in ObjectInfos
    BY DEF ObjectInfos
  <2> QED BY <1>2, <1>5, <2>1 DEF AddObjectName, Known, DataInv, TypeOK, OneNamePerObject
<1> QED BY <1>1, <1>3, <1>4, <1>5

LEMMA InvLabels ==
  ASSUME DataInv, LabelCall
  PROVE  DataInv'
<1>1. PICK s \in live :
        \/ \E label \in Labels : BeginLabelRegion(s, label) \/ InsertLabel(s, label)
        \/ EndLabelRegion(s)
  BY DEF LabelCall
<1> DEFINE list == RemoveIndividualLabel(LabelList(s))
<1>2. s \in Handles /\ OnlyRegions(list)
  BY RemoveLeavesRegions, ListsAreProper DEF DataInv, TypeOK
<1>3. ASSUME NEW label \in Labels, BeginLabelRegion(s, label)
      PROVE  DataInv'
  <2>1. Proper(Append(list, [label |-> label, individual |-> FALSE]))
    BY <1>2, AppendLabel
  <2> QED BY <1>2, <1>3, <2>1, ProperListsKept DEF BeginLabelRegion
<1>4. ASSUME NEW label \in Labels, InsertLabel(s, label)
      PROVE  DataInv'
  <2>1. Proper(Append(list, [label |-> label, individual |-> TRUE]))
    BY <1>2, AppendLabel
  <2> QED BY <1>2, <1>4, <2>1, ProperListsKept DEF InsertLabel
<1>5. CASE EndLabelRegion(s)
  <2>1. Proper(SubSeq(list, 1, Len(list) - 1))
    BY <1>2, CloseRegion, RegionsStay
  <2> QED BY <1>2, <1>5, <2>1, ProperListsKept DEF EndLabelRegion
<1> QED BY <1>1, <1>3, <1>4, <1>5

LEMMA InvNext == DataInv /\ [Next]_vars => DataInv'
<1> SUFFICES ASSUME DataInv, [Next]_vars PROVE DataInv'
  OBVIOUS
<1>1. CASE NameCall
  BY <1>1, InvNames
<1>2. CASE LabelCall
  BY <1>2, InvLabels
<1>3. CASE SessionCall
  BY <1>3 DEF SessionCall, CreateSession, DestroySession, DataInv, TypeOK,
              OneNamePerObject, IndividualOnlyOnTop
<1>4. CASE UNCHANGED vars
  BY <1>4 DEF vars, DataInv, TypeOK, OneNamePerObject, IndividualOnlyOnTop
<1> QED BY <1>1, <1>2, <1>3, <1>4 DEF Next

(* The lists of names and labels stay well formed over any sequence of     *)
(* calls: entries and labels have their types, each object has one entry,  *)
(* and individual labels are on top only.                                  *)
THEOREM DataInvariant == Spec => []DataInv
BY InvInit, InvNext, PTL DEF Spec

(* ObjectInfoCollection never stores two names of one object.              *)
THEOREM NamesAreUnique == Spec => []OneNamePerObject
<1>1. DataInv => OneNamePerObject
  BY DEF DataInv
<1> QED BY <1>1, DataInvariant, PTL

(* RemoveIndividualLabel, which looks at the last label only, is enough to *)
(* keep individual labels from being buried under others.                  *)
THEOREM IndividualLabelsOnTop == Spec => []IndividualOnlyOnTop
<1>1. DataInv => IndividualOnlyOnTop
  BY DEF DataInv
<1> QED BY <1>1, DataInvariant, PTL

-----------------------------------------------------------------------------
(* The view implemented                                                    *)

(* The name of each object, as the view has it.                            *)
ViewName == [o \in Objects |-> LookUpObjectName(o, NoName)]

(* The entry CHOOSE finds in a set with one entry per object.              *)
LEMMA TheEntry ==
  ASSUME NEW S, NEW entry \in S,
         \A other \in S : other.object = entry.object => other = entry
  PROVE  (CHOOSE info \in S : info.object = entry.object) = entry
<1>1. \E info \in S : info.object = entry.object
  OBVIOUS
<1> QED BY <1>1

(* An object whose entries a call leaves alone keeps its name.             *)
LEMMA OtherNamesKept ==
  ASSUME OneNamePerObject, OneNamePerObject', NEW o, NEW given,
         \A i \in object_info : i.object = o => i \in object_info',
         \A i \in object_info' : i.object = o => i \in object_info
  PROVE  LookUpObjectName(o, given)' = LookUpObjectName(o, given)
<1>1. CASE Known(o)
  <2>1. PICK i \in object_info : i.object = o
    BY <1>1 DEF Known
  <2>2. i \in object_info'
    BY <2>1
  <2>3. (CHOOSE info \in object_info : info.object = o) = i
    BY <2>1, TheEntry DEF OneNamePerObject
  <2>4. (CHOOSE info \in object_info' : info.object = o) = i
    BY <2>1, <2>2, TheEntry DEF OneNamePerObject
  <2>5. Known(o) /\ Known(o)'
    BY <2>1, <2>2 DEF Known
  <2>6. LookUpObjectName(o, given) = i.name
    BY <2>3, <2>5, Zenon DEF LookUpObjectName
  <2>7. LookUpObjectName(o, given)' = i.name
    BY <2>4, <2>5, Zenon DEF LookUpObjectName
  <2> QED BY <2>6, <2>7
<1>2. CASE ~Known(o)
  BY <1>2 DEF Known, LookUpObjectName
<1> QED BY <1>1, <1>2

(* An entry stored gives its object its name.                              *)
LEMMA NewName ==
  ASSUME OneNamePerObject', NEW i \in object_info', NEW given
  PROVE  LookUpObjectName(i.object, given)' = i.name
<1>1. (CHOOSE info \in object_info' : info.object = i.object) = i
  BY TheEntry DEF OneNamePerObject
<1>2. Known(i.object)'
  BY DEF Known
<1> QED BY <1>1, <1>2 DEF LookUpObjectName

(* A call on the name of one object changes the view of that name only.    *)
LEMMA OneNameChanges ==
  ASSUME NEW o \in Objects, NEW n, UNCHANGED session_labels,
         LookUpObjectName(o, NoName)' = n,
         \A p \in Objects \ {o} :
           LookUpObjectName(p, NoName)' = LookUpObjectName(p, NoName)
  PROVE  View!SetName(o, n)
<1>1. ViewName' = [ViewName EXCEPT ![o] = n]
  BY DEF ViewName
<1>2. UNCHANGED <<OpenRegions, IndividualLabel>>
  BY DEF OpenRegions, IndividualLabel, LabelList
<1> QED BY <1>1, <1>2 DEF View!SetName, ViewName

LEMMA NamesStep ==
  ASSUME DataInv, DataInv', NameCall
  PROVE  View!Next
<1>1. PICK o \in Objects :
        \/ RemoveObjectName(o)
        \/ \E n \in Names : UpdateObjectName(o, n) \/ AddObjectName(o, n)
  BY DEF NameCall
<1> USE DEF DataInv
<1>2. CASE RemoveObjectName(o)
  <2>1. LookUpObjectName(o, NoName)' = NoName
    BY <1>2 DEF RemoveObjectName, LookUpObjectName, Known
  <2>2. ASSUME NEW p \in Objects \ {o}
        PROVE  LookUpObjectName(p, NoName)' = LookUpObjectName(p, NoName)
    BY <1>2, OtherNamesKept DEF RemoveObjectName
  <2>3. View!SetName(o, NoName)
    BY <1>2, <2>1, <2>2, OneNameChanges DEF RemoveObjectName
  <2> QED BY <2>3 DEF View!Next
<1>3. ASSUME NEW n \in Names, UpdateObjectName(o, n)
      PROVE  View!Next
  <2>1. PICK i \in object_info : i.object = o
    BY <1>3 DEF UpdateObjectName, Known
  <2>2. \A old \in object_info :
          (IF old.object = o THEN [old EXCEPT !.name = n] ELSE old) \in object_info'
    BY <1>3 DEF UpdateObjectName
  <2>3. \A new \in object_info' : \E old \in object_info :
          new = IF old.object = o THEN [old EXCEPT !.name = n] ELSE old
    BY <1>3 DEF UpdateObjectName
  <2>4. \A old \in object_info :
          /\ [old EXCEPT !.name = n].object = old.object
          /\ [old EXCEPT !.name = n].name = n
    BY DEF TypeOK, ObjectInfos
  <2>5. LookUpObjectName(o, NoName)' = n
    BY <2>1, <2>2, <2>4, NewName
  <2>6. ASSUME NEW p \in Objects \ {o}
        PROVE  LookUpObjectName(p, NoName)' = LookUpObjectName(p, NoName)
    <3>1. \A j \in object_info : j.object = p => j \in object_info'
      BY <2>2
    <3>2. \A j \in object_info' : j.object = p => j \in object_info
      BY <2>3, <2>4
    <3> QED BY <3>1, <3>2, OtherNamesKept
  <2>7. View!SetName(o, n)
    BY <1>3, <2>5, <2>6, OneNameChanges DEF UpdateObjectName
  <2> QED BY <2>7 DEF View!Next
<1>4. ASSUME NEW n \in Names, AddObjectName(o, n)
      PROVE  View!Next
  <2>1. [object |-> o, name |-> n] \in object_info'
    BY <1>4 DEF AddObjectName
  <2>2. LookUpObjectName([object |-> o, name |-> n].object, NoName)'
          = [object |-> o, name |-> n].name
    BY <2>1, NewName
  <2>3. LookUpObjectName(o, NoName)' = n
    BY <2>2
  <2>4. ASSUME NEW p \in Objects \ {o}
        PROVE  LookUpObjectName(p, NoName)' = LookUpObjectName(p, NoName)
    BY <1>4, OtherNamesKept DEF AddObjectName
  <2>5. View!SetName(o, n)
    BY <1>4, <2>3, <2>4, OneNameChanges DEF AddObjectName
  <2> QED BY <2>5 DEF View!Next
<1> QED BY <1>1, <1>2, <1>3, <1>4

(* What a new list of one session does to the view.                        *)
LEMMA OneListChanges ==
  ASSUME NEW s \in Handles, NEW list, SetLabelList(s, list)
  PROVE  /\ OpenRegions' =
              [OpenRegions EXCEPT ![s] = LabelsIn(RemoveIndividualLabel(list))]
         /\ IndividualLabel' =
              [IndividualLabel EXCEPT
                 ![s] = IF HasIndividual(list) THEN list[Len(list)].label ELSE NoLabel]
         /\ ViewName' = ViewName
<1>1. \A t \in Handles : LabelList(t)' = IF t = s THEN list ELSE LabelList(t)
  BY DEF SetLabelList, LabelList
<1>2. ViewName' = ViewName
  BY DEF SetLabelList, ViewName, LookUpObjectName, Known
<1> QED BY <1>1, <1>2 DEF OpenRegions, IndividualLabel

LEMMA LabelsStep ==
  ASSUME DataInv, LabelCall
  PROVE  View!Next
<1>1. PICK s \in live :
        \/ \E label \in Labels : BeginLabelRegion(s, label) \/ InsertLabel(s, label)
        \/ EndLabelRegion(s)
  BY DEF LabelCall
<1> DEFINE list == RemoveIndividualLabel(LabelList(s))
<1>2. s \in Handles /\ OnlyRegions(list)
  BY RemoveLeavesRegions, ListsAreProper DEF DataInv, TypeOK
<1>3. OpenRegions[s] = LabelsIn(list)
  BY <1>2 DEF OpenRegions
<1>4. ASSUME NEW label \in Labels, BeginLabelRegion(s, label)
      PROVE  View!Next
  <2> DEFINE new == Append(list, [label |-> label, individual |-> FALSE])
  <2>1. /\ ~HasIndividual(new)
        /\ RemoveIndividualLabel(new) = new
        /\ LabelsIn(new) = Append(LabelsIn(list), label)
    BY <1>2, AppendLabel, RegionsStay
  <2>2. SetLabelList(s, new)
    BY <1>4 DEF BeginLabelRegion
  <2> HIDE DEF new
  <2>3. View!Begin(s, label)
    BY <1>2, <1>3, <2>1, <2>2, OneListChanges DEF View!Begin, ViewName
  <2> QED BY <1>2, <2>3 DEF View!Next
<1>5. ASSUME NEW label \in Labels, InsertLabel(s, label)
      PROVE  View!Next
  <2> DEFINE new == Append(list, [label |-> label, individual |-> TRUE])
  <2>1. /\ HasIndividual(new)
        /\ new[Len(new)].label = label
        /\ RemoveIndividualLabel(new) = list
    BY <1>2, AppendLabel
  <2>2. SetLabelList(s, new)
    BY <1>5 DEF InsertLabel
  <2> HIDE DEF new, list
  <2>3. OpenRegions' = OpenRegions
    BY <1>2, <1>3, <2>1, <2>2, OneListChanges DEF OpenRegions
  <2>4. View!Insert(s, label)
    BY <1>2, <2>1, <2>2, <2>3, OneListChanges DEF View!Insert, ViewName
  <2> QED BY <1>2, <2>4 DEF View!Next
<1>6. CASE EndLabelRegion(s)
  <2> DEFINE new == SubSeq(list, 1, Len(list) - 1)
  <2>1. /\ ~HasIndividual(new)
        /\ RemoveIndividualLabel(new) = new
        /\ LabelsIn(new) = SubSeq(LabelsIn(list), 1, Len(LabelsIn(list)) - 1)
    BY <1>2, CloseRegion, RegionsStay
  <2>2. SetLabelList(s, new)
    BY <1>6 DEF EndLabelRegion
  <2> HIDE DEF new
  <2>3. View!End(s)
    BY <1>2, <1>3, <2>1, <2>2, OneListChanges DEF View!End, ViewName
  <2> QED BY <1>2, <2>3 DEF View!Next
<1> QED BY <1>1, <1>4, <1>5, <1>6

LEMMA ViewInit == Init => View!Init
<1> SUFFICES ASSUME Init PROVE View!Init
  OBVIOUS
<1>1. \A s \in Handles : LabelList(s) = <<>>
  BY DEF Init, LabelList
<1>2. ~HasIndividual(<<>>) /\ RemoveIndividualLabel(<<>>) = <<>> /\ LabelsIn(<<>>) = <<>>
  BY DEF HasIndividual, RemoveIndividualLabel, LabelsIn
<1>3. \A o \in Objects : LookUpObjectName(o, NoName) = NoName
  BY DEF Init, LookUpObjectName, Known
<1> QED BY <1>1, <1>2, <1>3 DEF View!Init, OpenRegions, IndividualLabel

LEMMA ViewStep ==
  DataInv /\ DataInv' /\ [Next]_vars => [View!Next]_(View!vars)
<1> SUFFICES ASSUME DataInv, DataInv', [Next]_vars
             PROVE  View!Next \/ UNCHANGED View!vars
  OBVIOUS
<1>1. CASE NameCall
  BY <1>1, NamesStep
<1>2. CASE LabelCall
  BY <1>2, LabelsStep
<1>3. CASE SessionCall \/ UNCHANGED vars
  <2>1. UNCHANGED <<object_info, session_labels>>
    BY <1>3 DEF SessionCall, CreateSession, DestroySession, vars
  <2> QED BY <2>1 DEF View!vars, OpenRegions, IndividualLabel, LabelList,
                       LookUpObjectName, Known
<1> QED BY <1>1, <1>2, <1>3 DEF Next

(* Whatever the application calls, the lists of flagged labels and the     *)
(* entries of names are, to it, stacks of regions each with at most one    *)
(* individual label on top, and the last name given to each object.        *)
THEOREM DataImplementsView == Spec => ImplementsView
<1>1. Spec => View!Init /\ [][View!Next]_(View!vars)
  BY ViewInit, ViewStep, DataInvariant, PTL DEF Spec
<1> QED BY <1>1 DEF ImplementsView, View!Spec

-----------------------------------------------------------------------------
(* Messages                                                                *)

(* The list of one session replaced by another that is not too deep.       *)
LEMMA ListBounded ==
  ASSUME RegionsBounded, NEW s \in Handles, NEW list, SetLabelList(s, list),
         Len(RemoveIndividualLabel(list)) <= MaxLabels
  PROVE  RegionsBounded'
<1>1. \A t \in Handles : LabelList(t)' = IF t = s THEN list ELSE LabelList(t)
  BY DEF SetLabelList, LabelList
<1> QED BY <1>1 DEF RegionsBounded

LEMMA BoundInit == Init => RegionsBounded
<1>1. Init => \A s \in Handles : LabelList(s) = <<>>
  BY DEF Init, LabelList
<1>2. RemoveIndividualLabel(<<>>) = <<>>
  BY DEF HasIndividual, RemoveIndividualLabel
<1>3. Len(<<>>) <= MaxLabels
  BY DebugUtilsAssumption
<1> QED BY <1>1, <1>2, <1>3 DEF RegionsBounded

(* Only BeginLabelRegion makes a list deeper, and individual labels do not *)
(* count.                                                                  *)
LEMMA BoundNext == DataInv /\ RegionsBounded /\ [Next]_vars => RegionsBounded'
<1> SUFFICES ASSUME DataInv, RegionsBounded, [Next]_vars
             PROVE  RegionsBounded'
  OBVIOUS
<1>1. ASSUME NEW s \in live, LabelCall,
             \/ \E label \in Labels : BeginLabelRegion(s, label) \/ InsertLabel(s, label)
             \/ EndLabelRegion(s)
      PROVE  RegionsBounded'
  <2> DEFINE list == RemoveIndividualLabel(LabelList(s))
  <2>1. s \in Handles /\ OnlyRegions(list) /\ Len(list) <= MaxLabels
    BY RemoveLeavesRegions, ListsAreProper DEF DataInv, TypeOK, RegionsBounded
  <2>2. Len(list) \in Nat /\ MaxLabels \in Nat /\ list \in Seq(SessionLabels)
    BY <2>1, DebugUtilsAssumption DEF OnlyRegions
  <2>3. ASSUME NEW label \in Labels, BeginLabelRegion(s, label)
        PROVE  RegionsBounded'
    <3> DEFINE new == Append(list, [label |-> label, individual |-> FALSE])
    <3>1. RemoveIndividualLabel(new) = new
      BY <2>1, AppendLabel, RegionsStay
    <3>2. SetLabelList(s, new) /\ Len(list) < MaxLabels
      BY <2>3 DEF BeginLabelRegion
    <3>3. Len(new) = Len(list) + 1
      BY <2>2, AppendProperties DEF SessionLabels
    <3> HIDE DEF new, list
    <3>4. Len(new) <= MaxLabels
      BY <2>2, <3>2, <3>3
    <3> QED BY <2>1, <3>1, <3>2, <3>4, ListBounded
  <2>4. ASSUME NEW label \in Labels, InsertLabel(s, label)
        PROVE  RegionsBounded'
    <3> DEFINE new == Append(list, [label |-> label, individual |-> TRUE])
    <3>1. RemoveIndividualLabel(new) = list
      BY <2>1, AppendLabel
    <3>2. SetLabelList(s, new)
      BY <2>4 DEF InsertLabel
    <3> HIDE DEF new, list
    <3> QED BY <2>1, <3>1, <3>2, ListBounded
  <2>5. CASE EndLabelRegion(s)
    <3> DEFINE new == SubSeq(list, 1, Len(list) - 1)
    <3>1. RemoveIndividualLabel(new) = new
      BY <2>1, CloseRegion, RegionsStay
    <3>2. SetLabelList(s, new)
      BY <2>5 DEF EndLabelRegion
    <3>3. Len(new) <= MaxLabels
      <4> HIDE DEF list
      <4> QED BY <2>1, <2>2
    <3> HIDE DEF new, list
    <3> QED BY <2>1, <3>1, <3>2, <3>3, ListBounded
  <2> QED BY <1>1, <2>3, <2>4, <2>5
<1>2. CASE LabelCall
  BY <1>1, <1>2 DEF LabelCall
<1>3. CASE NameCall \/ SessionCall \/ UNCHANGED vars
  <2>1. UNCHANGED session_labels
    BY <1>3 DEF NameCall, RemoveObjectName, UpdateObjectName, AddObjectName,
                SessionCall, CreateSession, DestroySession, vars
  <2> QED BY <2>1 DEF RegionsBounded, LabelList
<1> QED BY <1>2, <1>3 DEF Next

(* However often individual labels are inserted, no session's list is      *)
(* longer than its open regions and one label: InsertLabel replaces.       *)
THEOREM DepthBounded == Spec => []RegionsBounded
BY DataInvariant, BoundInit, BoundNext, PTL DEF Spec

(* What LookUpSessionLabels returns.                                       *)
LEMMA LookUpIs ==
  ASSUME DataInv, RegionsBounded, NEW s \in Handles
  PROVE  /\ LookUpSessionLabels(s) \in Seq(Labels)
         /\ Len(LookUpSessionLabels(s)) = Len(LabelList(s))
         /\ \A i \in 1..Len(LabelList(s)) :
              LookUpSessionLabels(s)[i] = LabelList(s)[Len(LabelList(s)) - i + 1].label
         /\ Len(LookUpSessionLabels(s)) <= MaxLabels + 1
<1> DEFINE list == LabelList(s)
           n == Len(list)
<1>1. Proper(list) /\ list \in Seq(SessionLabels) /\ n \in Nat
  BY ListsAreProper DEF DataInv, Proper
<1>2. \A i \in 1..n : n - i + 1 \in 1..n
  BY <1>1
<1>3. \A i \in 1..n : list[i].label \in Labels
  <2> HIDE DEF list
  <2>1. \A i \in 1..n : list[i] \in SessionLabels
    BY <1>1
  <2> QED BY <2>1 DEF SessionLabels
<1>4. DOMAIN Reverse(list) = 1..n /\ \A i \in 1..n : Reverse(list)[i] = list[n - i + 1]
  BY <1>1 DEF Reverse
<1>5. LookUpSessionLabels(s) = [i \in 1..n |-> list[n - i + 1].label]
  <2>1. LookUpSessionLabels(s)
          = [i \in DOMAIN Reverse(list) |-> Reverse(list)[i].label]
    BY DEF LookUpSessionLabels
  <2> HIDE DEF list, n
  <2> QED BY <1>4, <2>1
<1>6. n <= MaxLabels + 1
  <2>1. Len(RemoveIndividualLabel(list)) <= MaxLabels /\ MaxLabels \in Nat
    BY DebugUtilsAssumption DEF RegionsBounded
  <2>2. Len(RemoveIndividualLabel(list)) = n \/ Len(RemoveIndividualLabel(list)) = n - 1
    <3>1. HasIndividual(list) => n # 0
      BY <1>1, EmptySeq DEF HasIndividual
    <3> HIDE DEF list
    <3>2. Len(SubSeq(list, 1, n - 1)) = n - 1 \/ n = 0
      BY <1>1
    <3> QED BY <3>1, <3>2 DEF RemoveIndividualLabel
  <2> HIDE DEF list, n
  <2> QED BY <1>1, <2>1, <2>2
<1> HIDE DEF list, n
<1>7. [i \in 1..n |-> list[n - i + 1].label] \in [1..n -> Labels]
  BY <1>2, <1>3
<1>8. LookUpSessionLabels(s) \in Seq(Labels) /\ Len(LookUpSessionLabels(s)) = n
  BY <1>1, <1>5, <1>7
<1> QED BY <1>5, <1>6, <1>8 DEF n, list

(* Counts that fit their type lose nothing.                                *)
LEMMA CountedAll ==
  ASSUME NEW T, NEW seq \in Seq(T), Len(seq) < CountRange
  PROVE  Counted(seq) = seq
<1>1. \A a \in Nat, b \in Nat \ {0} : a < b => a % b = a
  OBVIOUS
<1>2. Len(seq) % CountRange = Len(seq)
  BY <1>1, DebugUtilsAssumption
<1>3. SubSeq(seq, 1, Len(seq)) = seq
  OBVIOUS
<1> QED BY <1>2, <1>3 DEF Counted

(* The labels of a message about one session.                              *)
LEMMA LabelsOfOne ==
  ASSUME DataInv, RegionsBounded, NEW s \in Handles, NEW name
  PROVE  LabelsOf(<<[object |-> [handle |-> s, type |-> Session], name |-> name]>>)
           = LookUpSessionLabels(s)
<1> DEFINE object == [object |-> [handle |-> s, type |-> Session], name |-> name]
<1>1. object.object.type = Session /\ object.object.handle = s
  OBVIOUS
<1> HIDE DEF object
<1>2. DOMAIN <<object>> = 1..1 /\ <<object>>[1] = object
  OBVIOUS
<1>3. LabelsOf(<<object>>) = FlattenSeq([i \in 1..1 |-> LookUpSessionLabels(s)])
  <2>1. \A i \in 1..1 : i = 1
    OBVIOUS
  <2>2. [i \in DOMAIN <<object>> |->
           IF <<object>>[i].object.type = Session
             THEN LookUpSessionLabels(<<object>>[i].object.handle) ELSE <<>>]
          = [i \in 1..1 |-> LookUpSessionLabels(s)]
    BY <1>1, <1>2, <2>1
  <2> QED BY <2>2 DEF LabelsOf
<1>4. [i \in 1..1 |-> LookUpSessionLabels(s)] = <<LookUpSessionLabels(s)>>
  OBVIOUS
<1>5. FlattenSeq(<<LookUpSessionLabels(s)>>) = LookUpSessionLabels(s)
  BY LookUpIs, FlattenOne
<1> QED BY <1>3, <1>4, <1>5 DEF object

(* A list in reverse order is its individual label, if it has one, and the *)
(* regions below it from the top.                                          *)
LEMMA LookUpShowsStack ==
  ASSUME DataInv, RegionsBounded, NEW s \in Handles
  PROVE  LookUpSessionLabels(s) = View!Shown(s)
<1> DEFINE list == LabelList(s)
           regions == LabelsIn(RemoveIndividualLabel(list))
           looked == LookUpSessionLabels(s)
           top == list[Len(list)].label
<1>1. /\ Proper(list) /\ list \in Seq(SessionLabels) /\ Len(list) \in Nat
      /\ \A i \in 1..Len(list) : list[i].label \in Labels
  <2>1. Proper(list) /\ list \in Seq(SessionLabels)
    BY ListsAreProper DEF DataInv, Proper
  <2> HIDE DEF list
  <2>2. \A i \in 1..Len(list) : list[i] \in SessionLabels
    BY <2>1
  <2> QED BY <2>1, <2>2 DEF SessionLabels
<1>2. /\ looked \in Seq(Labels) /\ Len(looked) = Len(list)
      /\ \A i \in 1..Len(list) : looked[i] = list[Len(list) - i + 1].label
  BY LookUpIs
<1>3. /\ OpenRegions[s] = regions
      /\ IndividualLabel[s] = IF HasIndividual(list) THEN top ELSE NoLabel
  BY DEF OpenRegions, IndividualLabel
<1>4. CASE HasIndividual(list)
  <2>1. Len(list) # 0 /\ RemoveIndividualLabel(list) = SubSeq(list, 1, Len(list) - 1)
    BY <1>1, <1>4, EmptySeq DEF HasIndividual, RemoveIndividualLabel
  <2> DEFINE n == Len(list) - 1
  <2>2. n \in Nat /\ Len(list) = n + 1
    BY <1>1, <2>1
  <2>3. Len(SubSeq(list, 1, n)) = n /\ \A i \in 1..n : SubSeq(list, 1, n)[i] = list[i]
    <3> HIDE DEF list, n
    <3> QED BY <1>1, <2>2
  <2>4. regions = [i \in 1..n |-> list[i].label]
    <3>1. regions = LabelsIn(SubSeq(list, 1, n))
      BY <2>1
    <3> HIDE DEF list, n, regions
    <3> QED BY <2>3, <3>1 DEF LabelsIn
  <2>5. top \in Labels /\ top # NoLabel
    <3>1. Len(list) \in 1..Len(list)
      BY <1>1, <2>1
    <3> HIDE DEF list
    <3> QED BY <1>1, <3>1, DebugUtilsAssumption
  <2>6. View!Shown(s) = <<top>> \o Reverse(regions)
    <3>1. IndividualLabel[s] = top
      BY <1>3, <1>4
    <3> HIDE DEF top, regions
    <3> QED BY <1>3, <2>5, <3>1 DEF View!Shown, View!Reverse, Reverse
  <2> HIDE DEF list, n, regions, looked, top
  <2>7. regions \in [1..n -> Labels]
    <3>1. \A i \in 1..n : i \in 1..Len(list)
      BY <2>2
    <3> QED BY <1>1, <2>4, <3>1
  <2>8. /\ Reverse(regions) \in Seq(Labels) /\ Len(Reverse(regions)) = n
        /\ \A i \in 1..n : Reverse(regions)[i] = list[n - i + 1].label
    <3>1. Len(regions) = n /\ \A i \in 1..n : n - i + 1 \in 1..n
      BY <2>2, <2>7
    <3>2. Reverse(regions) = [i \in 1..n |-> regions[n - i + 1]]
      BY <3>1 DEF Reverse
    <3>3. [i \in 1..n |-> regions[n - i + 1]] \in [1..n -> Labels]
      BY <2>7, <3>1
    <3>4. Reverse(regions) \in Seq(Labels) /\ Len(Reverse(regions)) = n
      BY <2>2, <3>2, <3>3
    <3>5. \A i \in 1..n : regions[i] = list[i].label
      BY <2>4
    <3> QED BY <3>1, <3>2, <3>4, <3>5
  <2> DEFINE shown == <<top>> \o Reverse(regions)
  <2>9. /\ shown \in Seq(Labels) /\ Len(shown) = n + 1
        /\ \A i \in 1..(n + 1) : shown[i] = IF i <= 1 THEN <<top>>[i] ELSE Reverse(regions)[i - 1]
    <3>1. <<top>> \in Seq(Labels) /\ Len(<<top>>) = 1
      BY <2>5
    <3>2. 1 + n = n + 1
      BY <2>2
    <3> QED BY <2>8, <3>1, <3>2, ConcatProperties
  <2> HIDE DEF shown
  <2>10. ASSUME NEW i \in 1..(n + 1)
         PROVE  looked[i] = shown[i]
    <3>1. CASE i = 1
      <4>1. looked[1] = top
        <5>1. Len(list) - 1 + 1 = Len(list) /\ 1 \in 1..Len(list)
          BY <2>2
        <5> QED BY <1>2, <5>1 DEF top
      <4> QED BY <2>9, <3>1, <4>1
    <3>2. CASE i # 1
      <4>1. /\ i - 1 \in 1..n /\ i \in 1..Len(list) /\ ~(i <= 1)
            /\ n - (i - 1) + 1 = Len(list) - i + 1
        BY <2>2, <3>2
      <4> QED BY <1>2, <2>8, <2>9, <4>1
    <3> QED BY <3>1, <3>2
  <2>11. looked = shown
    <3>1. Len(looked) = n + 1 /\ Len(shown) = n + 1
      BY <1>2, <2>2, <2>9
    <3> QED BY <1>2, <2>9, <2>10, <3>1, SeqEqual
  <2> QED BY <2>6, <2>11 DEF shown, looked
<1>5. CASE ~HasIndividual(list)
  <2>1. RemoveIndividualLabel(list) = list
    BY <1>5 DEF RemoveIndividualLabel
  <2>2. LabelsIn(list) \in Seq(Labels) /\ Len(LabelsIn(list)) = Len(list)
    BY <1>1, LabelsInType
  <2>3. View!Shown(s) = <<>> \o Reverse(LabelsIn(list))
    <3>1. IndividualLabel[s] = NoLabel /\ OpenRegions[s] = LabelsIn(list)
      BY <1>3, <1>5, <2>1
    <3> QED BY <3>1 DEF View!Shown, View!Reverse, Reverse
  <2> DEFINE n == Len(list)
             back == Reverse(LabelsIn(list))
  <2>4. back = [i \in 1..n |-> list[n - i + 1].label]
    <3>1. back = [i \in 1..n |-> LabelsIn(list)[n - i + 1]]
      BY <2>2 DEF Reverse
    <3>2. \A i \in 1..n : n - i + 1 \in 1..n
      BY <1>1
    <3>3. \A i \in 1..n : LabelsIn(list)[i] = list[i].label
      BY <1>1 DEF LabelsIn
    <3> HIDE DEF list, back
    <3> QED BY <3>1, <3>2, <3>3
  <2>5. looked = [i \in 1..n |-> list[n - i + 1].label]
    <3> HIDE DEF list, looked
    <3>1. looked = [i \in 1..n |-> looked[i]]
      BY <1>2
    <3> QED BY <1>2, <3>1
  <2>6. <<>> \o looked = looked
    BY <1>2, ConcatEmptySeq
  <2> HIDE DEF n, back, looked, list
  <2>7. looked = back
    BY <2>4, <2>5
  <2> QED BY <2>3, <2>6, <2>7 DEF back, looked, list
<1> QED BY <1>4, <1>5

LEMMA StackIsShown ==
  ASSUME MaxLabels + 1 < CountRange, DataInv, RegionsBounded
  PROVE  MessagesShowStack
<1> SUFFICES ASSUME NEW s \in Handles
             PROVE  LogMessage([objects |-> <<[object |-> [handle |-> s, type |-> Session],
                                               name |-> NoName]>>,
                                labels |-> <<>>]).labels = View!Shown(s)
  BY DEF MessagesShowStack
<1> DEFINE objects == <<[object |-> [handle |-> s, type |-> Session], name |-> NoName]>>
           looked == LookUpSessionLabels(s)
<1>1. LabelsOf(objects) = looked
  BY LabelsOfOne
<1>2. looked \in Seq(Labels) /\ Len(looked) <= MaxLabels + 1
  BY LookUpIs
<1>3. looked = View!Shown(s)
  BY LookUpShowsStack
<1> HIDE DEF objects, looked
<1>4. Len(looked) < CountRange
  BY <1>2, DebugUtilsAssumption
<1>5. Counted(looked) = looked
  BY <1>2, <1>4, CountedAll
<1>6. LogMessage([objects |-> objects, labels |-> <<>>]).labels = Counted(LabelsOf(objects))
  BY DEF LogMessage
<1> QED BY <1>1, <1>3, <1>5, <1>6 DEF objects

(* A message about a session shows its stack, innermost first, however     *)
(* regions and labels came and went, while its count of labels fits in the *)
(* eight bits LogMessage passes it in.                                     *)
THEOREM StackShown ==
  ASSUME MaxLabels + 1 < CountRange
  PROVE  Spec => []MessagesShowStack
<1>1. DataInv /\ RegionsBounded => MessagesShowStack
  BY StackIsShown
<1> QED BY <1>1, DataInvariant, DepthBounded, PTL

(* The proviso cannot be dropped: when the list of a session has as many   *)
(* labels as a count has values, a message about the session shows none.   *)
THEOREM CountWraps ==
  ASSUME DataInv, RegionsBounded, NEW s \in Handles, Len(LabelList(s)) = CountRange
  PROVE  LogMessage([objects |-> <<[object |-> [handle |-> s, type |-> Session],
                                     name |-> NoName]>>,
                      labels |-> <<>>]).labels = <<>>
<1> DEFINE objects == <<[object |-> [handle |-> s, type |-> Session], name |-> NoName]>>
           looked == LookUpSessionLabels(s)
<1>1. LabelsOf(objects) = looked
  BY LabelsOfOne
<1>2. looked \in Seq(Labels) /\ Len(looked) = CountRange
  BY LookUpIs
<1> HIDE DEF objects, looked
<1>3. CountRange % CountRange = 0
  BY DebugUtilsAssumption
<1>4. SubSeq(looked, 1, 0) = <<>>
  BY <1>2
<1>5. Counted(looked) = <<>>
  BY <1>2, <1>3, <1>4 DEF Counted
<1> QED BY <1>1, <1>5 DEF LogMessage, objects

(* The names of a message, as LogMessage gives them.                       *)
LEMMA NamesAre ==
  ASSUME DataInv, NEW objects \in Seq(SentObjects)
  PROVE  /\ NamesOf(objects) \in Seq([object : Objects, name : GivenNames \cup Names])
         /\ Len(NamesOf(objects)) = Len(objects)
         /\ (\A i \in DOMAIN objects : ~Known(objects[i].object)) => NamesOf(objects) = objects
<1> DEFINE T == [object : Objects, name : GivenNames \cup Names]
           n == Len(objects)
<1>1. /\ n \in Nat /\ DOMAIN objects = 1..n
      /\ \A i \in 1..n : objects[i] \in SentObjects
  OBVIOUS
<1>2. ASSUME NEW o, NEW g \in GivenNames
      PROVE  LookUpObjectName(o, g) \in GivenNames \cup Names
  <2>1. CASE Known(o)
    <3>1. \E info \in object_info : info.object = o
      BY <2>1 DEF Known
    <3> DEFINE entry == CHOOSE info \in object_info : info.object = o
    <3>2. entry \in object_info
      BY <3>1
    <3>3. entry.name \in Names
      BY <3>2 DEF DataInv, TypeOK, ObjectInfos
    <3> QED BY <2>1, <3>3 DEF LookUpObjectName
  <2>2. CASE ~Known(o)
    BY <2>2 DEF LookUpObjectName
  <2> QED BY <2>1, <2>2
<1>3. ASSUME NEW i \in 1..n
      PROVE  /\ [objects[i] EXCEPT !.name = LookUpObjectName(objects[i].object, @)] \in T
             /\ ~Known(objects[i].object) =>
                  [objects[i] EXCEPT !.name = LookUpObjectName(objects[i].object, @)] = objects[i]
  <2> DEFINE e == objects[i]
  <2>1. /\ e \in SentObjects /\ e.object \in Objects /\ e.name \in GivenNames
        /\ e = [object |-> e.object, name |-> e.name]
    <3>1. e \in SentObjects
      BY <1>1
    <3> HIDE DEF e
    <3> QED BY <3>1 DEF SentObjects
  <2> HIDE DEF e
  <2>2. [e EXCEPT !.name = LookUpObjectName(e.object, @)]
          = [object |-> e.object, name |-> LookUpObjectName(e.object, e.name)]
    BY <2>1
  <2>3. LookUpObjectName(e.object, e.name) \in GivenNames \cup Names
    BY <1>2, <2>1
  <2>4. [e EXCEPT !.name = LookUpObjectName(e.object, @)] \in T
    BY <2>1, <2>2, <2>3
  <2>5. ~Known(e.object) => [e EXCEPT !.name = LookUpObjectName(e.object, @)] = e
    <3>1. ~Known(e.object) => LookUpObjectName(e.object, e.name) = e.name
      BY DEF LookUpObjectName
    <3> QED BY <2>1, <2>2, <3>1
  <2> QED BY <2>4, <2>5 DEF e
<1>4. NamesOf(objects)
        = [i \in 1..n |-> [objects[i] EXCEPT !.name = LookUpObjectName(objects[i].object, @)]]
  BY <1>1 DEF NamesOf
<1> HIDE DEF T, n
<1>5. NamesOf(objects) \in [1..n -> T]
  BY <1>3, <1>4
<1>6. NamesOf(objects) \in Seq(T) /\ Len(NamesOf(objects)) = n
  BY <1>1, <1>5
<1>7. ASSUME \A i \in DOMAIN objects : ~Known(objects[i].object)
      PROVE  NamesOf(objects) = objects
  <2>1. objects = [i \in 1..n |-> objects[i]]
    BY <1>1
  <2> QED BY <1>1, <1>3, <1>4, <1>7, <2>1
<1> QED BY <1>6, <1>7 DEF T, n

(* The labels of a message fit in their count when each of its objects     *)
(* could bring those of a session.                                         *)
LEMMA LabelsAre ==
  ASSUME DataInv, RegionsBounded, NEW objects \in Seq(SentObjects)
  PROVE  /\ LabelsOf(objects) \in Seq(Labels)
         /\ Len(LabelsOf(objects)) <= Len(objects) * (MaxLabels + 1)
<1> DEFINE n == Len(objects)
           b == MaxLabels + 1
           seqs == [i \in 1..n |-> IF objects[i].object.type = Session
                                     THEN LookUpSessionLabels(objects[i].object.handle)
                                     ELSE <<>>]
<1>1. /\ n \in Nat /\ DOMAIN objects = 1..n /\ b \in Nat
      /\ \A i \in 1..n : objects[i] \in SentObjects
  BY DebugUtilsAssumption
<1>2. LabelsOf(objects) = FlattenSeq(seqs)
  BY <1>1 DEF LabelsOf
<1>3. ASSUME NEW i \in 1..n
      PROVE  seqs[i] \in Seq(Labels) /\ Len(seqs[i]) <= b
  <2>1. objects[i].object.handle \in Handles
    BY <1>1 DEF SentObjects, Objects
  <2>2. <<>> \in Seq(Labels) /\ Len(<<>>) <= b
    BY <1>1, EmptySeq
  <2>3. /\ LookUpSessionLabels(objects[i].object.handle) \in Seq(Labels)
        /\ Len(LookUpSessionLabels(objects[i].object.handle)) <= b
    BY <2>1, LookUpIs
  <2>4. seqs[i] = <<>> \/ seqs[i] = LookUpSessionLabels(objects[i].object.handle)
    OBVIOUS
  <2> HIDE DEF seqs, b
  <2> QED BY <2>2, <2>3, <2>4, Zenon
<1>4. seqs \in [1..n -> Seq(Labels)]
  BY <1>3
<1> HIDE DEF n, b, seqs
<1>5. FlattenSeq(seqs) \in Seq(Labels) /\ Len(FlattenSeq(seqs)) <= n * b
  BY <1>1, <1>3, <1>4, FlattenLength
<1> QED BY <1>2, <1>5 DEF n, b

LEMMA SubmittedIsLogged ==
  ASSUME DataInv, RegionsBounded, object_info # {}, NEW m \in Messages,
         Len(m.objects) * (MaxLabels + 1) < CountRange
  PROVE  SameForSubmitted(m)
<1> DEFINE names == NamesOf(m.objects)
           labels == LabelsOf(m.objects)
           T == [object : Objects, name : GivenNames \cup Names]
<1>1. m.objects \in Seq(SentObjects)
  BY DebugUtilsAssumption
<1>2. /\ names \in Seq(T) /\ Len(names) = Len(m.objects)
      /\ (\A i \in DOMAIN m.objects : ~Known(m.objects[i].object)) => names = m.objects
  BY <1>1, NamesAre
<1>3. labels \in Seq(Labels) /\ Len(labels) <= Len(m.objects) * (MaxLabels + 1)
  BY <1>1, LabelsAre
<1> HIDE DEF names, labels, T
<1>4. Len(names) < CountRange /\ Len(labels) < CountRange
  <2>1. \A x, y \in Nat : x <= x * (y + 1)
    OBVIOUS
  <2>2. /\ Len(m.objects) \in Nat /\ MaxLabels \in Nat /\ CountRange \in Nat
        /\ Len(labels) \in Nat /\ Len(m.objects) * (MaxLabels + 1) \in Nat
    <3>1. Len(m.objects) \in Nat /\ Len(labels) \in Nat
      BY <1>1, <1>3
    <3>2. MaxLabels \in Nat /\ CountRange \in Nat
      BY DebugUtilsAssumption
    <3>3. \A x, y \in Nat : x * (y + 1) \in Nat
      OBVIOUS
    <3> QED BY <3>1, <3>2, <3>3
  <2>3. Len(m.objects) <= Len(m.objects) * (MaxLabels + 1)
    BY <2>1, <2>2
  <2> DEFINE k == Len(m.objects) * (MaxLabels + 1)
  <2> HIDE DEF k
  <2>4. \A x, y, z \in Nat : x <= y /\ y < z => x < z
    OBVIOUS
  <2> QED BY <1>2, <1>3, <2>2, <2>3, <2>4
<1>5. Counted(names) = names /\ Counted(labels) = labels
  BY <1>2, <1>3, <1>4, CountedAll
<1>6. LogMessage(m) = [objects |-> names, labels |-> labels]
  BY <1>5 DEF LogMessage, names, labels
<1> DEFINE found == \E i \in DOMAIN m.objects : Known(m.objects[i].object)
<1>7. WrapCallbackData(m) = IF ~found /\ labels = <<>> THEN m
                            ELSE [objects |-> names, labels |-> labels]
  BY DEF WrapCallbackData, names, labels
<1>8. CASE ~found /\ labels = <<>>
  BY <1>2, <1>6, <1>7, <1>8 DEF SameForSubmitted
<1>9. CASE ~(~found /\ labels = <<>>)
  BY <1>6, <1>7, <1>9 DEF SameForSubmitted
<1> QED BY <1>8, <1>9

(* WrapCallbackData and LogMessage complete every message alike once some  *)
(* object has a name, as long as the objects of a message could not bring  *)
(* more labels than its eight-bit count tells.                             *)
THEOREM BothRoutesAgree ==
  ASSUME \A m \in Messages : Len(m.objects) * (MaxLabels + 1) < CountRange
  PROVE  Spec => []SubmittedLikeLoggedIfNamed
<1>1. DataInv /\ RegionsBounded => SubmittedLikeLoggedIfNamed
  BY SubmittedIsLogged DEF SubmittedLikeLoggedIfNamed
<1> QED BY <1>1, DataInvariant, DepthBounded, PTL
=============================================================================
