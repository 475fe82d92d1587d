-------------------------- MODULE MCDebugUtilsData ---------------------------
(* DebugUtilsData for TLC: messages about up to two objects, named or not  *)
(* by their sender, with and without labels of his own.                    *)
EXTENDS DebugUtilsData, TLC

CONSTANTS given, sent

MCMessages ==
  [objects : {<<>>} \cup {<<a>> : a \in SentObjects} \cup (SentObjects \X SentObjects),
   labels : {<<>>, <<sent>>}]

Symmetry == Permutations(Labels) \cup Permutations(Names) \cup Permutations(Handles)
=============================================================================
