--------------------------- MODULE MCMessengerLog ----------------------------
(* MessengerLog for TLC.                                                   *)
EXTENDS MessengerLog, TLC

MCSeverities == {"error", "verbose"}

(* A messenger for everything but performance, and one for errors found by *)
(* validation only.                                                        *)
MCRequests ==
  {[severities |-> MCSeverities, types |-> {"general", "validation", "conformance"}],
   [severities |-> {"error"}, types |-> {"validation"}]}

MCLogged ==
  {[severity |-> "error", types |-> {"specification"}, about |-> TRUE],
   [severity |-> "verbose", types |-> {"general"}, about |-> FALSE]}

MCSubmitted ==
  {[severity |-> "error", types |-> types, about |-> TRUE] :
     types \in {{"conformance"}, {"general"}, {"general", "validation"}}}

Symmetry == Permutations(Threads) \cup Permutations(Messengers)
=============================================================================
