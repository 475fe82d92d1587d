---------------------------- MODULE MCLoaderCore ----------------------------
(* Instances of LoaderCore for TLC.  Threads and handles are interchangeable *)
(* in every formula of the safety runs, which use the symmetry below.        *)
EXTENDS LoaderCore, TLC

Symmetry == Permutations(Threads) \cup Permutations(Handles)
=============================================================================
