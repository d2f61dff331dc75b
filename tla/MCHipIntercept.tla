--------------------------- MODULE MCHipIntercept ---------------------------
(***************************************************************************)
(* HipIntercept for TLC: the threads are interchangeable in safety runs.   *)
(***************************************************************************)
EXTENDS HipIntercept, TLC

ThreadsAlike == Permutations(Threads)
=============================================================================
