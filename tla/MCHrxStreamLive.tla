-------------------------- MODULE MCHrxStreamLive --------------------------
(***************************************************************************)
(* HrxStream for TLC's liveness check, with clients of a few moves.        *)
(*                                                                         *)
(* The action constraint takes no step away from the device or from a      *)
(* blocked call that returns, the steps fairness speaks of: it only makes  *)
(* the client stop calling, which it may do at any time.                   *)
(***************************************************************************)
EXTENDS HrxStream, FiniteSetsExt

CONSTANTS
    MaxMoves,   \* bound: calls that record or that move a timeline, over all streams
    Reserving   \* the streams whose values the client reserves

\* What the client has recorded, promised or is about to promise on stream s.
Moves(s) == recorded[s] + timepoint[s] + (IF call[s] = "alloc" THEN 1 ELSE 0)

Affordable ==
    /\ MapThenSumSet(Moves, Streams) <= MaxMoves
    /\ \A s \in Streams : reserved[s] # {} => s \in Reserving

ClientBudget == Affordable'

====
