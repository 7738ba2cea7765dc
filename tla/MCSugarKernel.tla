--------------------------- MODULE MCSugarKernel ---------------------------
(***************************************************************************)
(* Instances of SugarKernel for TLC: the idle thread, one thread of high   *)
(* and two of equal, lower priority.                                       *)
(***************************************************************************)
EXTENDS SugarKernel, TLC

CONSTANTS idle, hi, lo1, lo2

MCThreads == {idle, hi, lo1, lo2}
MCPrio == hi :> 1 @@ lo1 :> 2 @@ lo2 :> 2 @@ idle :> 255

\* A smaller system, for the liveness properties.
MCPair == {idle, hi, lo1}
MCPairPrio == hi :> 1 @@ lo1 :> 2 @@ idle :> 255

\* The two threads of equal priority, and the heap blocks, are alike.
MCSymmetry == Permutations({lo1, lo2}) \cup Permutations(Blocks)
=============================================================================
