---------------------------- MODULE MCDsHashmap ----------------------------
(***************************************************************************)
(* The instance of DsHashmap for TLC: a table of one bucket, two keys      *)
(* that the second growth tells apart.                                    *)
(***************************************************************************)
EXTENDS DsHashmap, TLC

CONSTANTS t1, t2, k0, k1, v1, v2

MCThreads == {t1, t2}
MCKeys == {k0, k1}
MCHash == k0 :> 0 @@ k1 :> 2
MCValues == {v1, v2}
MCSymmetry == Permutations(MCThreads) \cup Permutations(MCValues)
=============================================================================
