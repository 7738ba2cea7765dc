---------------------------- MODULE PowersOfTwo ----------------------------
(***************************************************************************)
(* The capacity that ds_vector and ds_ringbuffer allocate for the one they *)
(* are asked for, so that `& (capacity - 1)' is a remainder.               *)
(***************************************************************************)
EXTENDS Integers

RoundUpPowOfTwo(n) ==
    CHOOSE p \in {2 ^ k : k \in 0 .. n} : p >= n /\ (p = 1 \/ p \div 2 < n)
=============================================================================
