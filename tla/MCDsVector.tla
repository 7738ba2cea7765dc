----------------------------- MODULE MCDsVector -----------------------------
(***************************************************************************)
(* Instances of DsVector for TLC: vectors of pointers, which may be null,  *)
(* and vectors of deep copies.                                             *)
(***************************************************************************)
EXTENDS DsVector

CONSTANTS v1, v2

MCPointers == {v1, NULL}
MCCopies   == {v1, v2}
=============================================================================
