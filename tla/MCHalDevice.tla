---------------------------- MODULE MCHalDevice ----------------------------
(***************************************************************************)
(* The instance of HalDevice for TLC: two threads and one direction.       *)
(***************************************************************************)
EXTENDS HalDevice, TLC

CONSTANTS t1, t2, rx

MCThreads == {t1, t2}
MCOps == {rx}
MCUserOf == rx :> t1
=============================================================================
