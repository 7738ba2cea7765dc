--------------------------- MODULE MCDsRingbuffer ---------------------------
(***************************************************************************)
(* The instance of DsRingbuffer for TLC: messages without bytes, of one    *)
(* byte and of three, in a ring of eight with sizes of two bytes.          *)
(***************************************************************************)
EXTENDS DsRingbuffer

MCSizes  == {0, 1, 3}
MCSpaces == {2, 4}      \* too small for the longest, and large enough
=============================================================================
