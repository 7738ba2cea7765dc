----------------------------- MODULE MCRteTimer -----------------------------
(***************************************************************************)
(* Instances of RteTimer for TLC: timers that fire once or again and       *)
(* again, at once or later, and whose callbacks create, pause and delete.  *)
(***************************************************************************)
EXTENDS RteTimer, TLC

Config(reload, running, period, callback) ==
    [reload |-> reload, running |-> running, period |-> period, callback |-> callback]

MCConfigs == {
    Config(FALSE, TRUE, 0, "none"),     \* fires once, in the next poll
    Config(FALSE, FALSE, 1, "create"),  \* fires once after it is resumed
    Config(TRUE, TRUE, 0, "delete"),    \* called in every poll
    Config(TRUE, TRUE, 1, "none"),
    Config(TRUE, TRUE, 2, "pause") }

MCSymmetry == Permutations(Blocks)
=============================================================================
