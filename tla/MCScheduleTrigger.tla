------------------------- MODULE MCScheduleTrigger -------------------------
(* Small instances of ScheduleTrigger for TLC. *)
EXTENDS ScheduleTrigger, TLC

Symmetric == Permutations(Exec)
=============================================================================
