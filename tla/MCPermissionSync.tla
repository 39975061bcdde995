------------------------- MODULE MCPermissionSync --------------------------
(* Small instances of PermissionSync for TLC: one container and a document *)
(* for what needs two disturbances, two containers for a pass that is      *)
(* resumed in the middle of its enumeration.                               *)
EXTENDS PermissionSync, TLC

Symmetric == Permutations(Exec)
=============================================================================
