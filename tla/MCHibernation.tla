---------------------------- MODULE MCHibernation ----------------------------
(* Small instances of Hibernation for TLC.                                 *)
EXTENDS Hibernation

(* Every sort of fault.  Replicas are interchangeable and one fault occurs, *)
(* so it may as well be at the first of them.                              *)
AnyFault == FaultKind \X {CHOOSE p \in Replica : TRUE, Nobody}
=============================================================================
