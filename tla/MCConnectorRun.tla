--------------------------- MODULE MCConnectorRun ---------------------------
(* Small instances of ConnectorRun for TLC. *)
EXTENDS ConnectorRun, TLC

Symmetric == Permutations(Sync) \cup Permutations(Job)
=============================================================================
