------------------------- MODULE MCMasterLeaseManager -------------------------
(* Instances of MasterLeaseManager for TLC. *)
EXTENDS MasterLeaseManager, TLC

\* Handler tasks are interchangeable.
TaskSymmetry == Permutations(Task)
=============================================================================
