---------------------------- MODULE MCMasterRoutes ----------------------------
(* Small instances of MasterRoutes for TLC. *)
EXTENDS MasterRoutes, TLC

\* Nodes, keys, put ids and handlers are interchangeable.
Symmetry == Permutations(Node) \cup Permutations(Key) \cup Permutations(Put) \cup Permutations(Task)
=============================================================================
