---------------------------- MODULE MCPrefixIndex -----------------------------
(* Small instances of PrefixIndex for TLC. *)
EXTENDS PrefixIndex, TLC

\* Nodes, keys, put ids and handlers are interchangeable.
Symmetry == Permutations(Node) \cup Permutations(Key) \cup Permutations(Put) \cup Permutations(Task)
=============================================================================
