------------------------------ MODULE MCPyGraph ------------------------------
(***************************************************************************)
(* A loading thread and a reading one, which also opens and closes.        *)
(***************************************************************************)
EXTENDS PyGraph, TLC

Symmetry ==
    Permutations(Addr) \cup Permutations(Object) \cup Permutations(Graph)
      \cup Permutations(Handle)
=============================================================================
