------------------------- MODULE MCPepperGenerations -------------------------
(* Model values for PepperGenerations: interchangeable nodes and requests. *)
EXTENDS PepperGenerations, TLC

Symmetry == Permutations(Nodes) \cup Permutations(Requests)
=============================================================================
