--------------------------- MODULE MCResourceLeases ---------------------------
(***************************************************************************)
(* Instances of ResourceLeases: two processes under one node id or each    *)
(* under its own, and the limits of two sources or of a lane.              *)
(***************************************************************************)
EXTENDS ResourceLeases, TLC

Symmetry == Permutations(Procs) \cup Permutations(Requests)

OneNode == [p \in Procs |-> "node"]

OwnNodes == [p \in Procs |-> p]

SourceOverflow == [s \in {"sa", "sb"} |-> "ovf"]

NoOverflow == <<>>

Limits(scopes, cap, burst) ==
    [scopes |-> scopes, cap |-> [s \in Scopes |-> cap], burst |-> [s \in Scopes |-> burst]]

SourcePlans == {Limits({s}, 1, 2) : s \in {"sa", "sb"}}

LanePlans == {Limits({"lane"}, 2, 2)}
=============================================================================
