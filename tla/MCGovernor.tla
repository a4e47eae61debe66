------------------------------ MODULE MCGovernor ------------------------------
(***************************************************************************)
(* Instances of Governor: a table of sources and a lane under a normal and *)
(* a constrained limit set, or the lane alone.                             *)
(***************************************************************************)
EXTENDS Governor, TLC

Symmetry == Permutations(Requests)

Scope(key, cap, burst, rate) ==
    [key |-> key, cap |-> cap, burst |-> <<burst>>, rate |-> <<rate>>]

SourcedKeys == {"sa", "sb", "ovf", "lane"}

Overflow == [k \in {"sa", "sb"} |-> "ovf"]

(* Two sources and a table of one, with refilled limits, and a lane, which *)
(* may be removed, under its normal or constrained set without refill or   *)
(* without a limit on tokens.                                              *)
SourcePlans ==
    {<<Scope(s, 1, 2, 1), lane>> :
        lane \in {Scope("lane", 1, 1, 0), Scope("lane", 2, 2, 0), Scope("lane", 2, 0, 0)},
        s \in {"sa", "sb"}}

OneLane == {"lane"}

NoOverflow == <<>>

(* Refilled limits on a lane that may be removed.                          *)
LanePlans == {<<Scope("lane", n, n, 2)>> : n \in {1, 2}}

Use(n) == <<n>>

One == {Use(1)}

ZeroOrTwo == {Use(0), Use(2)}
=============================================================================
