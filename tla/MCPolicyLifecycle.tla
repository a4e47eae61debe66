--------------------------- MODULE MCPolicyLifecycle ---------------------------
(***************************************************************************)
(* Instances of PolicyLifecycle: two revisions, the first one configured.  *)
(***************************************************************************)
EXTENDS PolicyLifecycle, TLC

CONSTANTS n1, n2

Policy(rev, digest) == [rev |-> rev, digest |-> digest]

OnePerRevision == {Policy(r, "a") : r \in 1..2}

SameConfigured == [n \in Nodes |-> Policy(1, "a")]

Ask(kind, arg) == [kind |-> kind, arg |-> arg]

(* A policy is prepared, activated and rolled back; then back to it.       *)
Requests ==
    [o \in Ops |->
        CASE o = "o1" -> Ask("prepare", Policy(2, "a"))
          [] o = "o2" -> Ask("activate", NoPolicy)
          [] o = "o3" -> Ask("rollback", Policy(1, "a"))
          [] OTHER    -> Ask("rollback", Policy(2, "a"))]

Symmetry == Permutations(Nodes)
=============================================================================
