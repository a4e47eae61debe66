---------------------------- MODULE PolicyRegister ----------------------------
(***************************************************************************)
(* What the policy lifecycle promises its users: there is one active       *)
(* policy.  It changes only to the one that was prepared, or back to one   *)
(* that was active before, and every change gets the next epoch.           *)
(***************************************************************************)
EXTENDS Naturals

CONSTANTS Policies, NoPolicy

VARIABLES
    epoch,      \* 0 until the first policy is installed
    active,
    candidate,
    past        \* the policies that have been active

vars == <<epoch, active, candidate, past>>

Init == epoch = 0 /\ active = NoPolicy /\ candidate = NoPolicy /\ past = {}

Becomes(p) == active' = p /\ past' = past \cup {p} /\ epoch' = epoch + 1 /\ candidate' = NoPolicy

Install(p) == epoch = 0 /\ Becomes(p)

Prepare(p) ==
    /\ epoch > 0 /\ candidate = NoPolicy
    /\ candidate' = p
    /\ UNCHANGED <<epoch, active, past>>

Activate == candidate # NoPolicy /\ Becomes(candidate)

Rollback(p) == p \in past \ {active} /\ Becomes(p)

Next ==
    \/ \E p \in Policies : Install(p) \/ Prepare(p) \/ Rollback(p)
    \/ Activate

Spec == Init /\ [][Next]_vars
=============================================================================
