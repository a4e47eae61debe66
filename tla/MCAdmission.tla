----------------------------- MODULE MCAdmission -----------------------------
(***************************************************************************)
(* Instances of Admission: the vectors of two networks and a variant of    *)
(* the first that matches it, two lanes at most, a lane that is            *)
(* established after two clean requests, and a rule for new lanes and one  *)
(* for abuse.                                                              *)
(***************************************************************************)
EXTENDS Admission, TLC

MCWeight == [asn |-> 35, net |-> 35, client |-> 50]

Home == [asn |-> "a", net |-> "x", client |-> "c"]

HomeSparse == [asn |-> "a", net |-> "x", client |-> "none"]

Away == [asn |-> "b", net |-> "y", client |-> "c"]

(* A sparse vector of the home network, which matches the home lane.       *)
SparseOnly == {HomeSparse}

Tag(v) == IF v.asn = "b" THEN 3 ELSE IF v.client = "c" THEN 1 ELSE 2

MCLimits == [maxActive |-> 2, maxProvisional |-> 1, idle |-> 1]

MCHysteresis == [suspect |-> 40, block |-> 45, clear |-> 20, observations |-> 1,
                 dwell |-> 1, autoBlock |-> TRUE]

MCLearning == [age |-> 1, requests |-> 2, days |-> 1, maxRisk |-> 10, allowNew |-> TRUE]

MCRules == [NEW_LANE |-> [score |-> 5, group |-> "novelty", family |-> "client", ttl |-> 2],
            ABUSE |-> [score |-> 40, group |-> "spray", family |-> "abuse", ttl |-> 1]]

(* The home lane, on probation and clearing; or the lane of another        *)
(* network, which fills the limit until retention removes it.              *)
ClearingOrFull ==
    LET Probation(v) == [NewLane(v, 1) EXCEPT !.state = "PROBATION", !.clean = 1,
                                              !.days = 1, !.lastCleanDay = 0]
    IN  {(1 :> [Probation(Home) EXCEPT !.status = "SUSPICIOUS", !.streak = 1,
                                       !.clearSince = 1, !.cleanSince = Zero]),
         (3 :> Probation(Away))}

MCFamilyCap == [client |-> 20, abuse |-> 40]

Symmetry == Permutations(Requests)
=============================================================================
