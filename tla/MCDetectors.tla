----------------------------- MODULE MCDetectors -----------------------------
EXTENDS Detectors, TLC

AllModes == {"standalone", "cluster"} \X {"novelty", "enumeration", "spray", "invalid", "concurrency", "token", "cost"}

(* Long enough for a key to leave the window, and for maintenance.         *)
ClockBound ==
    [m \in AllModes |->
        IF m[1] = "standalone" THEN (IF m[2] = "spray" THEN 6 ELSE 3)
        ELSE IF m[2] \in {"enumeration", "concurrency"} THEN 5 ELSE 6]

(* Two samples establish an average, so that the third can raise a signal; *)
(* three keys are more than the spray detector keeps.                      *)
ObservationBound ==
    [m \in AllModes |-> IF m[1] = "standalone" /\ m[2] \in {"enumeration", "spray", "token"} THEN 2 ELSE 3]

Symmetry == Permutations(Calls) \cup Permutations(Subjects) \cup Permutations(Nodes)
=============================================================================
