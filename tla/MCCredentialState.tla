-------------------------- MODULE MCCredentialState --------------------------
(* Model values for CredentialState: interchangeable requests.             *)
EXTENDS CredentialState, TLC

Symmetry == Permutations(Requests)
=============================================================================
