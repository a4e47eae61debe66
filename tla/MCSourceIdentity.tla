--------------------------- MODULE MCSourceIdentity ---------------------------
(***************************************************************************)
(* Instances of SourceIdentity.                                            *)
(***************************************************************************)
EXTENDS SourceIdentity, TLC

Symmetry == Permutations(Nodes) \cup Permutations(RequestIds) \cup Permutations(Clients)

(* An address of a client, and a hop that is none.                         *)
Headers == {<<"malformed">>} \cup {<<c>> : c \in Clients}

(* No proxy, one, or two in a row.                                         *)
Chains == {<<>>} \cup {<<p>> : p \in Proxies} \cup Proxies \X Proxies
=============================================================================
