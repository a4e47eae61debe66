--------------------------- MODULE MCSignerRotation ---------------------------
EXTENDS SignerRotation, TLC

CONSTANTS n1, n2

Key(kid, mat) == [kid |-> kid, mat |-> mat]

TwoKeys == {Key(1, "a"), Key(2, "a")}

TwoMaterials == {Key(1, "a"), Key(2, "a"), Key(2, "b")}

First == Key(1, "a")

Symmetry == Permutations(Nodes)
=============================================================================
