----------------------------- MODULE MCChannels -----------------------------
(***************************************************************************)
(* Instances of Channels for TLC: #A, which has two keys, #a and #A, when  *)
(* someone is on it, #b, and #a alone.                                     *)
(***************************************************************************)
EXTENDS Channels, TLC

CONSTANTS p1, p2, p3, g1, g2, g3, u1, u2

TwoChannels == {<<35, 65>>, <<35, 98>>}
OneName == {<<35, 97>>}

Symmetry == Permutations({p1, p2, p3}) \cup Permutations({g1, g2, g3}) \cup Permutations({u1, u2})

=============================================================================
