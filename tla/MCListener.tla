----------------------------- MODULE MCListener -----------------------------
(***************************************************************************)
(* An instance of Listener for TLC.                                        *)
(***************************************************************************)
EXTENDS Listener, TLC

CONSTANTS p1, p2, l1, l2, l3

Symmetry == Permutations({p1, p2}) \cup Permutations({l1, l2, l3})

=============================================================================
