--------------------------- MODULE MCUserRegistry ---------------------------
(***************************************************************************)
(* Instances of UserRegistry for TLC.  The nicks are [ and {, which IRC    *)
(* takes for the same, and A, which both foldings change.                   *)
(***************************************************************************)
EXTENDS UserRegistry, TLC

CONSTANTS p1, p2, p3, g1, g2

MCNick == {<<91>>, <<123>>, <<65>>}

Symmetry == Permutations({p1, p2, p3}) \cup Permutations({g1, g2})

=============================================================================
