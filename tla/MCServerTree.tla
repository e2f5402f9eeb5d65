---------------------------- MODULE MCServerTree ----------------------------
(***************************************************************************)
(* Instances of ServerTree for TLC; the server ids are interchangeable.    *)
(***************************************************************************)
EXTENDS ServerTree, TLC

CONSTANTS s1, s2, s3, s4, s5

FiveServers == {s1, s2, s3, s4, s5}

Symmetry == Permutations(FiveServers)

=============================================================================
