--------------------------- MODULE MCServerLinks ----------------------------
(***************************************************************************)
(* Instances of ServerLinks for TLC.                                       *)
(***************************************************************************)
EXTENDS ServerLinks, TLC

CONSTANTS s1, s2, k1, k2, g1, g2, u1

\* A second connection of one server; a user of the server behind it.
Reconnect == k1 :> {s1} @@ k2 :> {s1}
SplitTalk == k1 :> {"SID", "UID", "SQUIT"} @@ k2 :> {"SID", "UID", "QUIT"}
OnSecond == u1 :> s2
SomeNick == u1 :> "nick"

\* Two servers, and no remote user.
TwoLinks == k1 :> {s1} @@ k2 :> {s2}
PingTalk == k1 :> {} @@ k2 :> {"PING"}
NoUsers == [u \in {} |-> s1]

Symmetry == Permutations({g1, g2})

=============================================================================
