----------------------------- MODULE MCSessions -----------------------------
(***************************************************************************)
(* Instances of Sessions for TLC.  The nicks [ and { are the same to IRC;  *)
(* 1 is no valid nick.                                                     *)
(***************************************************************************)
EXTENDS Sessions, TLC

CONSTANTS c1, c2, g1, g2, p1, p2, p3, p4, name

MCNick == {<<91>>, <<123>>, <<65>>, <<49>>}

L(cmd, arg) == [cmd |-> cmd, arg |-> arg]

\* One client registers, then writes, leaves or is cut short; the other one
\* competes for its nick or takes another.
TalkScript ==
    c1 :> << {L("NICK", <<91>>)},
             {L("USER", name)},
             {L("PING", name), L("PING", NoArg), L("QUIT", NoArg), L("PASS", NoArg),
              L("PRIVMSG", <<<<65>>, c1>>), L("NOTICE", <<c2, <<65>>>>), L("ERROR", NoArg),
              L("", NoArg)} >>
    @@ c2 :> << {L("NICK", <<123>>), L("NICK", <<65>>)}, {L("USER", name)} >>

\* One client that quits or talks to itself, and has sent a line more, an invalid
\* one or QUIT.
OneScript ==
    c1 :> << {L("NICK", <<91>>)}, {L("USER", name)},
             {L("QUIT", NoArg), L("PRIVMSG", <<<<91>>, <<65>>>>)},
             {L("NICK", <<49>>), L("USER", NoUser), L("QUIT", NoArg)} >>

Symmetry == Permutations({g1, g2}) \cup Permutations({p1, p2, p3, p4})

=============================================================================
