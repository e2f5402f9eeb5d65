----------------------------- MODULE ServerTree -----------------------------
(***************************************************************************)
(* The server table of the daemon (src/ircd/server.go): which servers are  *)
(* known (servMap), the link each is reached through (upstream) and the    *)
(* servers directly behind each (downstream).  Every operation holds       *)
(* servMutex, so each is one step; a panic under the lock ends the         *)
(* process, and a walk that never ends keeps the lock for good: every      *)
(* other operation then waits for ever.                                    *)
(***************************************************************************)
EXTENDS FiniteSets

CONSTANTS
    SID,    \* ids of the other servers of the network
    NoSID   \* the empty string: no entry in upstream

ASSUME TreeAssumption == NoSID \notin SID

VARIABLES
    servMap,     \* the servers that are known
    upstream,    \* server -> the server it is linked behind, or NoSID
    listed,      \* the servers that have a map in downstream
    downstream,  \* server -> the servers directly behind it
    mode         \* "up", "crashed" (a panic) or "hung" (a walk without end)

vars == <<servMap, upstream, listed, downstream, mode>>

\* A server without a list has no children: reading a nil map.
TypeOK ==
    /\ servMap \subseteq SID /\ listed \subseteq SID
    /\ upstream \in [SID -> SID \cup {NoSID}]
    /\ downstream \in [SID -> SUBSET SID]
    /\ \A s \in SID \ listed : downstream[s] = {}
    /\ mode \in {"up", "crashed", "hung"}

Init ==
    /\ servMap = {} /\ listed = {}
    /\ upstream = [s \in SID |-> NoSID]
    /\ downstream = [s \in SID |-> {}]
    /\ mode = "up"

-----------------------------------------------------------------------------

\* The loops "up = upstream[up]" stop at a server without an entry.  They do
\* not when the start lies in a set of servers whose links stay in the set.
WalkEnds(up, start) ==
    \A S \in SUBSET SID : start \in S => \E s \in S : up[s] \notin S

\* All servers reached from s through up: the least set closed under it.
Chain(up, s) ==
    {x \in SID : \A S \in SUBSET SID :
        (s \in S /\ \A y \in S : up[y] \in S \cup {NoSID}) => x \in S}

\* Where the loops end.
LinkOf(s) == CHOOSE r \in Chain(upstream, s) : upstream[r] = NoSID

\* Faulty variant of LinkedTo: the servers further down are forgotten.
LinkedToChildren(link) == IF link \in servMap THEN {link} \cup downstream[link] ELSE {}

\* linkedTo: the server and, recursively, those in the downstream lists; none
\* if it is not known.
LinkedTo(link) ==
    {s \in servMap :
        /\ link \in servMap
        /\ \A S \in SUBSET servMap :
             (link \in S /\ \A p \in S : downstream[p] \cap servMap \subseteq S) => s \in S}

IsLocal(sid) == upstream[sid] = NoSID /\ sid \in listed
ServerIter == {link \in servMap : upstream[link] = NoSID}

\* The links a message for the servers ids leaves by (IterFor): an id whose
\* walk goes round in a circle is dropped, the cache ends its loop.
RouteFor(ids, skipLink) ==
    {LinkOf(s) : s \in {x \in ids : WalkEnds(upstream, x)}}
        \ {IF skipLink = NoSID THEN NoSID ELSE LinkOf(skipLink)}

-----------------------------------------------------------------------------

\* GetServer(id, true): a server that has connected to this one, or whose
\* registration commands are being executed.
GetServer(id) ==
    /\ mode = "up"
    /\ id \notin servMap
    /\ servMap' = servMap \cup {id}
    /\ listed' = listed \cup {id}
    /\ downstream' = [downstream EXCEPT ![id] = {}]
    /\ UNCHANGED <<upstream, mode>>

\* "Server already linked".
CanLink(link, sid) == sid \notin servMap

\* Faulty variants of LinkServer: the server keeps no upstream entry; a list
\* is made for an unknown link; the hops are not counted; a known server is
\* linked once more.
LinkServerNoUpstream(link, sid) ==
    /\ mode = "up" /\ CanLink(link, sid) /\ link \in listed
    /\ servMap' = servMap \cup {sid} /\ listed' = listed \cup {sid}
    /\ downstream' = [downstream EXCEPT ![link] = @ \cup {sid}, ![sid] = {}]
    /\ UNCHANGED <<upstream, mode>>

LinkServerAnywhere(link, sid) ==
    /\ mode = "up" /\ CanLink(link, sid) /\ link # sid
    /\ servMap' = servMap \cup {sid} /\ listed' = listed \cup {sid}
    /\ upstream' = [upstream EXCEPT ![sid] = link]
    /\ downstream' = [downstream EXCEPT ![link] = @ \cup {sid}, ![sid] = {}]
    /\ UNCHANGED mode

LinkServerNoWalk(link, sid) ==
    /\ mode = "up" /\ CanLink(link, sid) /\ link \in listed
    /\ servMap' = servMap \cup {sid} /\ listed' = listed \cup {sid}
    /\ upstream' = [upstream EXCEPT ![sid] = link]
    /\ downstream' = [downstream EXCEPT ![link] = @ \cup {sid}, ![sid] = {}]
    /\ UNCHANGED mode

LinkServerAgain(link, sid) ==
    /\ mode = "up" /\ link \in listed
    /\ servMap' = servMap \cup {sid} /\ listed' = listed \cup {sid}
    /\ upstream' = [upstream EXCEPT ![sid] = link]
    /\ downstream' = [downstream EXCEPT ![link] = @ \cup {sid}]
    /\ mode' = IF WalkEnds(upstream', link) THEN "up" ELSE "hung"

\* A server introduced behind link.  Writing to the list of a link that has
\* none is a panic; the walk that counts the hops comes last.
LinkServer(link, sid) ==
    /\ mode = "up"
    /\ CanLink(link, sid)
    /\ servMap' = servMap \cup {sid}
    /\ upstream' = [upstream EXCEPT ![sid] = link]
    /\ IF link \notin listed
       THEN mode' = "crashed" /\ UNCHANGED <<listed, downstream>>
       ELSE /\ listed' = listed \cup {sid}
            /\ downstream' = [downstream EXCEPT ![link] = @ \cup {sid}, ![sid] = {}]
            /\ mode' = IF WalkEnds(upstream', link) THEN "up" ELSE "hung"

\* Faulty variant of Unlink: the list of the upstream is not updated.
UnlinkKeepsPlace(split) ==
    LET gone == LinkedTo(split) IN
    /\ mode = "up" /\ split \in servMap
    /\ servMap' = servMap \ gone /\ listed' = listed \ gone
    /\ downstream' = [p \in SID |-> IF p \in gone THEN {} ELSE downstream[p]]
    /\ UNCHANGED <<upstream, mode>>

\* The split server and all behind it go: their entries, their place in the
\* list of their upstream if that is still there, their own lists; upstream
\* keeps its entries.
Unlink(split) ==
    LET gone == LinkedTo(split) IN
    /\ mode = "up"
    /\ split \in servMap
    /\ servMap' = servMap \ gone
    /\ listed' = listed \ gone
    /\ downstream' = [p \in SID |-> IF p \in gone THEN {}
                                    ELSE downstream[p] \ {s \in gone : upstream[s] = p}]
    /\ UNCHANGED <<upstream, mode>>

Next ==
    \/ \E id \in SID : GetServer(id) \/ Unlink(id)
    \/ \E link, sid \in SID : LinkServer(link, sid)

Spec == Init /\ [][Next]_vars

-----------------------------------------------------------------------------

\* The lists name known servers only, each the one its upstream entry says:
\* a server is in one list at most, and Unlink leaves no dead child behind.
TablesAgree ==
    mode # "crashed" =>
        /\ listed = servMap
        /\ \A p, s \in SID : s \in downstream[p] => s \in servMap /\ upstream[s] = p

\* The lists form a forest: some server of any group has its parent outside
\* the group.  So the recursion of linkedTo ends, under any order of links,
\* splits and reconnections.
DownstreamForest ==
    \A S \in SUBSET SID : S # {} => \E s \in S : \A p \in S : s \notin downstream[p]

\* A server linked directly whose entry in upstream is left over from the
\* time it was behind another one.
Stale(s) == upstream[s] # NoSID /\ s \notin downstream[upstream[s]]

\* As long as the table answers, no walk goes round in a circle: IterFor
\* (server.go:172-197) always returns.  A circle of upstream entries is found,
\* and the lock never released, by the LinkServer that closes it.
WalksEnd == mode = "up" => \A s \in SID : WalkEnds(upstream, s)

\* Such a circle is due to a stale entry: peers that never introduce a server
\* twice, nor connect one that was behind another, never hang the table.
HungByStaleOnly == mode = "hung" => \E s \in servMap : Stale(s)

\* While no entry is stale, messages for a server leave by one link: the
\* directly linked server at the top of its tree.
RoutesFollowTree ==
    (mode = "up" /\ \A s \in servMap : ~Stale(s)) =>
        \A s \in servMap :
            RouteFor({s}, NoSID) =
                {r \in servMap : s \in LinkedTo(r) /\ \A p \in SID : r \notin downstream[p]}

\* A step takes out nothing or one whole subtree: with a server go all
\* behind it, and all but one of them go with the server they are behind.
SplitStep ==
    LET gone == servMap \ servMap' IN
    gone # {} => /\ \A p \in gone : downstream[p] \subseteq gone
                 /\ \E r \in gone : \A s \in gone \ {r} : upstream[s] \in gone
SplitIsSubtree == [][SplitStep]_vars

=============================================================================
