-------------------------- MODULE ServerTreeProofs --------------------------
(***************************************************************************)
(* Proofs about the server table, for any set of server ids.               *)
(***************************************************************************)
EXTENDS ServerTree, TLAPS

\* TablesAgree and DownstreamForest need each other: Unlink clears a list by
\* way of upstream, and LinkServer appends a server that is in no list yet.
IInv == TypeOK /\ TablesAgree /\ DownstreamForest

\* The servers behind a split: closed under downstream.
LEMMA LinkedToClosed ==
    ASSUME NEW split \in servMap
    PROVE  /\ LinkedTo(split) \subseteq servMap
           /\ split \in LinkedTo(split)
           /\ \A p \in LinkedTo(split) : downstream[p] \cap servMap \subseteq LinkedTo(split)
BY DEF LinkedTo

LEMMA InitIInv == Init => IInv
BY TreeAssumption DEF Init, IInv, TypeOK, TablesAgree, DownstreamForest

LEMMA GetServerIInv ==
    ASSUME IInv, NEW id \in SID, GetServer(id)
    PROVE  IInv'
<1> USE DEF IInv
<1>1. TypeOK' /\ TablesAgree'
  BY DEF GetServer, TypeOK, TablesAgree
<1>2. downstream' = downstream
  BY DEF GetServer, TypeOK, TablesAgree
<1>3. DownstreamForest'
  BY <1>2 DEF DownstreamForest
<1> QED
  BY <1>1, <1>3

\* A server that joins a list is new: it has no list, so no circle closes.
LEMMA LinkServerIInv ==
    ASSUME IInv, NEW link \in SID, NEW sid \in SID, LinkServer(link, sid)
    PROVE  IInv'
<1> USE DEF IInv
<1>1. CASE link \notin listed
  <2>1. TypeOK' /\ TablesAgree'
    BY <1>1 DEF LinkServer, TypeOK, TablesAgree
  <2>2. DownstreamForest'
    BY <1>1 DEF LinkServer, DownstreamForest
  <2> QED
    BY <2>1, <2>2
<1>2. CASE link \in listed
  <2>1. /\ sid \notin servMap /\ link \in servMap /\ listed = servMap
        /\ downstream[sid] = {} /\ \A p \in SID : sid \notin downstream[p]
    BY <1>2 DEF LinkServer, CanLink, TypeOK, TablesAgree
  <2>2. \A p \in SID : downstream'[p] = IF p = link THEN downstream[p] \cup {sid}
                                        ELSE downstream[p]
    BY <1>2, <2>1 DEF LinkServer, TypeOK
  <2>3. TypeOK'
    BY <1>2, <2>1 DEF LinkServer, TypeOK
  <2>4. TablesAgree'
    <3>1. listed' = servMap'
      BY <1>2, <2>1 DEF LinkServer
    <3>2. ASSUME NEW p \in SID, NEW s \in SID, s \in downstream'[p]
          PROVE  s \in servMap' /\ upstream'[s] = p
      <4>1. CASE s = sid
        BY <1>2, <2>1, <2>2, <3>2, <4>1 DEF LinkServer, TypeOK
      <4>2. CASE s # sid
        BY <1>2, <2>1, <2>2, <3>2, <4>2 DEF LinkServer, TypeOK, TablesAgree
      <4> QED
        BY <4>1, <4>2
    <3> QED
      BY <3>1, <3>2 DEF TablesAgree
  <2>5. DownstreamForest'
    <3> SUFFICES ASSUME NEW S \in SUBSET SID, S # {}
                 PROVE  \E s \in S : \A p \in S : s \notin downstream'[p]
      BY DEF DownstreamForest
    <3>1. CASE S = {sid}
      BY <2>1, <2>2, <3>1
    <3>2. CASE S # {sid}
      <4>1. S \ {sid} \in SUBSET SID /\ S \ {sid} # {}
        BY <3>2
      <4>2. PICK s \in S \ {sid} : \A p \in S \ {sid} : s \notin downstream[p]
        BY <4>1 DEF DownstreamForest
      <4>3. \A p \in S : s \notin downstream'[p]
        BY <2>1, <2>2, <4>2
      <4> QED
        BY <4>2, <4>3
    <3> QED
      BY <3>1, <3>2
  <2> QED
    BY <2>3, <2>4, <2>5
<1> QED
  BY <1>1, <1>2

\* A server that stays keeps its list but for the servers that go.
LEMMA UnlinkIInv ==
    ASSUME IInv, NEW split \in SID, Unlink(split)
    PROVE  IInv'
<1> USE DEF IInv
<1> DEFINE gone == LinkedTo(split)
<1>1. /\ gone \subseteq servMap
      /\ \A p \in SID : downstream'[p] = IF p \in gone THEN {}
                                         ELSE downstream[p] \ {s \in gone : upstream[s] = p}
      /\ servMap' = servMap \ gone /\ listed' = listed \ gone
      /\ upstream' = upstream /\ mode' = mode /\ mode = "up"
  BY LinkedToClosed DEF Unlink
<1>2. ASSUME NEW p \in SID, NEW s \in downstream'[p]
      PROVE  s \in downstream[p] \ gone
  <2>1. p \notin gone /\ s \in downstream[p] /\ s \notin {x \in gone : upstream[x] = p}
    BY <1>1, <1>2
  <2>2. s \in SID /\ upstream[s] = p
    BY <1>1, <2>1 DEF TypeOK, TablesAgree
  <2> QED
    BY <2>1, <2>2
<1>3. TypeOK'
  <2>1. downstream' \in [SID -> SUBSET SID]
    BY <1>1 DEF Unlink, TypeOK
  <2> QED
    BY <1>1, <2>1 DEF TypeOK
<1>4. TablesAgree'
  BY <1>1, <1>2 DEF TypeOK, TablesAgree
<1>5. DownstreamForest'
  BY <1>2 DEF DownstreamForest
<1> QED
  BY <1>3, <1>4, <1>5

LEMMA NextIInv == IInv /\ [Next]_vars => IInv'
<1> SUFFICES ASSUME IInv, [Next]_vars
             PROVE  IInv'
  OBVIOUS
<1>2. CASE UNCHANGED vars
  BY <1>2 DEF vars, IInv, TypeOK, TablesAgree, DownstreamForest
<1> QED
  BY <1>2, GetServerIInv, LinkServerIInv, UnlinkIInv DEF Next

LEMMA Invariance == Spec => []IInv
BY InitIInv, NextIInv, PTL DEF Spec

-----------------------------------------------------------------------------

\* A circle of upstream entries that a linked server runs into goes through
\* a linked server that is not in the list its entry names.
LEMMA CircleHasStale ==
    ASSUME NEW known \in SUBSET SID, NEW start \in known,
           NEW up \in [SID -> SID \cup {NoSID}], ~WalkEnds(up, start),
           NEW down \in [SID -> SUBSET SID],
           \A s \in SID \ known : down[s] = {},
           \A S \in SUBSET SID : S # {} => \E s \in S : \A p \in S : s \notin down[p]
    PROVE  \E s \in known : up[s] # NoSID /\ s \notin down[up[s]]
<1>1. PICK S \in SUBSET SID : start \in S /\ \A s \in S : up[s] \in S
  BY DEF WalkEnds
<1>2. PICK s \in S \cap known : \A p \in S \cap known : s \notin down[p]
  <2>1. S \cap known \in SUBSET SID /\ S \cap known # {}
    BY <1>1
  <2> QED
    BY <2>1
<1>3. up[s] \in S /\ up[s] # NoSID
  BY <1>1, <1>2, TreeAssumption
<1>4. s \notin down[up[s]]
  BY <1>2, <1>3
<1> QED
  BY <1>2, <1>3, <1>4

\* The circle LinkServer closes goes through the new server, so the walk from
\* its link finds it; one without the new server was there before.
LEMMA LinkServerWalks ==
    ASSUME IInv, WalksEnd, NEW link \in SID, NEW sid \in SID, LinkServer(link, sid)
    PROVE  WalksEnd' /\ HungByStaleOnly'
<1>1. WalksEnd'
  <2> SUFFICES ASSUME mode' = "up", NEW S \in SUBSET SID, S # {},
                      \A s \in S : upstream'[s] \in S
               PROVE  FALSE
    BY DEF WalksEnd, WalkEnds
  <2>1. WalkEnds(upstream', link) /\ mode = "up"
    BY DEF LinkServer
  <2>2. upstream' = [upstream EXCEPT ![sid] = link] /\ upstream \in [SID -> SID \cup {NoSID}]
    BY DEF LinkServer, IInv, TypeOK
  <2>3. sid \notin S
    BY <2>1, <2>2 DEF WalkEnds
  <2>4. \A s \in S : upstream[s] \in S
    BY <2>2, <2>3
  <2> QED
    BY <2>1, <2>4 DEF WalksEnd, WalkEnds
<1>2. HungByStaleOnly'
  <2> SUFFICES ASSUME mode' = "hung"
               PROVE  \E s \in servMap' : Stale(s)'
    BY DEF HungByStaleOnly
  <2>1. link \in listed /\ ~WalkEnds(upstream', link)
    BY DEF LinkServer
  <2>2. IInv' /\ link \in servMap'
    BY <2>1, LinkServerIInv DEF IInv, TablesAgree, LinkServer
  <2>3. /\ servMap' \in SUBSET SID /\ upstream' \in [SID -> SID \cup {NoSID}]
        /\ downstream' \in [SID -> SUBSET SID]
        /\ \A s \in SID \ servMap' : downstream'[s] = {}
        /\ \A S \in SUBSET SID : S # {} => \E s \in S : \A p \in S : s \notin downstream'[p]
    BY <2>2 DEF IInv, TypeOK, TablesAgree, DownstreamForest
  <2>4. \E s \in servMap' : upstream'[s] # NoSID /\ s \notin downstream'[upstream'[s]]
    BY <2>1, <2>2, <2>3, CircleHasStale
  <2> QED
    BY <2>4 DEF Stale
<1> QED
  BY <1>1, <1>2

LEMMA WalksInvariance == Spec => [](WalksEnd /\ HungByStaleOnly)
<1> DEFINE WInv == IInv /\ WalksEnd /\ HungByStaleOnly
<1>1. Init => WInv
  <2>1. Init => WalksEnd /\ HungByStaleOnly
    BY TreeAssumption DEF Init, WalksEnd, WalkEnds, HungByStaleOnly
  <2> QED
    BY <2>1, InitIInv
<1>2. WInv /\ [Next]_vars => WInv'
  <2> SUFFICES ASSUME WInv, [Next]_vars
               PROVE  WalksEnd' /\ HungByStaleOnly'
    BY NextIInv
  <2>1. ASSUME NEW id \in SID, GetServer(id) \/ Unlink(id)
        PROVE  WalksEnd' /\ HungByStaleOnly'
    BY <2>1 DEF GetServer, Unlink, WalksEnd, HungByStaleOnly
  <2>2. CASE UNCHANGED vars
    BY <2>2 DEF vars, WalksEnd, HungByStaleOnly, Stale
  <2> QED
    BY <2>1, <2>2, LinkServerWalks DEF Next
<1>3. WInv => WalksEnd /\ HungByStaleOnly
  OBVIOUS
<1> QED
  BY <1>1, <1>2, <1>3, PTL DEF Spec

-----------------------------------------------------------------------------

\* The tables keep their shapes; a server without a list has no children.
THEOREM TreeTypeCorrect == Spec => []TypeOK
<1>1. IInv => TypeOK
  BY DEF IInv
<1> QED
  BY <1>1, Invariance, PTL

\* servMap, upstream and downstream tell the same story after any sequence of
\* links, splits and reconnections.
THEOREM TablesCorrect == Spec => []TablesAgree
<1>1. IInv => TablesAgree
  BY DEF IInv
<1> QED
  BY <1>1, Invariance, PTL

\* The recursion of linkedTo, which every split runs, has an end.
THEOREM ForestCorrect == Spec => []DownstreamForest
<1>1. IInv => DownstreamForest
  BY DEF IInv
<1> QED
  BY <1>1, Invariance, PTL

\* The loops of IterFor end.
THEOREM WalksEndCorrect == Spec => []WalksEnd
BY WalksInvariance, PTL

\* The loop of LinkServer ends unless a server keeps an old upstream entry.
THEOREM HungOnlyByStale == Spec => []HungByStaleOnly
BY WalksInvariance, PTL

\* A server behind split that is not split itself hangs below another one
\* behind split: without it the rest would be closed, and smaller.
LEMMA LinkedToHangs ==
    ASSUME TypeOK, TablesAgree, mode = "up", NEW split \in servMap,
           NEW s \in LinkedTo(split), s # split
    PROVE  upstream[s] \in LinkedTo(split)
<1> DEFINE behind == LinkedTo(split)
           rest == behind \ {s}
<1> SUFFICES ASSUME upstream[s] \notin behind PROVE FALSE
  OBVIOUS
<1>1. rest \in SUBSET servMap /\ split \in rest
  BY LinkedToClosed
<1>2. ASSUME NEW p \in rest PROVE downstream[p] \cap servMap \subseteq rest
  <2>1. p \in behind /\ p \in SID /\ s \in SID
    BY LinkedToClosed DEF TypeOK
  <2>2. s \notin downstream[p]
    BY <2>1 DEF TablesAgree
  <2> QED
    BY <2>1, <2>2, LinkedToClosed
<1>3. s \in rest
  BY <1>1, <1>2 DEF LinkedTo
<1> QED
  BY <1>3

\* No step takes out anything but one server with all that is behind it.
THEOREM SplitCorrect == Spec => SplitIsSubtree
<1>1. IInv /\ [Next]_vars => [SplitStep]_vars
  <2> SUFFICES ASSUME IInv, Next, servMap \ servMap' # {}
               PROVE  SplitStep
    BY DEF SplitStep
  <2> USE DEF IInv
  <2>1. PICK split \in SID : Unlink(split)
    BY DEF Next, GetServer, LinkServer
  <2>2. split \in servMap /\ mode = "up" /\ servMap \ servMap' = LinkedTo(split)
    BY <2>1, LinkedToClosed DEF Unlink
  <2>3. \A p \in LinkedTo(split) : downstream[p] \subseteq LinkedTo(split)
    BY <2>2, LinkedToClosed DEF TablesAgree, TypeOK
  <2>4. \A s \in LinkedTo(split) \ {split} : upstream[s] \in LinkedTo(split)
    BY <2>2, LinkedToHangs
  <2> QED
    BY <2>2, <2>3, <2>4, LinkedToClosed DEF SplitStep
<1> QED
  BY <1>1, Invariance, PTL DEF Spec, SplitIsSubtree

-----------------------------------------------------------------------------

\* While no entry is stale, a server without an entry in upstream is in no
\* list, and any other is in the list of a known server.
LEMMA Roots ==
    ASSUME IInv, mode = "up", \A s \in servMap : ~Stale(s), NEW s \in servMap
    PROVE  /\ upstream[s] = NoSID <=> \A p \in SID : s \notin downstream[p]
           /\ upstream[s] # NoSID => upstream[s] \in servMap /\ s \in downstream[upstream[s]]
<1>1. /\ servMap \subseteq SID /\ listed = servMap
      /\ upstream \in [SID -> SID \cup {NoSID}]
      /\ \A p \in SID \ listed : downstream[p] = {}
      /\ \A p, c \in SID : c \in downstream[p] => upstream[c] = p
  BY DEF IInv, TypeOK, TablesAgree
<1> QED
  BY <1>1, TreeAssumption DEF Stale

\* The walk from a known server stays among the known ones, and a place where
\* it may end lies on it.
LEMMA ChainHasRoot ==
    ASSUME IInv, WalksEnd, mode = "up", \A s \in servMap : ~Stale(s), NEW s \in servMap
    PROVE  \E r \in Chain(upstream, s) : r \in servMap /\ upstream[r] = NoSID
<1> DEFINE chain == Chain(upstream, s)
<1>1. servMap \in SUBSET SID /\ upstream \in [SID -> SID \cup {NoSID}]
  BY DEF IInv, TypeOK
<1>2. chain \in SUBSET SID /\ s \in chain
  BY <1>1 DEF Chain
<1>3. chain \subseteq servMap
  <2>1. \A y \in servMap : upstream[y] \in servMap \cup {NoSID}
    BY Roots
  <2> QED
    BY <1>1, <2>1 DEF Chain
<1>4. \A y \in chain : upstream[y] \in chain \cup {NoSID}
  BY <1>1 DEF Chain
<1>5. PICK r \in chain : upstream[r] \notin chain
  BY <1>1, <1>2 DEF WalksEnd, WalkEnds
<1> QED
  BY <1>3, <1>4, <1>5

\* Whatever the walk from s meets has s behind it: the servers that are not
\* behind r are closed under upstream.
LEMMA ChainIsAbove ==
    ASSUME IInv, mode = "up", \A s \in servMap : ~Stale(s), NEW s \in servMap,
           NEW r \in Chain(upstream, s), r \in servMap
    PROVE  s \in LinkedTo(r)
<1> SUFFICES ASSUME NEW S \in SUBSET servMap, r \in S, s \notin S,
                    \A p \in S : downstream[p] \cap servMap \subseteq S
             PROVE  FALSE
  BY DEF LinkedTo
<1> DEFINE rest == servMap \ S
<1>1. rest \in SUBSET SID /\ s \in rest
  BY DEF IInv, TypeOK
<1>2. \A y \in rest : upstream[y] \in rest \cup {NoSID}
  BY Roots
<1>3. r \in rest
  BY <1>1, <1>2 DEF Chain
<1> QED
  BY <1>3

\* The trees of two servers without a parent have no server in common.
LEMMA TreesDisjoint ==
    ASSUME IInv, mode = "up", NEW r \in servMap, NEW q \in servMap, r # q,
           upstream[r] = NoSID, upstream[q] = NoSID
    PROVE  LinkedTo(r) \cap LinkedTo(q) = {}
<1> USE DEF IInv
<1> DEFINE rest == LinkedTo(r) \ LinkedTo(q)
<1>1. NoSID \notin LinkedTo(q) /\ LinkedTo(q) \subseteq SID /\ LinkedTo(r) \subseteq SID
  BY LinkedToClosed, TreeAssumption DEF TypeOK
<1>2. rest \in SUBSET servMap /\ r \in rest
  BY <1>1, LinkedToClosed, LinkedToHangs
<1>3. ASSUME NEW p \in rest, NEW c \in downstream[p] \cap servMap PROVE c \in rest
  <2>1. c \in LinkedTo(r) /\ p \in SID /\ c \in SID
    BY <1>1, <1>3, LinkedToClosed DEF TypeOK
  <2>2. upstream[c] = p /\ c # q
    BY <1>3, <2>1, TreeAssumption DEF TablesAgree
  <2> QED
    BY <1>3, <2>1, <2>2, LinkedToHangs
<1>4. \A p \in rest : downstream[p] \cap servMap \subseteq rest
  BY <1>3
<1> QED
  BY <1>2, <1>4 DEF LinkedTo

\* A message for a server is sent to exactly the neighbour at the top of its
\* tree (IterFor, server.go:165-211), as long as no server was linked directly
\* with an upstream entry left from before.
THEOREM RoutesCorrect == Spec => []RoutesFollowTree
<1>1. IInv /\ WalksEnd => RoutesFollowTree
  <2> SUFFICES ASSUME IInv, WalksEnd, mode = "up", \A s \in servMap : ~Stale(s),
                      NEW s \in servMap
               PROVE  RouteFor({s}, NoSID) =
                      {r \in servMap : s \in LinkedTo(r) /\ \A p \in SID : r \notin downstream[p]}
    BY DEF RoutesFollowTree
  <2> DEFINE link == LinkOf(s)
  <2>1. /\ servMap \subseteq SID /\ NoSID \notin SID
        /\ Chain(upstream, s) \subseteq SID
    BY TreeAssumption DEF IInv, TypeOK, Chain
  <2>2. link \in Chain(upstream, s) /\ upstream[link] = NoSID
    BY ChainHasRoot DEF LinkOf
  <2>3. link \in servMap
    <3>1. \A y \in servMap : upstream[y] \in servMap \cup {NoSID}
      BY Roots
    <3> QED
      BY <2>1, <2>2, <3>1 DEF Chain
  <2>4. s \in LinkedTo(link)
    BY <2>2, <2>3, ChainIsAbove
  <2>5. RouteFor({s}, NoSID) = {link}
    <3>1. WalkEnds(upstream, s)
      BY <2>1 DEF WalksEnd
    <3> QED
      BY <2>1, <2>3, <3>1 DEF RouteFor
  <2>6. \A r \in servMap :
          (s \in LinkedTo(r) /\ \A p \in SID : r \notin downstream[p]) <=> r = link
    BY <2>2, <2>3, <2>4, Roots, TreesDisjoint
  <2> QED
    BY <2>3, <2>5, <2>6
<1> QED
  BY <1>1, Invariance, WalksInvariance, PTL

=============================================================================
