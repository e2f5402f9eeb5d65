------------------------- MODULE ServerLinksProofs --------------------------
(***************************************************************************)
(* Proofs about ServerLinks, for any servers, connections, users and       *)
(* goroutines, and channels of any size.                                   *)
(***************************************************************************)
EXTENDS ServerLinks, TLAPS

\* ServerTree again, with what is proved of it.
TreeFacts == INSTANCE ServerTreeProofs

TableOK == TreeFacts!IInv /\ fields \in [SID -> SUBSET Line] /\ registered \subseteq servMap

PeopleOK ==
    /\ users \subseteq UID /\ signed \subseteq users
    /\ client \in [LocalUID -> {"off", "on", "gone"}]

ConnRec == [pc : {"new", "on", "lost", "dead", "closed"}, sid : SID \cup {NoSID}, lines : SUBSET Line,
            greeted : BOOLEAN, bye : BOOLEAN, said : SUBSET (SID \cup RemoteUID)]

\* Two connections are never the entry of one server, since an entry is the
\* server's own; and a connection that has been handed over has its id.
LinksOK ==
    /\ sid2conn \in [SID -> Conn \cup {NoConn, NilConn}]
    /\ conn \in [Conn -> ConnRec]
    /\ \A s \in SID : sid2conn[s] \in Conn =>
         conn[sid2conn[s]].sid = s /\ conn[sid2conn[s]].pc \in {"on", "lost", "dead"}
    /\ \A k \in Conn : conn[k].pc # "new" =>
         conn[k].sid \in SID /\ sid2conn[conn[k].sid] # NoConn
    /\ \A k \in Conn : conn[k].greeted => conn[k].pc # "new"
    /\ view \in [Conn -> SUBSET LocalUID]

\* A message for the client loop deletes remote users, or one local user; one for a
\* local user deletes no other.
Id == SID \cup UID \cup Line \cup {Me, NoUID}
ServerCmd == {"SERVER", "UID", "SID", "QUIT", "SQUIT", "PING", "PONG", "ERROR"}
ServerMsg == [to : SID \cup {NoSID}, cmd : ServerCmd, id : Id]
Ids == (SUBSET RemoteUID) \cup {{u} : u \in LocalUID}
ClientMsgs == {m \in [cmd : {"DELUSER", "ERROR", "WELCOME"}, to : UID \cup {NoUID}, ids : Ids] :
                 m.to \in LocalUID => m.ids \subseteq {m.to}}

QueuesOK ==
    /\ toServer \in Seq(ServerMsg) /\ Len(toServer) <= SendQ
    /\ toClient \in Seq(ClientMsgs) /\ Len(toClient) <= SendQ

\* What a goroutine knows of its servers and users; known and people are the
\* records in the two tables.
JobShape(j, known, persons) ==
    /\ j.pc = "line" => j.from \in SID /\ j.id \in Line /\ j.rec = "live"
    /\ j.pc \in {"info", "introduce"} => j.from \in SID /\ (j.rec = "live" => j.from \in known)
    /\ j.pc = "sid" => j.link \in SID /\ j.id \in SID
    /\ j.pc = "uid" => j.id \in RemoteUID
    /\ j.pc \in {"burst", "tell"} => j.todo \subseteq UID
    /\ j.pc = "ping" => j.id \in SID \cup {Me}
    /\ j.pc \in {"squit", "forward", "unlink"} => j.id \in SID
    /\ j.pc \in {"introduce", "forward", "quitting", "announce", "route", "split"} => j.todo \subseteq SID
    /\ j.pc = "delete" => j.todo \subseteq RemoteUID
    /\ j.pc \in {"quit", "quitting"} => j.id \in UID
    /\ j.pc \in {"user", "announce"} => j.id \in LocalUID /\ (j.rec = "live" => j.id \in persons)
    /\ j.pc = "welcome" => j.id \in LocalUID

JobsOK == job \in [Goroutine -> Job] /\ \A g \in Goroutine : JobShape(job[g], servMap, users)

HistoryOK ==
    /\ loop \in {"up", "hung", "crashed", "down"} /\ quitters \subseteq RemoteUID
    /\ late \cup back \subseteq users \cap RemoteUID
    /\ ghosts \subseteq servMap
    /\ raced \subseteq SID \X LocalUID /\ vanished \subseteq LocalUID

TInv == TableOK /\ PeopleOK /\ LinksOK /\ QueuesOK /\ JobsOK /\ HistoryOK

-----------------------------------------------------------------------------
(* Which actions change what. *)

\* What peers send, and what they do.
Receive(k) ==
    \/ \E sid \in SID : ReceiveSQuit(k, sid)
    \/ \E link, sid \in SID : ReceiveSid(k, link, sid)
    \/ \E uid \in RemoteUID : ReceiveUid(k, uid) \/ ReceiveQuit(k, uid)
    \/ \E target \in SID \cup {Me} : ReceiveFarewell(k, target) \/ ReceivePing(k, target)
Client(u) == ClientConnects(u) \/ ClientSignsOn(u) \/ ClientQuits(u) \/ ClientClosed(u)

\* The steps of a goroutine that leave the tables alone.
Send(g) ==
    \/ ConnRegInfo(g) \/ Greet(g) \/ BurstBegin(g) \/ BurstTell(g) \/ Refuse(g) \/ SPing(g)
    \/ Begin(g) \/ Spread(g) \/ SplitError(g) \/ UserSplit(g) \/ AskClientLoop(g)

LEMMA TableMoves ==
    ASSUME Step
    PROVE  \/ \E k \in Conn, sid \in SID : Adopt(k, sid)
           \/ \E g \in Goroutine : ConnRegLine(g) \/ SignOn(g) \/ Sid(g) \/ Unlink(g)
           \/ UNCHANGED servers
<1>1. ASSUME NEW k \in Conn, Receive(k)
      PROVE  UNCHANGED servers
  BY <1>1, Zenon DEF Receive, ReceiveSQuit, ReceiveSid, ReceiveUid, ReceiveQuit, ReceiveFarewell,
                     ReceivePing, Says
<1>2. ASSUME NEW k \in Conn, PeerLeaves(k) \/ LinkClosed(k) \/ ReceiveError(k)
                             \/ (\E line \in Line : ReceiveLine(k, line))
      PROVE  UNCHANGED servers
  BY <1>2, Zenon DEF PeerLeaves, LinkClosed, ReceiveError, ReceiveLine
<1>3. ASSUME NEW g \in Goroutine, Send(g)
      PROVE  UNCHANGED servers
  BY <1>3, Zenon DEF Send, ConnRegInfo, Greet, BurstBegin, BurstTell, Refuse, SPing, Begin, Spread,
                     SplitError, UserSplit, AskClientLoop
<1>4. ASSUME NEW g \in Goroutine, Import(g) \/ UserSignOn(g) \/ (\E u \in UID : BurstUser(g, u))
      PROVE  UNCHANGED servers
  BY <1>4, Zenon DEF Import, UserSignOn, BurstUser
<1>5. ASSUME NEW u \in LocalUID, Client(u)
      PROVE  UNCHANGED servers
  BY <1>5, Zenon DEF Client, ClientConnects, ClientSignsOn, ClientQuits, ClientClosed
<1>6. ASSUME Write \/ TakeClient
      PROVE  UNCHANGED servers
  BY <1>6, Zenon DEF Write, TakeClient
<1> QED
  BY <1>1, <1>2, <1>3, <1>4, <1>5, <1>6, Zenon DEF Step, Receive, Send, Client

LEMMA PeopleMoves ==
    ASSUME Step
    PROVE  \/ \E g \in Goroutine : Import(g) \/ UserSignOn(g) \/ \E u \in UID : BurstUser(g, u)
           \/ TakeClient
           \/ \E u \in LocalUID : Client(u)
           \/ UNCHANGED <<people, client>>
<1>1. ASSUME NEW k \in Conn, Receive(k)
      PROVE  UNCHANGED <<people, client>>
  BY <1>1, Zenon DEF Receive, ReceiveSQuit, ReceiveSid, ReceiveUid, ReceiveQuit, ReceiveFarewell,
                     ReceivePing, Says
<1>2. ASSUME NEW k \in Conn, PeerLeaves(k) \/ LinkClosed(k) \/ ReceiveError(k)
                             \/ (\E line \in Line : ReceiveLine(k, line))
                             \/ (\E sid \in SID : Adopt(k, sid))
      PROVE  UNCHANGED <<people, client>>
  BY <1>2, Zenon DEF PeerLeaves, LinkClosed, ReceiveError, ReceiveLine, Adopt
<1>3. ASSUME NEW g \in Goroutine, Send(g)
      PROVE  UNCHANGED <<people, client>>
  BY <1>3, Zenon DEF Send, ConnRegInfo, Greet, BurstBegin, BurstTell, Refuse, SPing, Begin, Spread,
                     SplitError, UserSplit, AskClientLoop
<1>4. ASSUME NEW g \in Goroutine, ConnRegLine(g) \/ SignOn(g) \/ Sid(g) \/ Unlink(g)
      PROVE  UNCHANGED <<people, client>>
  BY <1>4, Zenon DEF ConnRegLine, SignOn, Sid, Unlink
<1>5. ASSUME Write
      PROVE  UNCHANGED <<people, client>>
  BY <1>5, Zenon DEF Write
<1> QED
  BY <1>1, <1>2, <1>3, <1>4, <1>5, Zenon DEF Step, Receive, Send, Client

LEMMA LinkMoves ==
    ASSUME Step
    PROVE  \/ \E k \in Conn : \/ Receive(k) \/ PeerLeaves(k) \/ LinkClosed(k) \/ ReceiveError(k)
                              \/ (\E line \in Line : ReceiveLine(k, line))
                              \/ (\E sid \in SID : Adopt(k, sid))
           \/ Write
           \/ UNCHANGED links
<1>1. ASSUME NEW g \in Goroutine, Send(g)
      PROVE  UNCHANGED links
  BY <1>1, Zenon DEF Send, ConnRegInfo, Greet, BurstBegin, BurstTell, Refuse, SPing, Begin, Spread,
                     SplitError, UserSplit, AskClientLoop
<1>2. ASSUME NEW g \in Goroutine, ConnRegLine(g) \/ SignOn(g) \/ Sid(g) \/ Unlink(g)
      PROVE  UNCHANGED links
  BY <1>2, Zenon DEF ConnRegLine, SignOn, Sid, Unlink
<1>3. ASSUME NEW g \in Goroutine, Import(g) \/ UserSignOn(g) \/ (\E u \in UID : BurstUser(g, u))
      PROVE  UNCHANGED links
  BY <1>3, Zenon DEF Import, UserSignOn, BurstUser
<1>4. ASSUME NEW u \in LocalUID, Client(u)
      PROVE  UNCHANGED links
  BY <1>4, Zenon DEF Client, ClientConnects, ClientSignsOn, ClientQuits, ClientClosed
<1>5. ASSUME TakeClient
      PROVE  UNCHANGED links
  BY <1>5, Zenon DEF TakeClient
<1> QED
  BY <1>1, <1>2, <1>3, <1>4, <1>5, Zenon DEF Step, Receive, Send, Client

-----------------------------------------------------------------------------
(* The server table is used as ServerTree says. *)

LEMMA TreeMoves ==
    ASSUME TableOK, JobsOK, Step
    PROVE  [Tree!Next]_tree
<1>1. ASSUME NEW k \in Conn, NEW sid \in SID, Adopt(k, sid)
      PROVE  [Tree!Next]_tree
  BY <1>1 DEF Adopt, GetServer, Tree!Next
<1>2. ASSUME NEW g \in Goroutine, ConnRegLine(g)
      PROVE  [Tree!Next]_tree
  <2>1. job[g].from \in SID
    BY <1>2 DEF ConnRegLine, JobsOK, JobShape
  <2> QED
    BY <1>2, <2>1 DEF ConnRegLine, GetServer, Tree!Next
<1>3. ASSUME NEW g \in Goroutine, SignOn(g)
      PROVE  [Tree!Next]_tree
  BY <1>3 DEF SignOn
<1>4. ASSUME NEW g \in Goroutine, Sid(g)
      PROVE  [Tree!Next]_tree
  <2>1. job[g].link \in SID /\ job[g].id \in SID
    BY <1>4 DEF Sid, JobsOK, JobShape
  <2> QED
    BY <1>4, <2>1 DEF Sid, Tree!Next
<1>5. ASSUME NEW g \in Goroutine, Unlink(g)
      PROVE  [Tree!Next]_tree
  <2>1. job[g].id \in SID
    BY <1>5 DEF Unlink, ToUnlink, JobsOK, JobShape
  <2> QED
    BY <1>5, <2>1 DEF Unlink, Tree!Next
<1>6. ASSUME UNCHANGED servers
      PROVE  [Tree!Next]_tree
  BY <1>6 DEF servers
<1> QED
  BY <1>1, <1>2, <1>3, <1>4, <1>5, <1>6, TableMoves, Zenon

LEMMA SameTree == [Tree!Next]_tree => [TreeFacts!Next]_(TreeFacts!vars)
<1>1. ASSUME NEW id \in SID, Tree!GetServer(id)
      PROVE  TreeFacts!GetServer(id)
  BY <1>1, Zenon DEF Tree!GetServer, TreeFacts!GetServer
<1>2. ASSUME NEW id \in SID, Tree!Unlink(id)
      PROVE  TreeFacts!Unlink(id)
  BY <1>2, Zenon DEF Tree!Unlink, TreeFacts!Unlink, Tree!LinkedTo, TreeFacts!LinkedTo
<1>3. ASSUME NEW link \in SID, NEW sid \in SID, Tree!LinkServer(link, sid)
      PROVE  TreeFacts!LinkServer(link, sid)
  BY <1>3, Zenon DEF Tree!LinkServer, TreeFacts!LinkServer, Tree!CanLink, TreeFacts!CanLink,
                     Tree!WalkEnds, TreeFacts!WalkEnds
<1> QED
  BY <1>1, <1>2, <1>3, Zenon DEF Tree!Next, TreeFacts!Next, TreeFacts!vars, tree

LEMMA TreeStep ==
    ASSUME TableOK, JobsOK, Step
    PROVE  TreeFacts!IInv'
<1>1. TreeFacts!IInv /\ [TreeFacts!Next]_(TreeFacts!vars) => TreeFacts!IInv'
  BY LinksAssumption, TreeFacts!NextIInv
<1> QED
  BY <1>1, SameTree, TreeMoves DEF TableOK

-----------------------------------------------------------------------------
(* The tables and the connections. *)

LEMMA TableTypes ==
    ASSUME TableOK
    PROVE  servMap \subseteq SID /\ Tree!TypeOK
BY Zenon DEF TableOK, TreeFacts!IInv, TreeFacts!TypeOK, Tree!TypeOK

LEMMA TableStep ==
    ASSUME TableOK, JobsOK, Step
    PROVE  TableOK'
<1> SUFFICES (fields \in [SID -> SUBSET Line] /\ registered \subseteq servMap)'
  BY TreeStep DEF TableOK
<1> USE DEF TableOK
<1>1. ASSUME NEW k \in Conn, NEW sid \in SID, Adopt(k, sid)
      PROVE  (fields \in [SID -> SUBSET Line] /\ registered \subseteq servMap)'
  BY <1>1 DEF Adopt, GetServer, tree, Tree!GetServer
<1>2. ASSUME NEW g \in Goroutine, ConnRegLine(g)
      PROVE  (fields \in [SID -> SUBSET Line] /\ registered \subseteq servMap)'
  <2>1. job[g].from \in SID /\ job[g].id \in Line
    BY <1>2 DEF ConnRegLine, JobsOK, JobShape
  <2> QED
    BY <1>2, <2>1 DEF ConnRegLine, GetServer, tree, Tree!GetServer
<1>3. ASSUME NEW g \in Goroutine, SignOn(g)
      PROVE  (fields \in [SID -> SUBSET Line] /\ registered \subseteq servMap)'
  <2>1. job[g].rec = "live" => job[g].from \in servMap
    BY <1>3 DEF SignOn, JobsOK, JobShape
  <2> QED
    BY <1>3, <2>1 DEF SignOn, tree
<1>4. ASSUME NEW g \in Goroutine, Sid(g)
      PROVE  (fields \in [SID -> SUBSET Line] /\ registered \subseteq servMap)'
  BY <1>4 DEF Sid, tree, Tree!LinkServer
<1>5. ASSUME NEW g \in Goroutine, Unlink(g)
      PROVE  (fields \in [SID -> SUBSET Line] /\ registered \subseteq servMap)'
  BY <1>5 DEF Unlink, Gone, tree, Tree!Unlink
<1>6. ASSUME UNCHANGED servers
      PROVE  (fields \in [SID -> SUBSET Line] /\ registered \subseteq servMap)'
  BY <1>6 DEF servers, tree
<1> QED
  BY <1>1, <1>2, <1>3, <1>4, <1>5, <1>6, TableMoves, Zenon

LEMMA PeopleStep ==
    ASSUME PeopleOK, JobsOK, Step
    PROVE  PeopleOK'
<1> USE DEF PeopleOK
<1>1. ASSUME NEW g \in Goroutine, Import(g)
      PROVE  PeopleOK'
  <2>1. job[g].id \in UID
    BY <1>1 DEF Import, JobsOK, JobShape, UID
  <2> QED
    BY <1>1, <2>1 DEF Import, people
<1>2. ASSUME NEW g \in Goroutine, UserSignOn(g)
      PROVE  PeopleOK'
  <2>1. job[g].rec = "live" => job[g].id \in users
    BY <1>2 DEF UserSignOn, JobsOK, JobShape
  <2> QED
    BY <1>2, <2>1 DEF UserSignOn
<1>3. ASSUME NEW g \in Goroutine, NEW u \in UID, BurstUser(g, u)
      PROVE  PeopleOK'
  BY <1>3 DEF BurstUser
<1>4. ASSUME TakeClient
      PROVE  PeopleOK'
  <2>1. CASE UNCHANGED <<people, client, job>>
    BY <2>1 DEF people
  <2>2. CASE \E ids : /\ Delete(ids)
                     /\ client' = [u \in LocalUID |-> IF u \in ids THEN "gone"
                                                      ELSE client[u]]
    BY <2>2 DEF Delete
  <2> QED
    BY <1>4, <2>1, <2>2, Zenon DEF TakeClient
<1>5. ASSUME NEW u \in LocalUID, Client(u)
      PROVE  PeopleOK'
  BY <1>5 DEF Client, ClientConnects, ClientSignsOn, ClientQuits, ClientClosed, Delete, people, UID
<1>6. ASSUME UNCHANGED <<people, client>>
      PROVE  PeopleOK'
  BY <1>6 DEF people
<1> QED
  BY <1>1, <1>2, <1>3, <1>4, <1>5, <1>6, PeopleMoves, Zenon

\* What a peer says, and the goroutine for it: not of its own server, but to say goodbye.
Said(k) ==
    \E said \in SUBSET (SID \cup RemoteUID), bye \in BOOLEAN, j \in Job :
       /\ conn[k].pc # "new" /\ ~conn[k].bye
       /\ conn' = [conn EXCEPT ![k].said = said, ![k].bye = bye]
       /\ conn[k].sid \in said => conn[k].sid \in conn[k].said
       /\ Go(j) \/ UNCHANGED job
       /\ JobShape(j, servMap, users)
       /\ j.from = conn[k].sid /\ (j.pc = "squit" => bye \/ j.id \in conn[k].said)
       /\ j.pc \in {"squit", "sid", "uid", "quit", "ping"} /\ (j.pc = "quit" => j.id \in quitters')
       /\ UNCHANGED <<servers, people, client, sid2conn, view, toServer, toClient, loop>>

\* What a new goroutine of one of these kinds is given.
Given(pc, from, link, id) ==
    /\ pc \in {"line", "squit", "sid", "uid", "quit", "ping"}
    /\ from \in SID \cup {NoSID} /\ link \in SID \cup {NoSID} /\ id \in Id
    /\ pc = "line" => from \in SID /\ id \in Line
    /\ pc = "squit" => id \in SID
    /\ pc = "sid" => link \in SID /\ id \in SID
    /\ pc = "uid" => id \in RemoteUID
    /\ pc = "quit" => id \in UID
    /\ pc = "ping" => id \in SID \cup {Me}

LEMMA NewJobOK ==
    ASSUME NEW pc, NEW from, NEW link, NEW id, Given(pc, from, link, id)
    PROVE  /\ NewJob(pc, from, link, id) \in Job
           /\ JobShape(NewJob(pc, from, link, id), servMap, users)
           /\ NewJob(pc, from, link, id).pc = pc /\ NewJob(pc, from, link, id).id = id
           /\ NewJob(pc, from, link, id).from = from
<1>1. NewJob(pc, from, link, id) \in Job
  BY DEF Given, NewJob, Job, JobPC, Id
<1> QED
  BY <1>1 DEF Given, NewJob, JobShape

LEMMA Saying ==
    ASSUME LinksOK, NEW k \in Conn, Receive(k)
    PROVE  Said(k) /\ quitters \subseteq quitters' /\ quitters' \subseteq quitters \cup RemoteUID
<1>1. /\ conn[k].said \subseteq SID \cup RemoteUID /\ conn[k].sid \in SID \cup {NoSID}
      /\ conn[k].greeted => conn[k].sid \in SID /\ conn[k].pc # "new"
  BY DEF LinksOK, ConnRec
<1>2. ASSUME NEW said \in SUBSET (SID \cup RemoteUID), NEW bye \in BOOLEAN,
             NEW pc \in {"squit", "sid", "uid", "quit", "ping"},
             NEW link \in SID \cup {NoSID}, NEW id \in Id,
             pc = "squit" => id \in SID, pc = "sid" => link \in SID /\ id \in SID,
             pc = "uid" => id \in RemoteUID, pc = "quit" => id \in UID /\ id \in quitters',
             pc = "ping" => id \in SID \cup {Me},
             conn[k].sid \in said => conn[k].sid \in conn[k].said,
             pc = "squit" => bye \/ id \in conn[k].said,
             conn[k].greeted, ~conn[k].bye, Says(k, said, bye, pc, link, id)
      PROVE  Said(k)
  <2> DEFINE j == NewJob(pc, conn[k].sid, link, id)
  <2>1. j \in Job /\ JobShape(j, servMap, users) /\ j.pc = pc /\ j.id = id /\ j.from = conn[k].sid
    <3>1. Given(pc, conn[k].sid, link, id)
      BY <1>1, <1>2 DEF Given
    <3>2. NewJob(pc, conn[k].sid, link, id) \in Job
      BY <3>1, NewJobOK
    <3>3. JobShape(NewJob(pc, conn[k].sid, link, id), servMap, users)
      BY <3>1, NewJobOK
    <3> QED
      BY <3>1, <3>2, <3>3, NewJobOK
  <2>2. Go(j) \/ UNCHANGED job
    BY <1>2, Zenon DEF Says, Dispatch
  <2>3. /\ conn[k].pc # "new" /\ ~conn[k].bye
        /\ conn' = [conn EXCEPT ![k].said = said, ![k].bye = bye]
        /\ UNCHANGED <<servers, people, client, sid2conn, view, toServer, toClient, loop>>
    BY <1>1, <1>2, Zenon DEF Says
  <2>4. /\ j.pc \in {"squit", "sid", "uid", "quit", "ping"} /\ (j.pc = "quit" => j.id \in quitters')
        /\ j.pc = "squit" => bye \/ j.id \in conn[k].said
    BY <1>2, <2>1, Zenon
  <2> HIDE DEF j
  <2> QED
    BY <1>2, <2>1, <2>2, <2>3, <2>4, Zenon DEF Said
<1>3. ASSUME NEW sid \in SID, ReceiveSQuit(k, sid)
      PROVE  Said(k)
  BY <1>1, <1>2, <1>3 DEF ReceiveSQuit, MaySay, Id
<1>4. ASSUME NEW link \in SID, NEW sid \in SID, ReceiveSid(k, link, sid)
      PROVE  Said(k)
  BY <1>1, <1>2, <1>4 DEF ReceiveSid, MaySay, Id, Known
<1>5. ASSUME NEW uid \in RemoteUID, ReceiveUid(k, uid)
      PROVE  Said(k)
  BY <1>1, <1>2, <1>5 DEF ReceiveUid, MaySay, Id, UID, Known
<1>6. ASSUME NEW uid \in RemoteUID, ReceiveQuit(k, uid)
      PROVE  Said(k)
  BY <1>1, <1>2, <1>6 DEF ReceiveQuit, MaySay, Id, UID
<1>7. ASSUME NEW target \in SID \cup {Me}, ReceiveFarewell(k, target)
      PROVE  Said(k)
  BY <1>1, <1>2, <1>7 DEF ReceiveFarewell, MaySay, Id
<1>8. ASSUME NEW target \in SID \cup {Me}, ReceivePing(k, target)
      PROVE  Said(k)
  BY <1>1, <1>2, <1>8 DEF ReceivePing, MaySay, Id
<1>9. quitters \subseteq quitters' /\ quitters' \subseteq quitters \cup RemoteUID
  BY DEF Receive, ReceiveSQuit, ReceiveSid, ReceiveUid, ReceiveQuit, ReceiveFarewell, ReceivePing
<1> QED
  BY <1>3, <1>4, <1>5, <1>6, <1>7, <1>8, <1>9, Zenon DEF Receive

LEMMA ConnSet ==
    ASSUME NEW c \in [Conn -> ConnRec], NEW k \in Conn
    PROVE  /\ \A v \in {"new", "on", "lost", "dead", "closed"} : [c EXCEPT ![k].pc = v] \in [Conn -> ConnRec]
           /\ \A v \in BOOLEAN : /\ [c EXCEPT ![k].bye = v] \in [Conn -> ConnRec]
                                /\ [c EXCEPT ![k].greeted = v] \in [Conn -> ConnRec]
           /\ \A v \in SUBSET (SID \cup RemoteUID) : [c EXCEPT ![k].said = v] \in [Conn -> ConnRec]
<1>1. /\ \A v \in {"new", "on", "lost", "dead", "closed"} : [c[k] EXCEPT !.pc = v] \in ConnRec
      /\ \A v \in BOOLEAN : [c[k] EXCEPT !.bye = v] \in ConnRec /\ [c[k] EXCEPT !.greeted = v] \in ConnRec
      /\ \A v \in SUBSET (SID \cup RemoteUID) : [c[k] EXCEPT !.said = v] \in ConnRec
  BY DEF ConnRec
<1> QED
  BY <1>1

LEMMA LinksStep ==
    ASSUME LinksOK, PeopleOK, QueuesOK, Step
    PROVE  LinksOK'
<1> USE DEF LinksOK
<1>1. ASSUME NEW k \in Conn, Receive(k)
      PROVE  LinksOK'
  <2>0. Said(k)
    BY <1>1, Saying
  <2>1. PICK said \in SUBSET (SID \cup RemoteUID), bye \in BOOLEAN :
              conn' = [conn EXCEPT ![k].said = said, ![k].bye = bye]
    BY <2>0 DEF Said
  <2>2. UNCHANGED <<sid2conn, view>>
    BY <2>0 DEF Said
  <2>3. conn' \in [Conn -> ConnRec]
    <3>1. [conn EXCEPT ![k].said = said] \in [Conn -> ConnRec]
      BY ConnSet
    <3>2. [[conn EXCEPT ![k].said = said] EXCEPT ![k].bye = bye] \in [Conn -> ConnRec]
      BY <3>1, ConnSet
    <3> QED
      BY <2>1, <3>2
  <2>4. \A x \in Conn : /\ conn'[x].pc = conn[x].pc /\ conn'[x].sid = conn[x].sid
                        /\ conn'[x].greeted = conn[x].greeted
    BY <2>1 DEF ConnRec
  <2> QED
    BY <2>2, <2>3, <2>4
<1>2. ASSUME NEW k \in Conn, PeerLeaves(k)
      PROVE  LinksOK'
  <2>1. conn' = [conn EXCEPT ![k].pc = "lost"] /\ UNCHANGED <<sid2conn, view>> /\ conn[k].pc = "on"
    BY <1>2 DEF PeerLeaves
  <2>2. conn' \in [Conn -> ConnRec]
    BY <2>1, ConnSet
  <2>3. \A x \in Conn : /\ conn'[x].pc = (IF x = k THEN "lost" ELSE conn[x].pc)
                        /\ conn'[x].sid = conn[x].sid /\ conn'[x].greeted = conn[x].greeted
    BY <2>1 DEF ConnRec
  <2> QED
    BY <2>1, <2>2, <2>3
<1>3. ASSUME NEW k \in Conn, LinkClosed(k)
      PROVE  LinksOK'
  <2> DEFINE s == conn[k].sid
  <2>1. /\ conn' = [conn EXCEPT ![k].pc = "closed"] /\ sid2conn' = [sid2conn EXCEPT ![s] = NilConn]
        /\ UNCHANGED view /\ conn[k].pc = "lost"
    BY <1>3 DEF LinkClosed
  <2>2. conn' \in [Conn -> ConnRec]
    BY <2>1, ConnSet
  <2>3. \A x \in Conn : /\ conn'[x].pc = (IF x = k THEN "closed" ELSE conn[x].pc)
                        /\ conn'[x].sid = conn[x].sid /\ conn'[x].greeted = conn[x].greeted
    BY <2>1 DEF ConnRec
  <2> QED
    BY <2>1, <2>2, <2>3, LinksAssumption
<1>4. ASSUME NEW k \in Conn, ReceiveError(k)
      PROVE  LinksOK'
  <2> DEFINE s == conn[k].sid
             entry == sid2conn[s]
  <2>1. s \in SID /\ entry \in Conn \cup {NilConn} /\ conn[k].pc # "new" /\ UNCHANGED view
    BY <1>4 DEF ReceiveError
  <2>2. CASE entry = NilConn
    <3>1. conn' = [conn EXCEPT ![k].bye = TRUE] /\ sid2conn' = sid2conn
      BY <1>4, <2>2 DEF ReceiveError
    <3>2. conn' \in [Conn -> ConnRec]
      BY <3>1, ConnSet
    <3>3. \A x \in Conn : /\ conn'[x].pc = conn[x].pc /\ conn'[x].sid = conn[x].sid
                          /\ conn'[x].greeted = conn[x].greeted
      BY <2>1, <3>1 DEF ConnRec
    <3> QED
      BY <2>1, <3>1, <3>2, <3>3
  <2>3. CASE entry # NilConn
    <3>0. PICK pc \in {"closed", "lost"} : conn' = [conn EXCEPT ![k].bye = TRUE, ![entry].pc = pc]
      BY <1>4, <2>3 DEF ReceiveError
    <3>1. sid2conn' = [sid2conn EXCEPT ![s] = NilConn]
      BY <1>4, <2>3, Zenon DEF ReceiveError
    <3>2. conn' \in [Conn -> ConnRec]
      <4>1. [conn EXCEPT ![k].bye = TRUE] \in [Conn -> ConnRec]
        BY ConnSet
      <4>2. \A c \in [Conn -> ConnRec] : [c EXCEPT ![entry].pc = pc] \in [Conn -> ConnRec]
        BY <2>1, <2>3, ConnSet
      <4> QED
        BY <3>0, <4>1, <4>2
    <3>3. \A x \in Conn : /\ conn'[x].pc = (IF x = entry THEN pc ELSE conn[x].pc)
                          /\ conn'[x].sid = conn[x].sid /\ conn'[x].greeted = conn[x].greeted
      BY <2>1, <2>3, <3>0 DEF ConnRec
    <3>4. conn[entry].sid = s /\ conn[entry].pc # "new"
      BY <2>1, <2>3
    <3> HIDE DEF s, entry
    <3> QED
      <4>1. sid2conn' \in [SID -> Conn \cup {NoConn, NilConn}]
        BY <2>1, <3>1
      <4>2. \A x \in SID : sid2conn'[x] \in Conn =>
              conn'[sid2conn'[x]].sid = x /\ conn'[sid2conn'[x]].pc \in {"on", "lost", "dead"}
        <5> SUFFICES ASSUME NEW x \in SID, sid2conn'[x] \in Conn
                     PROVE  conn'[sid2conn'[x]].sid = x /\ conn'[sid2conn'[x]].pc \in {"on", "lost", "dead"}
          OBVIOUS
        <5>1. x # s /\ sid2conn'[x] = sid2conn[x]
          BY <2>1, <3>1, LinksAssumption
        <5>2. conn[sid2conn[x]].sid = x /\ conn[sid2conn[x]].pc \in {"on", "lost", "dead"}
          BY <5>1
        <5> QED
          BY <3>3, <3>4, <5>1, <5>2
      <4>3. \A x \in Conn : conn'[x].pc # "new" =>
              conn'[x].sid \in SID /\ sid2conn'[conn'[x].sid] # NoConn
        <5> SUFFICES ASSUME NEW x \in Conn, conn'[x].pc # "new"
                     PROVE  conn'[x].sid \in SID /\ sid2conn'[conn'[x].sid] # NoConn
          OBVIOUS
        <5>1. conn[x].pc # "new" /\ conn'[x].sid = conn[x].sid
          BY <3>3, <3>4
        <5>2. conn[x].sid \in SID /\ sid2conn[conn[x].sid] # NoConn
          BY <5>1
        <5> QED
          BY <2>1, <3>1, <5>1, <5>2, LinksAssumption
      <4>4. \A x \in Conn : conn'[x].greeted => conn'[x].pc # "new"
        BY <2>1, <3>3
      <4> QED
        BY <2>1, <3>2, <4>1, <4>2, <4>3, <4>4
  <2> QED
    BY <2>2, <2>3
<1>5. ASSUME NEW k \in Conn, NEW line \in Line, ReceiveLine(k, line)
      PROVE  LinksOK'
  <2>1. conn' = [conn EXCEPT ![k].lines = @ \ {line}] /\ UNCHANGED <<sid2conn, view>>
    BY <1>5 DEF ReceiveLine
  <2>2. [conn[k] EXCEPT !.lines = @ \ {line}] \in ConnRec
    BY DEF ConnRec
  <2>4. conn' \in [Conn -> ConnRec]
    BY <2>1, <2>2
  <2>3. \A x \in Conn : /\ conn'[x].pc = conn[x].pc /\ conn'[x].sid = conn[x].sid
                        /\ conn'[x].greeted = conn[x].greeted
    BY <2>1 DEF ConnRec
  <2> QED
    BY <2>1, <2>3, <2>4
<1>6. ASSUME NEW k \in Conn, NEW sid \in SID, Adopt(k, sid)
      PROVE  LinksOK'
  <2>1. /\ conn[k].pc = "new" /\ UNCHANGED view
        /\ sid2conn' = [sid2conn EXCEPT ![sid] = k]
    BY <1>6 DEF Adopt
  <2>0. PICK pc \in {"on", "dead"} : conn' = [conn EXCEPT ![k] = HandOver(sid, pc)]
    BY <1>6 DEF Adopt
  <2>2. /\ HandOver(sid, pc) \in ConnRec
        /\ HandOver(sid, pc).pc = pc /\ HandOver(sid, pc).sid = sid
        /\ HandOver(sid, pc).greeted = FALSE
    BY DEF HandOver, NewConn, ConnRec
  <2>3. \A s \in SID : sid2conn[s] # k
    BY <2>1
  <2> QED
    BY <2>0, <2>1, <2>2, <2>3, LinksAssumption
<1>7. ASSUME Write
      PROVE  LinksOK'
  <2>1. CASE UNCHANGED <<conn, view>>
    BY <1>7, <2>1 DEF Write
  <2>2. ASSUME NEW entry \in Conn, NEW m \in ServerMsg, entry = Entry(m.to),
               conn' = (IF m.cmd = "SERVER" THEN [conn EXCEPT ![entry].greeted = TRUE] ELSE conn),
               view' = [view EXCEPT ![entry] = IF m.cmd = "UID" THEN @ \cup ({m.id} \cap LocalUID)
                                               ELSE IF m.cmd = "QUIT" THEN @ \ {m.id} ELSE @]
        PROVE  LinksOK'
    <3>1. sid2conn' = sid2conn
      BY <1>7 DEF Write
    <3>2. view' \in [Conn -> SUBSET LocalUID]
      BY <2>2
    <3>3. conn[entry].pc # "new"
      <4>1. m.to # NoSID /\ sid2conn[m.to] \in Conn
        BY <2>2, LinksAssumption DEF Entry
      <4>2. m.to \in SID
        BY <4>1, <2>2 DEF ServerMsg
      <4> QED
        BY <2>2, <4>1, <4>2 DEF Entry
    <3>4. \A x \in Conn : /\ conn'[x].pc = conn[x].pc /\ conn'[x].sid = conn[x].sid
                          /\ conn'[x].greeted => (conn[x].greeted \/ x = entry)
      BY <2>2 DEF ConnRec
    <3>5. conn' \in [Conn -> ConnRec]
      <4>1. [conn EXCEPT ![entry].greeted = TRUE] \in [Conn -> ConnRec]
        BY ConnSet
      <4> QED
        BY <2>2, <4>1
    <3> QED
      BY <3>1, <3>2, <3>3, <3>4, <3>5
  <2>3. Head(toServer) \in ServerMsg
    BY <1>7 DEF Write, QueuesOK
  <2> QED
    BY <1>7, <2>1, <2>2, <2>3, Zenon DEF Write
<1>8. ASSUME UNCHANGED links
      PROVE  LinksOK'
  BY <1>8 DEF links
<1> QED
  BY <1>1, <1>2, <1>3, <1>4, <1>5, <1>6, <1>7, <1>8, LinkMoves, Zenon

-----------------------------------------------------------------------------
(* The goroutines and the channels. *)

\* A walk that ends, ends at a server.
LEMMA LinkOfServer ==
    ASSUME TableOK, NEW s \in SID, Tree!WalkEnds(upstream, s)
    PROVE  Tree!LinkOf(s) \in SID
<1> DEFINE S == Tree!Chain(upstream, s)
<1>1. upstream \in [SID -> SID \cup {NoSID}]
  BY DEF TableOK, TreeFacts!IInv, TreeFacts!TypeOK
<1>2. S \in SUBSET SID /\ s \in S
  BY DEF Tree!Chain
<1>3. \A y \in S : upstream[y] \in S \cup {NoSID}
  BY <1>1, <1>2 DEF Tree!Chain
<1>4. PICK r \in S : upstream[r] \notin S
  BY <1>2 DEF Tree!WalkEnds
<1>5. upstream[r] = NoSID
  BY <1>3, <1>4
<1> QED
  BY <1>2, <1>4, <1>5, Zenon DEF Tree!LinkOf

\* A job that is kept, a new one, or one that goes on, while no record goes.
Becomes == \E g \in Goroutine, j \in Job : Become(g, j) /\ JobShape(j, servMap', users')

LEMMA JobGoesOn ==
    ASSUME JobsOK, servMap \subseteq servMap', users \subseteq users', Becomes \/ UNCHANGED job
    PROVE  JobsOK'
<1>1. \A j : JobShape(j, servMap, users) => JobShape(j, servMap', users')
  BY DEF JobShape
<1>2. CASE UNCHANGED job
  BY <1>1, <1>2 DEF JobsOK
<1>3. CASE Becomes
  <2>1. PICK g \in Goroutine, j \in Job : Become(g, j) /\ JobShape(j, servMap', users')
    BY <1>3 DEF Becomes
  <2>2. job' \in [Goroutine -> Job]
    BY <2>1 DEF Become, JobsOK
  <2>3. \A h \in Goroutine : job'[h] = IF h = g THEN j ELSE job[h]
    BY <2>1 DEF Become, JobsOK
  <2> QED
    BY <1>1, <2>1, <2>2, <2>3 DEF JobsOK
<1> QED
  BY <1>2, <1>3

LEMMA JobSet ==
    ASSUME NEW j \in Job, NEW pc \in JobPC, NEW todo \in SUBSET (SID \cup UID)
    PROVE  /\ [j EXCEPT !.pc = pc] \in Job
           /\ [j EXCEPT !.todo = todo] \in Job
           /\ [j EXCEPT !.pc = pc, !.todo = todo] \in Job
           /\ \A r \in {"live", "full", "part"} : [j EXCEPT !.rec = r] \in Job
BY DEF Job

LEMMA NoJobOK == NoJob \in Job /\ \A known, persons : JobShape(NoJob, known, persons)
<1>1. NoJob \in Job
  BY DEF NoJob, NewJob, Job, JobPC
<1> QED
  BY <1>1 DEF NoJob, NewJob, JobShape

LEMMA SendJobs ==
    ASSUME TableOK, PeopleOK, JobsOK, NEW g \in Goroutine, Send(g)
    PROVE  Becomes
<1> DEFINE j == job[g]
<1>0. j \in Job /\ JobShape(j, servMap, users) /\ UNCHANGED <<servMap, users>>
  <2>1. UNCHANGED <<servers, people>>
    BY Zenon DEF Send, ConnRegInfo, Greet, BurstBegin, BurstTell, Refuse, SPing, Begin, Spread,
                 SplitError, UserSplit, AskClientLoop
  <2> QED
    BY <2>1 DEF JobsOK, servers, tree, people
<1>1. Become(g, NoJob) => Becomes
  BY NoJobOK, Zenon DEF Becomes
<1>2. Tree!ServerIter \in SUBSET (SID \cup UID) /\ Tree!ServerIter \subseteq SID
  BY TableTypes DEF Tree!ServerIter
<1>3. ASSUME NEW n \in Job, JobShape(n, servMap, users), Become(g, n)
      PROVE  Becomes
  BY <1>0, <1>3 DEF Becomes
<1>4. j.todo \in SUBSET (SID \cup UID) /\ users \in SUBSET (SID \cup UID)
  BY <1>0 DEF Job, PeopleOK
<1>5. CASE ConnRegInfo(g)
  <2> DEFINE n == [j EXCEPT !.pc = "introduce", !.todo = Tree!ServerIter]
  <2>1. n \in Job
    BY <1>0, <1>2, JobSet DEF JobPC
  <2>2. JobShape(n, servMap, users)
    BY <1>0, <1>2, <1>5 DEF ConnRegInfo, JobShape, Job
  <2> QED
    BY <1>1, <1>3, <1>5, <2>1, <2>2, Zenon DEF ConnRegInfo
<1>6. CASE Greet(g)
  <2> DEFINE n == [j EXCEPT !.pc = "users"]
  <2>1. n \in Job
    BY <1>0, JobSet DEF JobPC
  <2>2. JobShape(n, servMap, users)
    BY <1>0 DEF JobShape, Job
  <2> QED
    BY <1>3, <1>6, <2>1, <2>2, Zenon DEF Greet
<1>7. CASE BurstBegin(g)
  <2> DEFINE n == [j EXCEPT !.pc = "burst", !.todo = users]
  <2>1. n \in Job
    BY <1>0, <1>4, JobSet DEF JobPC
  <2>2. JobShape(n, servMap, users)
    BY <1>0 DEF JobShape, Job, PeopleOK
  <2> QED
    BY <1>1, <1>3, <1>7, <2>1, <2>2, Zenon DEF BurstBegin
<1>8. CASE BurstTell(g)
  <2> DEFINE n == [j EXCEPT !.pc = "burst"]
  <2>1. n \in Job
    BY <1>0, JobSet DEF JobPC
  <2>2. JobShape(n, servMap, users)
    BY <1>0, <1>8 DEF JobShape, Job, BurstTell
  <2> QED
    BY <1>1, <1>3, <1>8, <2>1, <2>2, Zenon DEF BurstTell
<1>9. CASE Refuse(g) \/ AskClientLoop(g)
  BY <1>1, <1>9, Zenon DEF Refuse, AskClientLoop
<1>10. CASE SPing(g)
  <2> DEFINE out == Tree!RouteFor({j.id}, NoSID)
             n == [j EXCEPT !.pc = "route", !.todo = out]
  <2>1. CASE j.id = Me
    BY <1>1, <1>10, <2>1, Zenon DEF SPing
  <2>2. CASE j.id # Me
    <3>1. j.id \in SID
      BY <1>0, <1>10, <2>2 DEF SPing, JobShape
    <3>2. out \subseteq SID
      BY <3>1, LinkOfServer DEF Tree!RouteFor
    <3>3. n \in Job /\ JobShape(n, servMap, users)
      <4> HIDE DEF out
      <4>1. out \in SUBSET (SID \cup UID)
        BY <3>2
      <4>2. n \in Job
        BY <1>0, <4>1, JobSet DEF JobPC
      <4>3. JobShape(n, servMap, users)
        BY <1>0, <3>2 DEF JobShape, Job
      <4> QED
        BY <4>2, <4>3
    <3> QED
      BY <1>1, <1>3, <1>10, <2>2, <3>3, Zenon DEF SPing
  <2> QED
    BY <2>1, <2>2
<1>11. CASE Begin(g)
  <2> DEFINE n == [j EXCEPT !.pc = Begun[@], !.todo = Tree!ServerIter \ {j.from}]
  <2>1. j.pc \in {"squit", "quit", "user"} /\ Become(g, n)
    BY <1>11 DEF Begin, Begun
  <2>2. Tree!ServerIter \ {j.from} \in SUBSET (SID \cup UID)
    BY <1>2
  <2>3. n \in Job
    <3>1. n = [j EXCEPT !.pc = Begun[j.pc], !.todo = Tree!ServerIter \ {j.from}]
      BY <1>0 DEF Job
    <3>2. Begun[j.pc] \in JobPC
      BY <2>1 DEF JobPC, Begun
    <3> QED
      BY <1>0, <2>2, <3>1, <3>2, JobSet
  <2>4. JobShape(n, servMap, users)
    BY <1>0, <1>2, <2>1 DEF JobShape, Begun, Job
  <2> QED
    BY <1>3, <2>1, <2>3, <2>4, Zenon
<1>12. CASE Spread(g)
  <2>1. CASE j.pc = "route"
    BY <1>1, <1>12, <2>1 DEF Spread
  <2>2. CASE j.pc # "route"
    <3>1. PICK s \in j.todo : Become(g, [j EXCEPT !.todo = @ \ {s}])
      BY <1>12, <2>2 DEF Spread
    <3>2. j.todo \ {s} \in SUBSET (SID \cup UID)
      BY <1>4
    <3>3. [j EXCEPT !.todo = @ \ {s}] \in Job
      <4>1. [j EXCEPT !.todo = @ \ {s}] = [j EXCEPT !.todo = j.todo \ {s}]
        BY <1>0 DEF Job
      <4> QED
        BY <1>0, <3>2, <4>1, JobSet DEF Job
    <3>4. j.pc \in {"introduce", "forward", "quitting", "announce"}
      BY <1>12, <2>2 DEF Spread, Command
    <3>5. JobShape([j EXCEPT !.todo = @ \ {s}], servMap, users)
      BY <1>0, <3>4 DEF JobShape, Job
    <3> QED
      BY <1>3, <3>1, <3>3, <3>5, Zenon
  <2> QED
    BY <2>1, <2>2
<1>13. CASE SplitError(g)
  <2> DEFINE n == [j EXCEPT !.pc = "unlink"]
  <2>1. n \in Job
    BY <1>0, JobSet DEF JobPC
  <2>2. JobShape(n, servMap, users)
    BY <1>0, <1>13 DEF JobShape, Job, SplitError
  <2> QED
    BY <1>3, <1>13, <2>1, <2>2, Zenon DEF SplitError
<1>14. CASE UserSplit(g)
  <2> DEFINE peers == {u \in users \cap RemoteUID : ServerOf[u] \in j.todo}
             n == [j EXCEPT !.pc = "delete", !.todo = peers]
  <2>1. peers \in SUBSET (SID \cup UID) /\ peers \subseteq RemoteUID
    BY DEF UID
  <2>2. n \in Job /\ JobShape(n, servMap, users)
    <3> HIDE DEF peers
    <3>1. n \in Job
      BY <1>0, <2>1, JobSet DEF JobPC
    <3>2. JobShape(n, servMap, users)
      BY <1>0, <2>1 DEF JobShape, Job
    <3> QED
      BY <3>1, <3>2
  <2> QED
    BY <1>1, <1>3, <1>14, <2>2, Zenon DEF UserSplit
<1> QED
  BY <1>5, <1>6, <1>7, <1>8, <1>9, <1>10, <1>11, <1>12, <1>13, <1>14, Zenon DEF Send

\* The steps of a goroutine that add to a table.
LEMMA AddJobs ==
    ASSUME TableOK, PeopleOK, JobsOK, NEW g \in Goroutine,
           ConnRegLine(g) \/ SignOn(g) \/ Sid(g) \/ Import(g) \/ UserSignOn(g)
             \/ \E u \in UID : BurstUser(g, u)
    PROVE  Becomes /\ servMap \subseteq servMap' /\ users \subseteq users'
<1> DEFINE j == job[g]
<1>0. j \in Job /\ JobShape(j, servMap, users)
  BY DEF JobsOK
<1>1. Become(g, NoJob) => Becomes
  BY NoJobOK, Zenon DEF Becomes
<1>2. ASSUME NEW n \in Job, JobShape(n, servMap', users'), Become(g, n)
      PROVE  Becomes
  BY <1>0, <1>2 DEF Becomes
<1>3. \A pc \in {"greet", "refuse"} : /\ [j EXCEPT !.pc = pc] \in Job
                                      /\ JobShape([j EXCEPT !.pc = pc], servMap', users')
  <2> SUFFICES ASSUME NEW pc \in {"greet", "refuse"}
               PROVE  /\ [j EXCEPT !.pc = pc] \in Job
                      /\ JobShape([j EXCEPT !.pc = pc], servMap', users')
    OBVIOUS
  <2>1. [j EXCEPT !.pc = pc] \in Job
    BY <1>0, JobSet DEF JobPC
  <2>2. JobShape([j EXCEPT !.pc = pc], servMap', users')
    BY <1>0 DEF JobShape, Job
  <2> QED
    BY <2>1, <2>2
<1>4. CASE ConnRegLine(g)
  <2> DEFINE n == [j EXCEPT !.pc = "info"]
  <2>1. /\ servMap' = servMap \cup {j.from} /\ users' = users
        /\ Become(g, n) \/ Become(g, [j EXCEPT !.pc = "refuse"])
    BY <1>4 DEF ConnRegLine, GetServer, Tree!GetServer, tree, people
  <2>2. n \in Job
    BY <1>0, JobSet DEF JobPC
  <2>3. JobShape(n, servMap', users')
    BY <1>0, <1>4, <2>1 DEF JobShape, Job, ConnRegLine
  <2> QED
    BY <1>2, <1>3, <2>1, <2>2, <2>3
<1>5. CASE SignOn(g)
  <2>1. servMap' = servMap /\ users' = users /\ Become(g, [j EXCEPT !.pc = "greet"])
    BY <1>5 DEF SignOn, tree, people
  <2> QED
    BY <1>2, <1>3, <2>1
<1>6. CASE Sid(g)
  <2>1. servMap \subseteq servMap' /\ users' = users
    BY <1>6 DEF Sid, Tree!LinkServer, tree, people
  <2>2. Become(g, NoJob) \/ Become(g, [j EXCEPT !.pc = "refuse"])
    BY <1>6, Zenon DEF Sid
  <2> QED
    BY <1>1, <1>2, <1>3, <2>1, <2>2
<1>7. CASE Import(g)
  <2>1. servMap' = servMap /\ users \subseteq users'
    BY <1>7 DEF Import, servers, tree, people
  <2>2. Become(g, NoJob) \/ Become(g, [j EXCEPT !.pc = "refuse"])
    BY <1>7, Zenon DEF Import
  <2> QED
    BY <1>1, <1>2, <1>3, <2>1, <2>2
<1>8. CASE UserSignOn(g)
  <2> DEFINE n == [j EXCEPT !.pc = "welcome"]
  <2>1. servMap' = servMap /\ users' = users /\ j.pc = "announce" /\ Become(g, n)
    BY <1>8 DEF UserSignOn, servers, tree
  <2>2. n \in Job
    BY <1>0, JobSet DEF JobPC
  <2>3. JobShape(n, servMap', users')
    BY <1>0, <2>1 DEF JobShape, Job
  <2> QED
    BY <1>2, <2>1, <2>2, <2>3
<1>9. ASSUME NEW u \in UID, BurstUser(g, u)
      PROVE  Becomes /\ servMap \subseteq servMap' /\ users \subseteq users'
  <2> DEFINE rest == [j EXCEPT !.todo = @ \ {u}]
             n == [rest EXCEPT !.pc = "tell", !.id = u]
  <2>1. /\ servMap' = servMap /\ users \subseteq users' /\ j.pc = "burst"
        /\ Become(g, n) \/ Become(g, rest) \/ Become(g, NoJob)
    BY <1>9 DEF BurstUser, servers, tree
  <2>2. /\ rest = [j EXCEPT !.todo = j.todo \ {u}]
        /\ j.todo \ {u} \in SUBSET (SID \cup UID) /\ j.todo \ {u} \subseteq UID
    BY <1>0, <2>1 DEF Job, JobShape
  <2>3. rest \in Job
    <3>1. [j EXCEPT !.todo = j.todo \ {u}] \in Job
      BY <1>0, <2>2, JobSet DEF Job
    <3> HIDE DEF rest
    <3> QED
      BY <2>2, <3>1
  <2>4. rest.pc = "burst" /\ rest.todo \subseteq UID
    BY <1>0, <2>1, <2>2 DEF Job
  <2> HIDE DEF rest
  <2>5. JobShape(rest, servMap', users')
    BY <2>4 DEF JobShape
  <2>6. n \in Job
    BY <2>3 DEF Job, JobPC
  <2>7. JobShape(n, servMap', users')
    BY <2>3, <2>4 DEF JobShape, Job
  <2> QED
    BY <1>1, <1>2, <2>1, <2>3, <2>5, <2>6, <2>7
<1> QED
  BY <1>4, <1>5, <1>6, <1>7, <1>8, <1>9

\* A server, or a user, goes: who holds its record keeps it.
LEMMA UnlinkJobs ==
    ASSUME TableOK, PeopleOK, JobsOK, NEW g \in Goroutine, Unlink(g)
    PROVE  JobsOK'
<1> DEFINE gone == Gone(job[g].id)
           full(h) == [job[h] EXCEPT !.rec = IF fields[job[h].from] = Line THEN "full" ELSE "part"]
           drops(h) == HoldsRecord(h) /\ job[h].rec = "live" /\ job[h].from \in gone
           n == IF gone = {} THEN NoJob ELSE [job[g] EXCEPT !.pc = "split", !.todo = gone]
<1>1. /\ servMap' = servMap \ gone /\ users' = users /\ gone \subseteq SID
      /\ job' = [h \in Goroutine |-> IF h = g THEN n ELSE IF drops(h) THEN full(h) ELSE job[h]]
  <2>1. gone \subseteq servMap
    BY DEF Gone, Tree!LinkedTo
  <2>2. servMap' = servMap \ gone /\ users' = users
    BY <2>1 DEF Unlink, Tree!Unlink, Gone, people, tree
  <2> QED
    BY <2>1, <2>2, TableTypes DEF Unlink
<1>2. n \in Job /\ JobShape(n, servMap', users')
  <2> HIDE DEF gone
  <2>1. gone \in SUBSET (SID \cup UID) /\ job[g] \in Job
    BY <1>1 DEF JobsOK
  <2>2. [job[g] EXCEPT !.pc = "split", !.todo = gone] \in Job
    BY <2>1, JobSet DEF JobPC
  <2>3. JobShape([job[g] EXCEPT !.pc = "split", !.todo = gone], servMap', users')
    BY <1>1, <2>1 DEF JobShape, Job
  <2> QED
    BY <2>2, <2>3, NoJobOK
<1> HIDE DEF gone, n
<1>3. ASSUME NEW h \in Goroutine, drops(h)
      PROVE  full(h) \in Job /\ JobShape(full(h), servMap', users')
  <2>1. job[h] \in Job /\ JobShape(job[h], servMap, users) /\ job[h].pc \in {"info", "introduce"}
    BY <1>3 DEF JobsOK, HoldsRecord
  <2>2. full(h) \in Job
    BY <2>1 DEF Job
  <2>3. JobShape(full(h), servMap', users')
    BY <2>1 DEF JobShape, Job
  <2> QED
    BY <2>2, <2>3
<1>4. ASSUME NEW h \in Goroutine, ~drops(h)
      PROVE  job[h] \in Job /\ JobShape(job[h], servMap', users')
  BY <1>1, <1>4 DEF JobsOK, JobShape, HoldsRecord
<1> QED
  BY <1>1, <1>2, <1>3, <1>4 DEF JobsOK

LEMMA DropJobs ==
    ASSUME JobsOK, NEW uids, Delete(uids), DropRecord(uids), UNCHANGED servMap
    PROVE  JobsOK'
<1> DEFINE drops(g) == job[g].pc \in {"user", "announce"} /\ job[g].id \in uids
           full(g) == [job[g] EXCEPT !.rec = "full"]
<1>1. /\ users' = users \ uids
      /\ job' = [g \in Goroutine |-> IF drops(g) THEN full(g) ELSE job[g]]
  BY DEF Delete, DropRecord
<1>2. ASSUME NEW g \in Goroutine, drops(g)
      PROVE  full(g) \in Job /\ JobShape(full(g), servMap', users')
  <2>1. job[g] \in Job /\ JobShape(job[g], servMap, users)
    BY DEF JobsOK
  <2>2. full(g) \in Job
    BY <2>1 DEF Job
  <2>3. JobShape(full(g), servMap', users')
    BY <1>2, <2>1 DEF JobShape, Job
  <2> QED
    BY <2>2, <2>3
<1>3. ASSUME NEW g \in Goroutine, ~drops(g)
      PROVE  job[g] \in Job /\ JobShape(job[g], servMap', users')
  BY <1>1, <1>3 DEF JobsOK, JobShape
<1> QED
  BY <1>1, <1>2, <1>3 DEF JobsOK

LEMMA JobsStep ==
    ASSUME TableOK, PeopleOK, LinksOK, JobsOK, Step
    PROVE  JobsOK'
<1> DEFINE Grow == servMap \subseteq servMap' /\ users \subseteq users'
<1>0. ASSUME NEW j \in Job, JobShape(j, servMap', users'), Go(j)
      PROVE  Becomes
  BY <1>0 DEF Go, Becomes
<1>1. ASSUME NEW k \in Conn, Receive(k)
      PROVE  Grow /\ (Becomes \/ UNCHANGED job)
  <2>1. Said(k)
    BY <1>1, Saying
  <2>2. UNCHANGED <<servers, people>>
    BY <2>1, Zenon DEF Said
  <2>3. servMap' = servMap /\ users' = users
    BY <2>2 DEF servers, tree, people
  <2>4. PICK j \in Job : (Go(j) \/ UNCHANGED job) /\ JobShape(j, servMap, users)
    BY <2>1, Zenon DEF Said
  <2> QED
    BY <1>0, <2>3, <2>4
<1>2. ASSUME NEW k \in Conn, LinkClosed(k) \/ ReceiveError(k)
      PROVE  Grow /\ (Becomes \/ UNCHANGED job)
  <2> DEFINE s == conn[k].sid
             j == NewJob("squit", s, NoSID, s)
  <2>1. servMap' = servMap /\ users' = users
    BY <1>2 DEF LinkClosed, ReceiveError, servers, tree, people
  <2>2. s \in SID
    BY <1>2 DEF LinksOK, LinkClosed, ReceiveError
  <2>3. Given("squit", s, NoSID, s)
    BY <2>2 DEF Given, Id
  <2>4. NewJob("squit", s, NoSID, s) \in Job
    BY <2>3, NewJobOK
  <2>5. JobShape(NewJob("squit", s, NoSID, s), servMap, users)
    BY <2>3, NewJobOK
  <2>6. Go(j) \/ UNCHANGED job
    BY <1>2, Zenon DEF LinkClosed, ReceiveError, SplitLocal, Dispatch
  <2> HIDE DEF j
  <2>7. j \in Job /\ JobShape(j, servMap', users')
    BY <2>1, <2>4, <2>5 DEF j
  <2> QED
    BY <1>0, <2>1, <2>6, <2>7
<1>3. ASSUME NEW k \in Conn, NEW line \in Line, ReceiveLine(k, line)
      PROVE  Grow /\ (Becomes \/ UNCHANGED job)
  <2> DEFINE s == conn[k].sid
             j == NewJob("line", s, NoSID, line)
  <2>1. servMap' = servMap /\ users' = users
    BY <1>3 DEF ReceiveLine, servers, tree, people
  <2>2. UNCHANGED job \/ (Go(j) /\ s \in servMap)
    BY <1>3, Zenon DEF ReceiveLine
  <2>3. CASE s \in SID
    <3>1. Given("line", s, NoSID, line)
      BY <2>3 DEF Given, Id
    <3>2. NewJob("line", s, NoSID, line) \in Job
      BY <3>1, NewJobOK
    <3>3. JobShape(NewJob("line", s, NoSID, line), servMap, users)
      BY <3>1, NewJobOK
    <3> HIDE DEF j
    <3>4. j \in Job /\ JobShape(j, servMap', users')
      BY <2>1, <3>2, <3>3 DEF j
    <3> QED
      BY <1>0, <2>1, <2>2, <3>4
  <2> QED
    BY <2>1, <2>2, <2>3, TableTypes
<1>4. ASSUME NEW k \in Conn, PeerLeaves(k) \/ \E sid \in SID : Adopt(k, sid)
      PROVE  Grow /\ UNCHANGED job
  BY <1>4 DEF PeerLeaves, Adopt, GetServer, Tree!GetServer, servers, tree, people
<1>5. ASSUME Write
      PROVE  Grow /\ UNCHANGED job
  BY <1>5 DEF Write, servers, tree, people
<1>6. ASSUME NEW g \in Goroutine, Send(g)
      PROVE  Grow /\ Becomes
  <2>1. UNCHANGED <<servers, people>>
    BY <1>6, Zenon DEF Send, ConnRegInfo, Greet, BurstBegin, BurstTell, Refuse, SPing, Begin, Spread,
                 SplitError, UserSplit, AskClientLoop
  <2> QED
    BY <1>6, <2>1, SendJobs DEF servers, tree, people
<1>7. ASSUME NEW u \in LocalUID, Client(u)
      PROVE  JobsOK'
  <2> DEFINE Sent(pc) == Go(NewJob(pc, NoSID, NoSID, u)) /\ Grow
  <2>1. u \in Id /\ u \in UID
    BY DEF Id, UID
  <2>2. CASE ClientClosed(u)
    BY <2>2, DropJobs DEF ClientClosed, servers, tree
  <2>3. CASE ClientConnects(u)
    BY <2>3, JobGoesOn DEF ClientConnects, servers, tree
  <2>4. CASE ClientSignsOn(u)
    <3> DEFINE j == NewJob("user", NoSID, NoSID, u)
    <3>1. j \in Job /\ JobShape(j, servMap, users)
      BY <2>1, <2>4 DEF NewJob, Job, JobPC, JobShape, UID, ClientSignsOn, PeopleOK
    <3>2. servMap' = servMap /\ users' = users /\ Go(j)
      BY <2>4 DEF ClientSignsOn, servers, tree, people
    <3> HIDE DEF j
    <3> QED
      BY <1>0, <3>1, <3>2, JobGoesOn
  <2>5. CASE ClientQuits(u)
    <3> DEFINE j == NewJob("quit", NoSID, NoSID, u)
    <3>1. j \in Job /\ JobShape(j, servMap, users)
      BY <2>1, <2>5 DEF NewJob, Job, JobPC, JobShape, UID
    <3>2. servMap' = servMap /\ users' = users /\ Go(j)
      BY <2>5 DEF ClientQuits, servers, tree, people
    <3> HIDE DEF j
    <3> QED
      BY <1>0, <3>1, <3>2, JobGoesOn
  <2> QED
    BY <1>7, <2>2, <2>3, <2>4, <2>5 DEF Client
<1>8. ASSUME TakeClient
      PROVE  JobsOK'
  <2>1. UNCHANGED servMap
    BY <1>8 DEF TakeClient, servers, tree
  <2>2. CASE UNCHANGED <<people, client, job>>
    BY <2>1, <2>2, JobGoesOn DEF people
  <2>3. CASE \E uids : Delete(uids) /\ DropRecord(uids)
    BY <2>1, <2>3, DropJobs
  <2> QED
    BY <1>8, <2>2, <2>3, Zenon DEF TakeClient
<1>9. ASSUME NEW g \in Goroutine,
             ConnRegLine(g) \/ SignOn(g) \/ Sid(g) \/ Import(g) \/ UserSignOn(g)
               \/ \E u \in UID : BurstUser(g, u)
      PROVE  Becomes /\ Grow
  BY <1>9, AddJobs, Zenon
<1>10. ASSUME NEW g \in Goroutine, Unlink(g)
       PROVE  JobsOK'
  BY <1>10, UnlinkJobs
<1> QED
  BY <1>1, <1>2, <1>3, <1>4, <1>5, <1>6, <1>7, <1>8, <1>9, <1>10, JobGoesOn, Zenon
     DEF Step, Receive, Send, Client

LEMMA QueueMoves ==
    ASSUME Step
    PROVE  \/ Write
           \/ TakeClient
           \/ \E g \in Goroutine : Send(g)
           \/ UNCHANGED <<toServer, toClient>>
<1>1. ASSUME NEW k \in Conn, Receive(k)
      PROVE  UNCHANGED <<toServer, toClient>>
  BY <1>1, Zenon DEF Receive, ReceiveSQuit, ReceiveSid, ReceiveUid, ReceiveQuit, ReceiveFarewell,
                     ReceivePing, Says
<1>2. ASSUME NEW k \in Conn, PeerLeaves(k) \/ LinkClosed(k) \/ ReceiveError(k)
                             \/ (\E line \in Line : ReceiveLine(k, line))
                             \/ (\E sid \in SID : Adopt(k, sid))
      PROVE  UNCHANGED <<toServer, toClient>>
  BY <1>2, Zenon DEF PeerLeaves, LinkClosed, ReceiveError, ReceiveLine, Adopt
<1>3. ASSUME NEW g \in Goroutine, ConnRegLine(g) \/ SignOn(g) \/ Sid(g) \/ Unlink(g)
      PROVE  UNCHANGED <<toServer, toClient>>
  BY <1>3, Zenon DEF ConnRegLine, SignOn, Sid, Unlink
<1>4. ASSUME NEW g \in Goroutine, Import(g) \/ UserSignOn(g) \/ (\E u \in UID : BurstUser(g, u))
      PROVE  UNCHANGED <<toServer, toClient>>
  BY <1>4, Zenon DEF Import, UserSignOn, BurstUser
<1>5. ASSUME NEW u \in LocalUID, Client(u)
      PROVE  UNCHANGED <<toServer, toClient>>
  BY <1>5, Zenon DEF Client, ClientConnects, ClientSignsOn, ClientQuits, ClientClosed
<1> QED
  BY <1>1, <1>2, <1>3, <1>4, <1>5, Zenon DEF Step, Receive, Send, Client

\* What a goroutine sends, and where.
LEMMA Sending ==
    ASSUME JobsOK, NEW g \in Goroutine, Send(g)
    PROVE  \/ (\E m \in ServerMsg : Post(m)) /\ UNCHANGED toClient
           \/ (\E m \in ClientMsgs : PostClient(m)) /\ UNCHANGED toServer
           \/ UNCHANGED <<toServer, toClient>>
<1> DEFINE j == job[g]
<1>1. j \in Job /\ JobShape(j, servMap, users)
  BY DEF JobsOK
<1>2. j.from \in SID \cup {NoSID} /\ j.id \in Id
  BY <1>1 DEF Job, Id
<1>3. ASSUME NEW to \in SID \cup {NoSID}, NEW cmd \in ServerCmd, NEW id \in Id
      PROVE  Msg(to, cmd, id) \in ServerMsg
  BY DEF Msg, ServerMsg, ServerCmd
<1>4. Me \in Id /\ NoUID \in Id
  BY DEF Id
<1>5. CASE ConnRegInfo(g) \/ BurstBegin(g) \/ Begin(g) \/ UserSplit(g)
  BY <1>5, Zenon DEF ConnRegInfo, BurstBegin, Begin, UserSplit
<1>6. CASE Greet(g)
  <2>1. Msg(j.from, "SERVER", Me) \in ServerMsg
    BY <1>2, <1>3, <1>4 DEF ServerCmd
  <2> QED
    BY <1>6, <2>1, Zenon DEF Greet
<1>7. CASE BurstTell(g)
  <2>1. Msg(j.from, "UID", j.id) \in ServerMsg
    BY <1>2, <1>3 DEF ServerCmd
  <2> QED
    BY <1>7, <2>1, Zenon DEF BurstTell
<1>8. CASE Refuse(g)
  <2>1. \A cmd \in ServerCmd : Msg(j.from, cmd, NoUID) \in ServerMsg
    BY <1>2, <1>3, <1>4
  <2>2. (IF j.id \in Line THEN "ERROR" ELSE "SQUIT") \in ServerCmd
    BY DEF ServerCmd
  <2> QED
    BY <1>8, <2>1, <2>2, Zenon DEF Refuse
<1>9. CASE SPing(g)
  <2>1. Msg(j.from, "PONG", NoUID) \in ServerMsg
    BY <1>2, <1>3, <1>4 DEF ServerCmd
  <2> QED
    BY <1>9, <2>1, Zenon DEF SPing
<1>10. CASE Spread(g)
  <2>1. j.todo \subseteq SID /\ Command[j.pc] \in ServerCmd
    <3>1. j.pc \in {"introduce", "forward", "quitting", "announce", "route"}
      BY <1>10 DEF Spread, Command
    <3> QED
      BY <1>1, <3>1 DEF Command, JobShape, ServerCmd
  <2>2. PICK s \in j.todo : Post(Msg(s, Command[j.pc], IF j.pc \in {"quitting", "announce"}
                                                      THEN j.id ELSE NoUID))
    BY <1>10 DEF Spread
  <2>3. UNCHANGED toClient
    BY <1>10 DEF Spread
  <2> QED
    <3>1. (IF j.pc \in {"quitting", "announce"} THEN j.id ELSE NoUID) \in Id
      BY <1>2, <1>4
    <3>2. Msg(s, Command[j.pc], IF j.pc \in {"quitting", "announce"} THEN j.id ELSE NoUID) \in ServerMsg
      BY <1>3, <2>1, <3>1
    <3> QED
      BY <2>2, <2>3, <3>2, Zenon
<1>11. CASE SplitError(g)
  <2>1. Msg(NoSID, "ERROR", NoUID) \in ServerMsg
    BY <1>3, <1>4 DEF ServerCmd
  <2> QED
    BY <1>11, <2>1, Zenon DEF SplitError
<1>12. CASE AskClientLoop(g)
  <2>1. ASSUME NEW cmd \in {"DELUSER", "ERROR", "WELCOME"}, NEW to \in UID \cup {NoUID}, NEW ids \in Ids,
               to \in LocalUID => ids \subseteq {to}
        PROVE  ClientMsg(cmd, to, ids) \in ClientMsgs
    <3>1. ClientMsg(cmd, to, ids) \in [cmd : {"DELUSER", "ERROR", "WELCOME"}, to : UID \cup {NoUID}, ids : Ids]
      BY DEF ClientMsg
    <3>2. ClientMsg(cmd, to, ids).to = to /\ ClientMsg(cmd, to, ids).ids = ids
      BY DEF ClientMsg
    <3> QED
      BY <2>1, <3>1, <3>2 DEF ClientMsgs
  <2>2. UNCHANGED toServer
    BY <1>12 DEF AskClientLoop
  <2>3. CASE j.pc = "delete" /\ PostClient(ClientMsg("DELUSER", NoUID, j.todo))
    <3>1. j.todo \in Ids /\ NoUID \notin LocalUID
      BY <1>1, <2>3, LinksAssumption DEF JobShape, Ids, UID
    <3> QED
      BY <2>1, <2>2, <2>3, <3>1
  <2>4. CASE j.pc = "quitting" /\ PostClient(ClientMsg("ERROR", j.id, {j.id}))
    <3>1. j.id \in LocalUID \/ j.id \in RemoteUID
      BY <1>1, <2>4 DEF JobShape, UID
    <3>2. {j.id} \in Ids /\ j.id \in UID
      BY <3>1 DEF Ids, UID
    <3> QED
      BY <2>1, <2>2, <2>4, <3>2
  <2>5. CASE j.pc = "welcome" /\ PostClient(ClientMsg("WELCOME", j.id, {}))
    <3>1. {} \in Ids /\ j.id \in UID
      BY <1>1, <2>5 DEF JobShape, Ids, UID
    <3> QED
      BY <2>1, <2>2, <2>5, <3>1
  <2> QED
    BY <1>12, <2>3, <2>4, <2>5, Zenon DEF AskClientLoop
<1> QED
  BY <1>5, <1>6, <1>7, <1>8, <1>9, <1>10, <1>11, <1>12, Zenon DEF Send

LEMMA QueuesStep ==
    ASSUME QueuesOK, JobsOK, Step
    PROVE  QueuesOK'
<1> USE DEF QueuesOK
<1>1. CASE \E g \in Goroutine : Send(g)
  <2>1. ASSUME NEW m \in ServerMsg, Post(m), UNCHANGED toClient
        PROVE  QueuesOK'
    BY <2>1, LinksAssumption DEF Post
  <2>2. ASSUME NEW m \in ClientMsgs, PostClient(m), UNCHANGED toServer
        PROVE  QueuesOK'
    BY <2>2, LinksAssumption DEF PostClient
  <2>3. CASE UNCHANGED <<toServer, toClient>>
    BY <2>3
  <2> QED
    BY <1>1, <2>1, <2>2, <2>3, Sending
<1>2. CASE Write
  <2>1. toServer # <<>> /\ toServer' = Tail(toServer) /\ UNCHANGED toClient
    BY <1>2 DEF Write
  <2> QED
    BY <2>1, LinksAssumption
<1>3. CASE TakeClient
  <2>1. toClient # <<>> /\ toClient' = Tail(toClient) /\ UNCHANGED toServer
    BY <1>3 DEF TakeClient
  <2> QED
    BY <2>1, LinksAssumption
<1>4. CASE UNCHANGED <<toServer, toClient>>
  BY <1>4
<1> QED
  BY <1>1, <1>2, <1>3, <1>4, QueueMoves

-----------------------------------------------------------------------------
(* The invariant. *)

LEMMA InitTInv == Init => TInv
<1> SUFFICES ASSUME Init
             PROVE  TInv
  OBVIOUS
<1>1. TreeFacts!Init
  BY Zenon DEF Init, Tree!Init, TreeFacts!Init
<1>2. TreeFacts!IInv
  BY <1>1, LinksAssumption, TreeFacts!InitIInv
<1>3. TableOK
  BY <1>2 DEF Init, TableOK
<1>4. PeopleOK
  BY DEF Init, PeopleOK
<1>5. LinksOK
  BY LinksAssumption DEF Init, LinksOK, NewConn, ConnRec
<1>6. QueuesOK
  BY LinksAssumption DEF Init, QueuesOK
<1>7. JobsOK
  BY NoJobOK DEF Init, JobsOK
<1>8. HistoryOK
  BY DEF Init, HistoryOK
<1> QED
  BY <1>3, <1>4, <1>5, <1>6, <1>7, <1>8 DEF TInv

LEMMA QuittersRemote ==
    ASSUME LinksOK, Step, quitters \subseteq RemoteUID
    PROVE  quitters \subseteq quitters' /\ quitters' \subseteq RemoteUID
<1>1. ASSUME NEW k \in Conn, Receive(k)
      PROVE  quitters \subseteq quitters' /\ quitters' \subseteq RemoteUID
  BY <1>1, Saying
<1>2. ASSUME NEW k \in Conn, PeerLeaves(k) \/ LinkClosed(k) \/ ReceiveError(k)
                             \/ (\E line \in Line : ReceiveLine(k, line))
                             \/ (\E sid \in SID : Adopt(k, sid))
      PROVE  UNCHANGED quitters
  BY <1>2, Zenon DEF PeerLeaves, LinkClosed, ReceiveError, ReceiveLine, Adopt
<1>3. ASSUME NEW g \in Goroutine, ConnRegLine(g) \/ SignOn(g) \/ Sid(g) \/ Unlink(g)
                                  \/ Import(g) \/ UserSignOn(g) \/ (\E u \in UID : BurstUser(g, u))
      PROVE  UNCHANGED quitters
  BY <1>3, Zenon DEF ConnRegLine, SignOn, Sid, Unlink, Import, UserSignOn, BurstUser
<1>4. ASSUME NEW g \in Goroutine, Send(g)
      PROVE  UNCHANGED quitters
  BY <1>4, Zenon DEF Send, ConnRegInfo, Greet, BurstBegin, BurstTell, Refuse, SPing, Begin, Spread,
                     SplitError, UserSplit, AskClientLoop
<1>5. ASSUME NEW u \in LocalUID, Client(u)
      PROVE  UNCHANGED quitters
  BY <1>5, Zenon DEF Client, ClientConnects, ClientSignsOn, ClientQuits, ClientClosed
<1>6. ASSUME Write \/ TakeClient
      PROVE  UNCHANGED quitters
  BY <1>6, Zenon DEF Write, TakeClient
<1>7. Step => (\E k \in Conn : Receive(k)) \/ UNCHANGED quitters
  BY <1>2, <1>3, <1>4, <1>5, <1>6, Zenon DEF Step, Receive, Send, Client
<1> QED
  BY <1>1, <1>7

LEMMA HistoryStep ==
    ASSUME TInv, Next, TableOK', PeopleOK', loop' \in {"up", "hung", "crashed", "down"}
    PROVE  HistoryOK'
<1>1. /\ registered' \subseteq servMap' /\ quitters' \subseteq RemoteUID
      /\ vanished \subseteq LocalUID
  BY QuittersRemote DEF TInv, HistoryOK, TableOK, Next
<1>2. (late \cup back)' \subseteq users' \cap RemoteUID /\ ghosts' \subseteq registered'
      /\ vanished' \subseteq LocalUID /\ raced' \subseteq SID \X LocalUID
  BY <1>1 DEF Next, Remember
<1> QED
  BY <1>1, <1>2 DEF HistoryOK

LEMMA LoopMoves ==
    ASSUME Step
    PROVE  Write \/ TakeClient \/ UNCHANGED loop
<1>1. ASSUME NEW k \in Conn, Receive(k) \/ PeerLeaves(k) \/ LinkClosed(k) \/ ReceiveError(k)
                             \/ (\E line \in Line : ReceiveLine(k, line))
                             \/ (\E sid \in SID : Adopt(k, sid))
      PROVE  UNCHANGED loop
  BY <1>1, Zenon DEF Receive, ReceiveSQuit, ReceiveSid, ReceiveUid, ReceiveQuit, ReceiveFarewell,
                     ReceivePing, Says, PeerLeaves, LinkClosed, ReceiveError, ReceiveLine, Adopt
<1>2. ASSUME NEW g \in Goroutine, ConnRegLine(g) \/ SignOn(g) \/ Sid(g) \/ Unlink(g)
                                  \/ Import(g) \/ UserSignOn(g) \/ (\E u \in UID : BurstUser(g, u))
      PROVE  UNCHANGED loop
  BY <1>2, Zenon DEF ConnRegLine, SignOn, Sid, Unlink, Import, UserSignOn, BurstUser
<1>3. ASSUME NEW g \in Goroutine, Send(g)
      PROVE  UNCHANGED loop
  BY <1>3, Zenon DEF Send, ConnRegInfo, Greet, BurstBegin, BurstTell, Refuse, SPing, Begin, Spread,
                     SplitError, UserSplit, AskClientLoop
<1>4. ASSUME NEW u \in LocalUID, Client(u)
      PROVE  UNCHANGED loop
  BY <1>4, Zenon DEF Client, ClientConnects, ClientSignsOn, ClientQuits, ClientClosed
<1> QED
  BY <1>1, <1>2, <1>3, <1>4, Zenon DEF Step, Receive, Send, Client

LEMMA LoopStep ==
    ASSUME Step, loop \in {"up", "hung", "crashed", "down"}
    PROVE  loop' \in {"up", "hung", "crashed", "down"}
<1>1. CASE Write \/ TakeClient
  BY <1>1 DEF Write, TakeClient
<1> QED
  BY <1>1, LoopMoves

LEMMA NextTInv == TInv /\ [Next]_vars => TInv'
<1> SUFFICES ASSUME TInv, [Next]_vars
             PROVE  TInv'
  OBVIOUS
<1>1. CASE Next
  <2>1. TableOK' /\ PeopleOK' /\ LinksOK' /\ QueuesOK' /\ JobsOK'
    BY <1>1, TableStep, PeopleStep, LinksStep, QueuesStep, JobsStep DEF TInv, Next
  <2>2. loop' \in {"up", "hung", "crashed", "down"}
    BY <1>1, LoopStep DEF TInv, HistoryOK, Next
  <2>3. HistoryOK'
    BY <1>1, <2>1, <2>2, HistoryStep
  <2> QED
    BY <2>1, <2>3 DEF TInv
<1>2. CASE UNCHANGED vars
  <2>1. (TreeFacts!IInv)'
    <3>1. [TreeFacts!Next]_(TreeFacts!vars)
      BY <1>2 DEF vars, servers, tree, TreeFacts!vars
    <3> QED
      BY <3>1, LinksAssumption, TreeFacts!NextIInv DEF TInv, TableOK
  <2>2. TableOK' /\ PeopleOK' /\ LinksOK' /\ QueuesOK' /\ HistoryOK'
    BY <1>2, <2>1 DEF TInv, vars, servers, tree, people, links, history, TableOK, PeopleOK, LinksOK,
                      QueuesOK, HistoryOK
  <2>3. JobsOK'
    BY <1>2 DEF TInv, vars, servers, tree, people, JobsOK
  <2> QED
    BY <2>2, <2>3 DEF TInv
<1> QED
  BY <1>1, <1>2

LEMMA Invariance == Spec => []TInv
BY InitTInv, NextTInv, PTL DEF Spec

-----------------------------------------------------------------------------

\* However goroutines, connections and the two loops take turns, the tables, the
\* goroutines and the channels hold what their types say, no channel holds more
\* than its capacity, and a server's connection is its own.
THEOREM LinksTypeCorrect == Spec => []TypeOK
<1>1. TInv => TypeOK
  <2> SUFFICES ASSUME TInv
               PROVE  TypeOK
    OBVIOUS
  <2>1. Tree!TypeOK
    BY TableTypes DEF TInv
  <2>2. Len(toServer) \in 0..SendQ /\ Len(toClient) \in 0..SendQ
    BY LinksAssumption DEF TInv, QueuesOK
  <2> QED
    BY <2>1, <2>2 DEF TypeOK, TInv, TableOK, PeopleOK, LinksOK, ConnRec, JobsOK, HistoryOK
<1> QED
  BY <1>1, Invariance, PTL

-----------------------------------------------------------------------------
(* Who is deleted, and who is not. *)

\* The steps of a goroutine.
Own(g) ==
    \/ ConnRegLine(g) \/ ConnRegInfo(g) \/ SignOn(g) \/ Greet(g) \/ BurstBegin(g)
    \/ (\E u \in UID : BurstUser(g, u)) \/ BurstTell(g) \/ Sid(g) \/ Import(g) \/ Refuse(g)
    \/ SPing(g) \/ Begin(g) \/ Spread(g) \/ SplitError(g) \/ Unlink(g) \/ UserSplit(g)
    \/ AskClientLoop(g) \/ UserSignOn(g)

\* A goroutine that works neither on a split nor on a deletion.
Plain(g) ==
    /\ UNCHANGED toClient
    /\ \E n : /\ Become(g, n)
              /\ job[g].pc \notin {"split", "delete"} /\ n.pc \notin {"split", "delete", "quit"}
              /\ n.pc = "quitting" => job[g].pc \in {"quit", "quitting"} /\ n.id = job[g].id

\* A goroutine that is started.
Starts ==
    /\ UNCHANGED toClient
    /\ \E n : /\ Go(n)
              /\ n.pc \notin {"split", "delete", "quitting"}
              /\ n.pc = "quit" => n.id \in quitters' \/ \E u \in LocalUID : ClientQuits(u) /\ n.id = u

LEMMA PlainSteps ==
    ASSUME JobsOK, NEW g \in Goroutine,
           \/ ConnRegLine(g) \/ ConnRegInfo(g) \/ SignOn(g) \/ Greet(g) \/ BurstBegin(g)
           \/ (\E u \in UID : BurstUser(g, u)) \/ BurstTell(g) \/ Sid(g) \/ Import(g) \/ Refuse(g)
           \/ SPing(g) \/ Begin(g) \/ Spread(g) \/ SplitError(g) \/ UserSignOn(g)
    PROVE  Plain(g)
<1> DEFINE j == job[g]
           Fine(n) == /\ n.pc \notin {"split", "delete", "quit"}
                      /\ n.pc = "quitting" => j.pc \in {"quit", "quitting"} /\ n.id = j.id
<1>0. j \in Job
  BY DEF JobsOK
<1>1. Fine(NoJob)
  BY DEF NoJob, NewJob
<1>2. \A pc : pc \notin {"split", "delete", "quit", "quitting"} => Fine([j EXCEPT !.pc = pc])
  BY <1>0 DEF Job
<1>3. \A pc, todo : pc \notin {"split", "delete", "quit", "quitting"}
                       => Fine([j EXCEPT !.pc = pc, !.todo = todo])
  BY <1>0 DEF Job
<1>4. ASSUME NEW n, Fine(n), Become(g, n), j.pc \notin {"split", "delete"}, UNCHANGED toClient
      PROVE  Plain(g)
  BY <1>4, Zenon DEF Plain
<1> HIDE DEF Fine
<1>5. CASE ConnRegLine(g)
  BY <1>2, <1>4, <1>5 DEF ConnRegLine
<1>6. CASE ConnRegInfo(g)
  BY <1>1, <1>3, <1>4, <1>6 DEF ConnRegInfo
<1>7. CASE SignOn(g) \/ Greet(g) \/ SplitError(g)
  BY <1>2, <1>4, <1>7 DEF SignOn, Greet, SplitError
<1>8. CASE BurstBegin(g)
  BY <1>1, <1>3, <1>4, <1>8 DEF BurstBegin
<1>9. ASSUME NEW u \in UID, BurstUser(g, u)
      PROVE  Plain(g)
  <2> DEFINE rest == [j EXCEPT !.todo = @ \ {u}]
  <2>1. Fine(rest) /\ Fine([rest EXCEPT !.pc = "tell", !.id = u])
    BY <1>0, <1>9 DEF Fine, Job, BurstUser
  <2> QED
    BY <1>1, <1>4, <1>9, <2>1 DEF BurstUser
<1>10. CASE BurstTell(g)
  BY <1>1, <1>2, <1>4, <1>10 DEF BurstTell
<1>11. CASE Sid(g) \/ Import(g)
  BY <1>1, <1>2, <1>4, <1>11 DEF Sid, Import
<1>12. CASE Refuse(g) \/ UserSignOn(g)
  <2>1. Fine([j EXCEPT !.pc = "welcome"])
    BY <1>2
  <2>2. CASE Refuse(g)
    BY <1>1, <1>4, <2>2 DEF Refuse
  <2>3. CASE UserSignOn(g)
    BY <1>4, <2>1, <2>3 DEF UserSignOn
  <2> QED
    BY <1>12, <2>2, <2>3
<1>13. CASE SPing(g)
  <2>1. Become(g, NoJob) \/ \E out : Become(g, [j EXCEPT !.pc = "route", !.todo = out])
    BY <1>13, Zenon DEF SPing
  <2> QED
    BY <1>1, <1>3, <1>4, <1>13, <2>1 DEF SPing
<1>14. CASE Begin(g)
  <2>1. PICK out : Become(g, [j EXCEPT !.pc = Begun[@], !.todo = out])
    BY <1>14, Zenon DEF Begin
  <2>2. j.pc \in {"squit", "quit", "user"}
    BY <1>14 DEF Begin, Begun
  <2>3. Fine([j EXCEPT !.pc = Begun[@], !.todo = out])
    BY <1>0, <2>2 DEF Fine, Begun, Job
  <2> QED
    BY <1>4, <1>14, <2>1, <2>2, <2>3 DEF Begin
<1>15. CASE Spread(g)
  <2>1. PICK s : Become(g, IF j.pc = "route" THEN NoJob ELSE [j EXCEPT !.todo = @ \ {s}])
    BY <1>15, Zenon DEF Spread
  <2>2. j.pc \in {"introduce", "forward", "quitting", "announce", "route"}
    BY <1>15 DEF Spread, Command
  <2>3. Fine([j EXCEPT !.todo = @ \ {s}])
    BY <1>0, <2>2 DEF Fine, Job
  <2> QED
    BY <1>1, <1>4, <1>15, <2>1, <2>2, <2>3 DEF Spread
<1> QED
  BY <1>5, <1>6, <1>7, <1>8, <1>9, <1>10, <1>11, <1>12, <1>13, <1>14, <1>15

LEMMA JobMoves ==
    ASSUME TInv, Step
    PROVE  \/ UNCHANGED <<job, toClient>>
           \/ Starts
           \/ \E g \in Goroutine : /\ Own(g)
                                   /\ Plain(g) \/ Unlink(g) \/ UserSplit(g) \/ AskClientLoop(g)
           \/ TakeClient
           \/ \E u \in LocalUID : ClientClosed(u)
<1>1. ASSUME NEW k \in Conn, Receive(k)
      PROVE  Starts \/ UNCHANGED <<job, toClient>>
  <2>1. Said(k)
    BY <1>1, Saying DEF TInv
  <2>2. PICK n : /\ Go(n) \/ UNCHANGED job
                 /\ n.pc \in {"squit", "sid", "uid", "quit", "ping"} /\ (n.pc = "quit" => n.id \in quitters')
    BY <2>1, Zenon DEF Said
  <2>3. UNCHANGED toClient
    BY <2>1, Zenon DEF Said
  <2> QED
    BY <2>2, <2>3 DEF Starts
<1>2. ASSUME NEW k \in Conn, LinkClosed(k) \/ ReceiveError(k)
      PROVE  Starts \/ UNCHANGED <<job, toClient>>
  <2> DEFINE s == conn[k].sid
             n == NewJob("squit", s, NoSID, s)
  <2>1. n.pc = "squit"
    BY DEF NewJob
  <2>2. UNCHANGED toClient /\ (Go(n) \/ UNCHANGED job)
    BY <1>2, Zenon DEF LinkClosed, ReceiveError, SplitLocal, Dispatch
  <2> HIDE DEF n
  <2> QED
    BY <2>1, <2>2 DEF Starts
<1>3. ASSUME NEW k \in Conn, NEW line \in Line, ReceiveLine(k, line)
      PROVE  Starts \/ UNCHANGED <<job, toClient>>
  <2> DEFINE n == NewJob("line", conn[k].sid, NoSID, line)
  <2>1. n.pc = "line"
    BY DEF NewJob
  <2>2. UNCHANGED toClient /\ (Go(n) \/ UNCHANGED job)
    BY <1>3, Zenon DEF ReceiveLine
  <2> HIDE DEF n
  <2> QED
    BY <2>1, <2>2 DEF Starts
<1>4. ASSUME NEW k \in Conn, PeerLeaves(k) \/ \E sid \in SID : Adopt(k, sid)
      PROVE  UNCHANGED <<job, toClient>>
  BY <1>4, Zenon DEF PeerLeaves, Adopt
<1>5. ASSUME Write
      PROVE  UNCHANGED <<job, toClient>>
  BY <1>5, Zenon DEF Write
<1>6. ASSUME NEW u \in LocalUID, ClientConnects(u) \/ ClientSignsOn(u) \/ ClientQuits(u)
      PROVE  Starts \/ UNCHANGED <<job, toClient>>
  <2> DEFINE n(pc) == NewJob(pc, NoSID, NoSID, u)
  <2>1. \A pc : n(pc).pc = pc /\ n(pc).id = u
    BY DEF NewJob
  <2>2. /\ UNCHANGED toClient
        /\ Go(n("user")) \/ (Go(n("quit")) /\ ClientQuits(u)) \/ UNCHANGED job
    BY <1>6, Zenon DEF ClientConnects, ClientSignsOn, ClientQuits
  <2> HIDE DEF n
  <2> QED
    BY <2>1, <2>2 DEF Starts
<1>7. ASSUME NEW g \in Goroutine, Send(g)
      PROVE  Own(g) /\ (Plain(g) \/ UserSplit(g) \/ AskClientLoop(g))
  BY <1>7, PlainSteps DEF Send, TInv, Own
<1>8. ASSUME NEW g \in Goroutine, ConnRegLine(g) \/ SignOn(g) \/ Sid(g) \/ Import(g) \/ UserSignOn(g)
                                  \/ (\E u \in UID : BurstUser(g, u))
      PROVE  Own(g) /\ Plain(g)
  BY <1>8, PlainSteps DEF TInv, Own
<1>9. ASSUME NEW g \in Goroutine, Unlink(g)
      PROVE  Own(g) /\ Unlink(g)
  BY <1>9 DEF Own
<1> QED
  BY <1>1, <1>2, <1>3, <1>4, <1>5, <1>6, <1>7, <1>8, <1>9, Zenon DEF Step, Receive, Send, Client

\* What dooms a user: a goroutine, or a message of the client loop.
Splits(g, u) == job[g].pc = "split" /\ ServerOf[u] \in job[g].todo
Deletes(g, u) == job[g].pc = "delete" /\ u \in job[g].todo

LEMMA DoomedBy ==
    ASSUME NEW u \in RemoteUID
    PROVE  /\ Doomed(u) <=> \/ \E g \in Goroutine : Splits(g, u) \/ Deletes(g, u)
                            \/ \E i \in 1..Len(toClient) : u \in toClient[i].ids
           /\ Doomed(u)' <=> \/ \E g \in Goroutine : Splits(g, u)' \/ Deletes(g, u)'
                             \/ \E i \in 1..Len(toClient') : u \in toClient'[i].ids
BY Zenon DEF Doomed, Splits, Deletes

\* Appending to a queue, and taking from it.
LEMMA Queue ==
    ASSUME NEW Q, NEW q \in Seq(Q), NEW m
    PROVE  /\ \A i \in 1..Len(q) : i \in 1..Len(Append(q, m)) /\ Append(q, m)[i] = q[i]
           /\ Len(q) + 1 \in 1..Len(Append(q, m)) /\ Append(q, m)[Len(q) + 1] = m
           /\ \A i \in 1..Len(Append(q, m)) : i \in 1..Len(q) \/ Append(q, m)[i] = m
           /\ q # <<>> => /\ \A i \in 1..Len(q) : q[i] = Head(q) \/ (i - 1 \in 1..Len(Tail(q)) /\ Tail(q)[i - 1] = q[i])
                          /\ \A i \in 1..Len(Tail(q)) : i + 1 \in 1..Len(q) /\ q[i + 1] = Tail(q)[i]
OBVIOUS

LEMMA DoomedStays ==
    ASSUME TInv, Step, NEW u \in RemoteUID, u \in users, u \in users', Doomed(u)
    PROVE  Doomed(u)'
<1> USE DoomedBy
<1>1. \A g \in Goroutine : Splits(g, u) \/ Deletes(g, u) => job[g].pc \in {"split", "delete"}
  BY DEF Splits, Deletes
<1>2. ASSUME UNCHANGED toClient,
             \A g \in Goroutine : job[g].pc \in {"split", "delete"} => job'[g] = job[g]
      PROVE  Doomed(u)'
  BY <1>1, <1>2 DEF Splits, Deletes
<1>3. CASE UNCHANGED <<job, toClient>>
  BY <1>2, <1>3
<1>4. CASE Starts
  <2>1. PICK h \in Goroutine : job[h].pc = "idle" /\ \E n : Become(h, n)
    BY <1>4 DEF Starts, Go
  <2> QED
    BY <1>2, <1>4, <2>1 DEF Starts, Become, TInv, JobsOK
<1>5. ASSUME NEW g \in Goroutine, Plain(g)
      PROVE  Doomed(u)'
  BY <1>2, <1>5 DEF Plain, Become, TInv, JobsOK
<1>6. ASSUME NEW g \in Goroutine, Unlink(g)
      PROVE  Doomed(u)'
  BY <1>2, <1>6 DEF Unlink, ToUnlink, HoldsRecord
<1>7. ASSUME NEW g \in Goroutine, UserSplit(g)
      PROVE  Doomed(u)'
  <2> DEFINE peers == {v \in users \cap RemoteUID : ServerOf[v] \in job[g].todo}
             n == IF peers = {} THEN NoJob ELSE [job[g] EXCEPT !.pc = "delete", !.todo = peers]
  <2>1. job[g].pc = "split" /\ Become(g, n) /\ UNCHANGED toClient
    BY <1>7 DEF UserSplit
  <2>2. job'[g] = n /\ \A h \in Goroutine \ {g} : job'[h] = job[h]
    BY <2>1 DEF Become, TInv, JobsOK
  <2>3. CASE Splits(g, u)
    <3>1. u \in peers
      BY <2>3 DEF Splits
    <3>2. Deletes(g, u)'
      BY <2>2, <3>1 DEF Deletes, TInv, JobsOK, Job
    <3> QED
      BY <3>2
  <2>4. CASE ~Splits(g, u)
    <3>1. \A h \in Goroutine : Splits(h, u) \/ Deletes(h, u) => h # g
      BY <2>1, <2>4 DEF Deletes
    <3> QED
      BY <2>1, <2>2, <3>1 DEF Splits, Deletes
  <2> QED
    BY <2>3, <2>4
<1>8. ASSUME NEW g \in Goroutine, AskClientLoop(g)
      PROVE  Doomed(u)'
  <2>1. PICK m : /\ toClient' = Append(toClient, m)
                 /\ job[g].pc = "delete" => m.ids = job[g].todo
                 /\ job[g].pc \in {"delete", "quitting", "welcome"}
    BY <1>8 DEF AskClientLoop, PostClient, ClientMsg
  <2>2. \A h \in Goroutine \ {g} : job'[h] = job[h]
    BY <1>8 DEF AskClientLoop, Become, TInv, JobsOK
  <2>3. toClient \in Seq(ClientMsgs)
    BY DEF TInv, QueuesOK
  <2>4. CASE Deletes(g, u)
    BY <2>1, <2>3, <2>4, Queue DEF Deletes
  <2>5. CASE ~Deletes(g, u)
    <3>1. CASE \E h \in Goroutine : Splits(h, u) \/ Deletes(h, u)
      <4>1. PICK h \in Goroutine \ {g} : Splits(h, u) \/ Deletes(h, u)
        BY <2>1, <2>5, <3>1 DEF Splits
      <4> QED
        BY <2>2, <4>1 DEF Splits, Deletes
    <3>2. CASE \E i \in 1..Len(toClient) : u \in toClient[i].ids
      BY <2>1, <2>3, <3>2, Queue
    <3> QED
      BY <3>1, <3>2
  <2> QED
    BY <2>4, <2>5
<1>9. CASE TakeClient
  <2>1. toClient # <<>> /\ toClient' = Tail(toClient) /\ toClient \in Seq(ClientMsgs)
    BY <1>9 DEF TakeClient, TInv, QueuesOK
  <2>2. u \notin Head(toClient).ids
    <3> DEFINE m == Head(toClient)
    <3>0. m \in ClientMsgs
      BY <2>1
    <3>1. CASE m.to \in LocalUID
      <4>1. m.ids \subseteq {m.to}
        BY <3>0, <3>1 DEF ClientMsgs
      <4> QED
        BY <3>1, <4>1, LinksAssumption
    <3>2. CASE m.to \notin LocalUID
      <4>1. Delete(m.ids)
        BY <1>9, <3>2 DEF TakeClient
      <4> QED
        BY <4>1 DEF Delete
    <3> QED
      BY <3>1, <3>2
  <2>3. \A g \in Goroutine : job[g].pc \in {"split", "delete"} => job'[g] = job[g]
    BY <1>9 DEF TakeClient, DropRecord
  <2>4. CASE \E g \in Goroutine : Splits(g, u) \/ Deletes(g, u)
    BY <1>1, <2>3, <2>4 DEF Splits, Deletes
  <2>5. CASE \E i \in 1..Len(toClient) : u \in toClient[i].ids
    BY <2>1, <2>2, <2>5, Queue
  <2> QED
    BY <2>4, <2>5
<1>10. ASSUME NEW v \in LocalUID, ClientClosed(v)
       PROVE  Doomed(u)'
  BY <1>2, <1>10 DEF ClientClosed, DropRecord
<1> QED
  BY <1>3, <1>4, <1>5, <1>6, <1>7, <1>8, <1>9, <1>10, JobMoves

LEMMA NextUsersHaveServers == UsersHaveServers /\ TInv /\ [Next]_vars => UsersHaveServers'
<1> SUFFICES ASSUME UsersHaveServers, TInv, Next, NEW u \in (users' \cap RemoteUID) \ late'
             PROVE  ServerOf[u] \in servMap' \/ Doomed(u)'
  <2>1. ASSUME UNCHANGED vars, UsersHaveServers
        PROVE  UsersHaveServers'
    BY <2>1 DEF UsersHaveServers, Doomed, vars, servers, tree, people, history
  <2> QED
    BY <2>1 DEF UsersHaveServers
<1> SUFFICES ASSUME ServerOf[u] \notin servMap'
             PROVE  Doomed(u)'
  OBVIOUS
<1>1. u \in users /\ u \notin late
  BY DEF Next, Remember
<1>2. CASE Doomed(u)
  BY <1>1, <1>2, DoomedStays DEF Next
<1>3. CASE ~Doomed(u)
  <2>1. ServerOf[u] \in servMap /\ ServerOf[u] \in SID
    BY <1>1, <1>3, LinksAssumption DEF UsersHaveServers
  <2>2. PICK g \in Goroutine : Unlink(g)
    <3>1. ASSUME NEW k \in Conn, NEW sid \in SID, Adopt(k, sid)
          PROVE  servMap \subseteq servMap'
      BY <3>1 DEF Adopt, GetServer, tree, Tree!GetServer
    <3>2. ASSUME NEW g \in Goroutine, ConnRegLine(g) \/ SignOn(g) \/ Sid(g)
          PROVE  servMap \subseteq servMap'
      BY <3>2, AddJobs DEF TInv
    <3>3. ASSUME UNCHANGED servers
          PROVE  servMap \subseteq servMap'
      BY <3>3 DEF servers, tree
    <3> QED
      BY <2>1, <3>1, <3>2, <3>3, TableMoves DEF Next
  <2> DEFINE gone == Gone(job[g].id)
  <2>3. servMap' = servMap \ gone
    <3>1. gone = {} => servMap' = servMap
      BY <2>2 DEF Unlink, tree
    <3>2. gone # {} => servMap' = servMap \ gone
      BY <2>2 DEF Unlink, Tree!Unlink, Gone
    <3> QED
      BY <3>1, <3>2
  <2>4. ServerOf[u] \in gone
    BY <2>1, <2>3
  <2>5. job'[g] = [job[g] EXCEPT !.pc = "split", !.todo = gone]
    BY <2>2, <2>4 DEF Unlink
  <2> HIDE DEF gone
  <2>6. Splits(g, u)'
    BY <2>4, <2>5 DEF Splits, TInv, JobsOK, Job
  <2> QED
    BY <2>6, DoomedBy
<1> QED
  BY <1>2, <1>3

\* A split leaves no user behind, in whatever order its goroutine, those of UIDs
\* and of other splits, and the client loop take their steps.
THEOREM UsersHaveServersCorrect == Spec => []UsersHaveServers
<1>1. Init => UsersHaveServers
  BY DEF Init, UsersHaveServers
<1> QED
  BY <1>1, Invariance, NextUsersHaveServers, PTL DEF Spec

-----------------------------------------------------------------------------

\* Who quits, is in quitters; who is about to be deleted, for a reason.
Leaving(u) == u \in quitters \/ ServerOf[u] \notin servMap \/ u \in back
QuitsOK ==
    /\ \A g \in Goroutine : job[g].pc \in {"quit", "quitting"} => job[g].id \in LocalUID \cup quitters
    /\ \A u \in users \cap RemoteUID : Doomed(u) => Leaving(u)

\* What may doom a user: that its server is unlinked, or that it has quit.
LEMMA DoomedComes ==
    ASSUME TInv, Step, NEW u \in RemoteUID, Doomed(u)'
    PROVE  \/ Doomed(u)
           \/ ServerOf[u] \notin servMap'
           \/ \E g \in Goroutine : job[g].pc = "quitting" /\ job[g].id = u
<1> USE DoomedBy
<1> DEFINE Why == \/ Doomed(u)
                  \/ ServerOf[u] \notin servMap'
                  \/ \E g \in Goroutine : job[g].pc = "quitting" /\ job[g].id = u
<1>1. \A g \in Goroutine : (Splits(g, u) \/ Deletes(g, u))' => job'[g].pc \in {"split", "delete"}
  BY DEF Splits, Deletes
<1>2. ASSUME UNCHANGED toClient,
             \A g \in Goroutine : job'[g].pc \in {"split", "delete"} => job'[g] = job[g]
      PROVE  Doomed(u)
  BY <1>1, <1>2 DEF Splits, Deletes
<1>3. CASE UNCHANGED <<job, toClient>>
  BY <1>2, <1>3
<1>4. CASE Starts
  BY <1>2, <1>4 DEF Starts, Go, Become, TInv, JobsOK
<1>5. ASSUME NEW g \in Goroutine, Plain(g)
      PROVE  Doomed(u)
  BY <1>2, <1>5 DEF Plain, Become, TInv, JobsOK
<1>6. ASSUME NEW g \in Goroutine, Unlink(g)
      PROVE  Why
  <2> DEFINE gone == Gone(job[g].id)
  <2>1. servMap' = servMap \ gone /\ UNCHANGED toClient
    <3>1. gone = {} => servMap' = servMap
      BY <1>6 DEF Unlink, tree
    <3>2. gone # {} => servMap' = servMap \ gone
      BY <1>6 DEF Unlink, Tree!Unlink, Gone
    <3> QED
      BY <1>6, <3>1, <3>2 DEF Unlink
  <2>2. job'[g] = IF gone = {} THEN NoJob ELSE [job[g] EXCEPT !.pc = "split", !.todo = gone]
    BY <1>6 DEF Unlink
  <2>3. \A h \in Goroutine \ {g} : job'[h].pc \in {"split", "delete"} => job'[h] = job[h]
    BY <1>6 DEF Unlink, HoldsRecord, TInv, JobsOK, Job
  <2> HIDE DEF gone
  <2>4. CASE Splits(g, u)'
    <3>1. ServerOf[u] \in gone
      BY <2>2, <2>4 DEF Splits, NoJob, NewJob, TInv, JobsOK, Job
    <3> QED
      BY <2>1, <3>1
  <2>5. CASE ~Splits(g, u)'
    <3>1. ~Deletes(g, u)'
      BY <2>2 DEF Deletes, NoJob, NewJob, TInv, JobsOK, Job
    <3> QED
      BY <1>1, <2>1, <2>3, <2>5, <3>1 DEF Splits, Deletes
  <2> QED
    BY <2>4, <2>5
<1>7. ASSUME NEW g \in Goroutine, UserSplit(g)
      PROVE  Doomed(u)
  <2> DEFINE peers == {v \in users \cap RemoteUID : ServerOf[v] \in job[g].todo}
             n == IF peers = {} THEN NoJob ELSE [job[g] EXCEPT !.pc = "delete", !.todo = peers]
  <2>1. job[g].pc = "split" /\ Become(g, n) /\ UNCHANGED toClient
    BY <1>7 DEF UserSplit
  <2>2. job'[g] = n /\ \A h \in Goroutine \ {g} : job'[h] = job[h]
    BY <2>1 DEF Become, TInv, JobsOK
  <2>3. (Splits(g, u) \/ Deletes(g, u))' => Splits(g, u)
    <3>1. ~Splits(g, u)'
      BY <2>2 DEF Splits, NoJob, NewJob, TInv, JobsOK, Job
    <3>2. Deletes(g, u)' => u \in peers
      <4> HIDE DEF peers
      <4> QED
        BY <2>2 DEF Deletes, NoJob, NewJob, TInv, JobsOK, Job
    <3> QED
      BY <2>1, <3>1, <3>2 DEF Splits
  <2> QED
    BY <2>1, <2>2, <2>3 DEF Splits, Deletes
<1>8. ASSUME NEW g \in Goroutine, AskClientLoop(g)
      PROVE  Why
  <2>1. PICK m : /\ toClient' = Append(toClient, m)
                 /\ \/ job[g].pc = "delete" /\ m.ids = job[g].todo
                    \/ job[g].pc = "quitting" /\ m.ids = {job[g].id}
                    \/ job[g].pc = "welcome" /\ m.ids = {}
    BY <1>8 DEF AskClientLoop, PostClient, ClientMsg
  <2>2. job'[g] = NoJob /\ \A h \in Goroutine \ {g} : job'[h] = job[h]
    BY <1>8 DEF AskClientLoop, Become, TInv, JobsOK
  <2>3. toClient \in Seq(ClientMsgs)
    BY DEF TInv, QueuesOK
  <2>4. ~Splits(g, u)' /\ ~Deletes(g, u)'
    BY <2>2 DEF Splits, Deletes, NoJob, NewJob
  <2>5. CASE \E h \in Goroutine : (Splits(h, u) \/ Deletes(h, u))'
    BY <2>2, <2>4, <2>5 DEF Splits, Deletes
  <2>6. CASE \E i \in 1..Len(toClient') : u \in toClient'[i].ids
    <3>1. \/ \E i \in 1..Len(toClient) : u \in toClient[i].ids
          \/ u \in m.ids
      BY <2>1, <2>3, <2>6
    <3> QED
      BY <2>1, <3>1 DEF Deletes
  <2> QED
    BY <2>5, <2>6
<1>9. CASE TakeClient
  <2>1. toClient # <<>> /\ toClient' = Tail(toClient) /\ toClient \in Seq(ClientMsgs)
    BY <1>9 DEF TakeClient, TInv, QueuesOK
  <2>2. \A g \in Goroutine : job'[g].pc \in {"split", "delete"} => job'[g] = job[g]
    BY <1>9, SMTT(30) DEF TakeClient, DropRecord, TInv, JobsOK, Job
  <2>3. CASE \E g \in Goroutine : (Splits(g, u) \/ Deletes(g, u))'
    BY <1>1, <2>2, <2>3 DEF Splits, Deletes
  <2>4. CASE \E i \in 1..Len(toClient') : u \in toClient'[i].ids
    BY <2>1, <2>4, Queue
  <2> QED
    BY <2>3, <2>4
<1>10. ASSUME NEW v \in LocalUID, ClientClosed(v)
       PROVE  Doomed(u)
  BY <1>2, <1>10 DEF ClientClosed, DropRecord, TInv, JobsOK, Job
<1> QED
  BY <1>3, <1>4, <1>5, <1>6, <1>7, <1>8, <1>9, <1>10, JobMoves

\* Those who are named by a QUIT have quit.
LEMMA QuitJobs ==
    ASSUME TInv, QuitsOK, Step
    PROVE  \A g \in Goroutine : job'[g].pc \in {"quit", "quitting"} =>
              job'[g].id \in LocalUID \cup quitters'
<1> DEFINE Fine == \A g \in Goroutine : job'[g].pc \in {"quit", "quitting"} =>
                      job'[g].id \in LocalUID \cup quitters'
<1>1. quitters \subseteq quitters'
  BY QuittersRemote DEF TInv, HistoryOK
<1>2. ASSUME \A g \in Goroutine : job'[g].pc \in {"quit", "quitting"} =>
                job[g].pc \in {"quit", "quitting"} /\ job'[g].id = job[g].id
      PROVE  Fine
  BY <1>1, <1>2 DEF QuitsOK
<1>3. CASE UNCHANGED <<job, toClient>>
  BY <1>2, <1>3
<1>4. CASE Starts
  <2>1. PICK h, n : /\ h \in Goroutine /\ Become(h, n) /\ n.pc # "quitting"
                    /\ n.pc = "quit" => n.id \in LocalUID \cup quitters'
    BY <1>4 DEF Starts, Go
  <2>2. \A g \in Goroutine : job'[g] = IF g = h THEN n ELSE job[g]
    BY <2>1 DEF Become, TInv, JobsOK
  <2> QED
    BY <1>1, <2>1, <2>2 DEF QuitsOK
<1>5. ASSUME NEW g \in Goroutine, Plain(g)
      PROVE  Fine
  <2>1. PICK n : /\ Become(g, n) /\ n.pc # "quit"
                 /\ n.pc = "quitting" => job[g].pc \in {"quit", "quitting"} /\ n.id = job[g].id
    BY <1>5 DEF Plain
  <2>2. \A h \in Goroutine : job'[h] = IF h = g THEN n ELSE job[h]
    BY <2>1 DEF Become, TInv, JobsOK
  <2> QED
    BY <1>2, <2>1, <2>2
<1>6. ASSUME NEW g \in Goroutine, Unlink(g)
      PROVE  Fine
  BY <1>2, <1>6 DEF Unlink, HoldsRecord, NoJob, NewJob, TInv, JobsOK, Job
<1>7. ASSUME NEW g \in Goroutine, UserSplit(g)
      PROVE  Fine
  BY <1>2, <1>7 DEF UserSplit, Become, NoJob, NewJob, TInv, JobsOK, Job
<1>8. ASSUME NEW g \in Goroutine, AskClientLoop(g)
      PROVE  Fine
  BY <1>2, <1>8 DEF AskClientLoop, Become, NoJob, NewJob, TInv, JobsOK, Job
<1>9. CASE TakeClient
  BY <1>2, <1>9 DEF TakeClient, DropRecord, TInv, JobsOK, Job
<1>10. ASSUME NEW v \in LocalUID, ClientClosed(v)
       PROVE  Fine
  BY <1>2, <1>10 DEF ClientClosed, DropRecord, TInv, JobsOK, Job
<1> QED
  BY <1>3, <1>4, <1>5, <1>6, <1>7, <1>8, <1>9, <1>10, JobMoves

LEMMA NextQuitsOK == TInv /\ QuitsOK /\ [Next]_vars => QuitsOK'
<1> SUFFICES ASSUME TInv, QuitsOK, Next
             PROVE  QuitsOK'
  <2>1. ASSUME UNCHANGED vars, QuitsOK
        PROVE  QuitsOK'
    BY <2>1 DEF QuitsOK, Leaving, Doomed, vars, servers, tree, people, history
  <2> QED
    BY <2>1
<1>1. ASSUME NEW u \in users' \cap RemoteUID, Doomed(u)'
      PROVE  u \in quitters' \/ ServerOf[u] \notin servMap' \/ u \in back'
  <2>1. quitters \subseteq quitters'
    BY QuittersRemote DEF TInv, HistoryOK, Next
  <2>2. CASE Doomed(u)
    <3>1. back' = {v \in users' \cap RemoteUID : v \in back \/ (Doomed(v) /\ (v \notin users
                                                   \/ ServerOf[v] \in servMap' \ servMap))}
      BY DEF Next, Remember
    <3> QED
      BY <2>1, <2>2, <3>1 DEF QuitsOK, Leaving
  <2>3. CASE \E g \in Goroutine : job[g].pc = "quitting" /\ job[g].id = u
    BY <2>1, <2>3, LinksAssumption DEF QuitsOK
  <2> QED
    BY <1>1, <2>2, <2>3, DoomedComes DEF Next
<1> QED
  BY <1>1, QuitJobs DEF QuitsOK, Leaving, Next

\* A user who has not quit stays as long as its server does: a goroutine that
\* deletes the users of a split reads them after the split, and no earlier
\* reading is acted on when the server has come back, but for those remembered.
THEOREM NoUserLostCorrect == Spec => NoUserLost
<1>1. Init => QuitsOK
  BY DEF Init, QuitsOK, NoJob, NewJob
<1>2. ASSUME TInv, QuitsOK, Next, NEW u \in (users \ users') \cap RemoteUID
      PROVE  u \in quitters \/ ServerOf[u] \notin servMap \/ u \in back
  <2>1. TakeClient
    <3>1. ASSUME NEW g \in Goroutine, Import(g) \/ UserSignOn(g) \/ \E v \in UID : BurstUser(g, v)
          PROVE  users \subseteq users'
      BY <1>2, <3>1, AddJobs DEF TInv
    <3>2. ASSUME NEW v \in LocalUID, Client(v)
          PROVE  users \subseteq users' \cup {v}
      BY <3>2 DEF Client, ClientConnects, ClientSignsOn, ClientQuits, ClientClosed, Delete, people
    <3>3. ASSUME UNCHANGED <<people, client>>
          PROVE  users \subseteq users'
      BY <3>3 DEF people
    <3> QED
      BY <1>2, <3>1, <3>2, <3>3, PeopleMoves, LinksAssumption DEF Next
  <2>2. toClient # <<>> /\ toClient \in Seq(ClientMsgs) /\ u \in Head(toClient).ids
    <3>1. toClient # <<>> /\ toClient \in Seq(ClientMsgs)
      BY <1>2, <2>1 DEF TakeClient, TInv, QueuesOK
    <3>2. UNCHANGED people \/ Delete(Head(toClient).ids)
      BY <2>1 DEF TakeClient
    <3> QED
      BY <3>1, <3>2 DEF people, Delete
  <2>3. Doomed(u)
    BY <2>2 DEF Doomed
  <2> QED
    BY <1>2, <2>3 DEF QuitsOK, Leaving
<1> DEFINE Losses == \A u \in (users \ users') \cap RemoteUID :
                       u \in quitters \/ ServerOf[u] \notin servMap \/ u \in back
<1>3. TInv /\ QuitsOK /\ [Next]_vars => [Losses]_vars
  BY <1>2
<1>4. Spec => []QuitsOK
  BY <1>1, Invariance, NextQuitsOK, PTL DEF Spec
<1> QED
  BY <1>3, <1>4, Invariance, PTL DEF Spec, NoUserLost

-----------------------------------------------------------------------------
(* What is going to happen: registrations and splits. *)

\* A goroutine that takes no step stays where it is; it may lose its record.
Waits(g) ==
    /\ job'[g].pc = job[g].pc /\ job'[g].from = job[g].from /\ job'[g].id = job[g].id
    /\ job'[g].rec = job[g].rec \/ job[g].from \notin servMap'

LEMMA OwnSteps ==
    ASSUME TInv, Step, NEW g \in Goroutine,
           job[g].pc \in {"info", "introduce", "squit", "forward", "unlink"}
    PROVE  Own(g) \/ Waits(g)
<1>1. ASSUME job'[g] = job[g]
      PROVE  Waits(g)
  BY <1>1 DEF Waits
<1>2. ASSUME NEW h \in Goroutine, h # g, \E n : Become(h, n)
      PROVE  Waits(g)
  BY <1>1, <1>2 DEF Become, TInv, JobsOK
<1>3. ASSUME Starts
      PROVE  Waits(g)
  BY <1>2, <1>3 DEF Starts, Go
<1>4. ASSUME NEW h \in Goroutine, h # g, Unlink(h)
      PROVE  Waits(g)
  <2> DEFINE gone == Gone(job[h].id)
  <2>1. servMap' = servMap \ gone
    <3>1. gone = {} => servMap' = servMap
      BY <1>4 DEF Unlink, tree
    <3>2. gone # {} => servMap' = servMap \ gone
      BY <1>4 DEF Unlink, Tree!Unlink, Gone
    <3> QED
      BY <3>1, <3>2
  <2>2. \/ job'[g] = job[g]
        \/ job[g].from \in gone /\ \E r : job'[g] = [job[g] EXCEPT !.rec = r]
    BY <1>4 DEF Unlink
  <2> HIDE DEF gone
  <2> QED
    BY <1>1, <2>1, <2>2 DEF Waits, TInv, JobsOK, Job
<1>5. ASSUME TakeClient \/ \E u \in LocalUID : ClientClosed(u)
      PROVE  Waits(g)
  BY <1>1, <1>5 DEF TakeClient, ClientClosed, DropRecord
<1>6. ASSUME NEW h \in Goroutine, h # g, Plain(h) \/ UserSplit(h) \/ AskClientLoop(h)
      PROVE  Waits(g)
  BY <1>2, <1>6, Zenon DEF Plain, UserSplit, AskClientLoop
<1> QED
  BY <1>1, <1>3, <1>4, <1>5, <1>6, JobMoves

LEMMA OwnByPc ==
    ASSUME NEW g \in Goroutine, Own(g)
    PROVE  /\ job[g].pc = "info" => ConnRegInfo(g)
           /\ job[g].pc = "introduce" => SignOn(g) \/ Spread(g)
           /\ job[g].pc = "squit" => Begin(g)
           /\ job[g].pc = "forward" => Spread(g) \/ SplitError(g) \/ Unlink(g)
           /\ job[g].pc = "unlink" => Unlink(g)
<1>1. CASE ConnRegLine(g) \/ ConnRegInfo(g) \/ SignOn(g)
  BY <1>1 DEF ConnRegLine, ConnRegInfo, SignOn
<1>2. CASE Greet(g) \/ BurstBegin(g) \/ BurstTell(g) \/ (\E u \in UID : BurstUser(g, u))
  BY <1>2 DEF Greet, BurstBegin, BurstTell, BurstUser
<1>3. CASE Sid(g) \/ Import(g) \/ Refuse(g) \/ SPing(g)
  BY <1>3 DEF Sid, Import, Refuse, SPing
<1>4. CASE Begin(g)
  BY <1>4 DEF Begin, Begun
<1>5. CASE Spread(g)
  BY <1>5 DEF Spread, Command
<1>6. CASE SplitError(g) \/ Unlink(g)
  BY <1>6 DEF SplitError, Unlink, ToUnlink
<1>7. CASE UserSplit(g) \/ AskClientLoop(g) \/ UserSignOn(g)
  BY <1>7 DEF UserSplit, AskClientLoop, UserSignOn
<1> QED
  BY <1>1, <1>2, <1>3, <1>4, <1>5, <1>6, <1>7 DEF Own

\* A goroutine will find the record of s complete, or has found it so.
Registers(g, s) ==
    job[g].pc \in {"info", "introduce"} /\ job[g].from = s /\ job[g].rec = "live"

RegistrationOK ==
    \A s \in servMap : fields[s] = Line /\ s \notin registered =>
        \E g \in Goroutine : Registers(g, s)

LEMMA NextRegistrationOK == TInv /\ RegistrationOK /\ [Next]_vars => RegistrationOK'
<1> SUFFICES ASSUME TInv, RegistrationOK, Next, NEW s \in servMap', fields'[s] = Line,
                    s \notin registered'
             PROVE  \E g \in Goroutine : Registers(g, s)'
  <2>1. ASSUME UNCHANGED vars, RegistrationOK
        PROVE  RegistrationOK'
    BY <2>1 DEF RegistrationOK, Registers, vars, servers, tree
  <2> QED
    BY <2>1 DEF RegistrationOK
<1>0. Step /\ JobsOK /\ TableOK
  BY DEF Next, TInv
<1>1. CASE s \in servMap /\ fields[s] = Line /\ s \notin registered
  <2>1. PICK g \in Goroutine : Registers(g, s)
    BY <1>1 DEF RegistrationOK
  <2> USE DEF Registers
  <2>2. job[g] \in Job /\ job'[g] \in Job
    BY <1>0, JobsStep DEF TInv, JobsOK
  <2>3. CASE Waits(g)
    BY <2>1, <2>3 DEF Waits
  <2>4. CASE ConnRegInfo(g)
    <3>1. Become(g, [job[g] EXCEPT !.pc = "introduce", !.todo = Tree!ServerIter])
      BY <1>1, <2>1, <2>4 DEF ConnRegInfo, Complete
    <3>2. job'[g] = [job[g] EXCEPT !.pc = "introduce", !.todo = Tree!ServerIter]
      BY <1>0, <3>1 DEF Become, JobsOK
    <3> QED
      BY <2>1, <2>2, <3>2 DEF Job
  <2>5. CASE SignOn(g)
    BY <2>1, <2>5 DEF SignOn
  <2>6. CASE Spread(g) /\ job[g].pc = "introduce"
    <3>1. PICK t : Become(g, [job[g] EXCEPT !.todo = @ \ {t}])
      BY <2>6 DEF Spread
    <3>2. job'[g] = [job[g] EXCEPT !.todo = @ \ {t}]
      BY <1>0, <3>1 DEF Become, JobsOK
    <3> QED
      BY <2>1, <2>2, <3>2 DEF Job
  <2> QED
    BY <1>0, <2>1, <2>3, <2>4, <2>5, <2>6, OwnSteps, OwnByPc
<1>2. ASSUME NEW k \in Conn, NEW sid \in SID, Adopt(k, sid)
      PROVE  s \in servMap /\ fields[s] = Line /\ s \notin registered
  <2>1. registered' = registered
    BY <1>2 DEF Adopt
  <2>2. CASE sid \in servMap
    BY <1>2, <2>1, <2>2 DEF Adopt, GetServer, tree
  <2>3. CASE sid \notin servMap
    <3>1. servMap' = servMap \cup {sid} /\ fields' = [fields EXCEPT ![sid] = {}]
      BY <1>2, <2>3 DEF Adopt, GetServer, Tree!GetServer
    <3> QED
      BY <1>0, <2>1, <3>1, LinksAssumption DEF TableOK
  <2> QED
    BY <2>2, <2>3
<1>3. ASSUME NEW g \in Goroutine, ConnRegLine(g)
      PROVE  (s \in servMap /\ fields[s] = Line /\ s \notin registered) \/ Registers(g, s)'
  <2> DEFINE from == job[g].from
  <2>1. from \in SID /\ job[g].rec = "live" /\ job[g] \in Job /\ registered' = registered
    BY <1>0, <1>3 DEF ConnRegLine, JobsOK, JobShape
  <2>2. CASE Become(g, [job[g] EXCEPT !.pc = "info"])
    <3>1. job'[g] = [job[g] EXCEPT !.pc = "info"]
      BY <1>0, <2>2 DEF Become, JobsOK
    <3>2. from = s => Registers(g, s)'
      BY <2>1, <3>1 DEF Registers, Job
    <3>3. from # s => s \in servMap /\ fields'[s] = fields[s]
      <4>1. \/ \E v : UNCHANGED tree /\ fields' = [fields EXCEPT ![from] = v]
            \/ \E v : Tree!GetServer(from) /\ fields' = [fields EXCEPT ![from] = v]
            \/ UNCHANGED <<tree, fields>>
        BY <1>3, Zenon DEF ConnRegLine, GetServer
      <4>2. servMap' = servMap \/ servMap' = servMap \cup {from}
        BY <4>1 DEF Tree!GetServer, tree
      <4>3. from # s => fields'[s] = fields[s]
        <5>1. s \in SID /\ fields \in [SID -> SUBSET Line]
          BY <1>0, <2>1, <4>2, TableTypes DEF TableOK
        <5>2. fields' = fields \/ \E v : fields' = [fields EXCEPT ![from] = v]
          BY <4>1, Zenon
        <5> QED
          BY <5>1, <5>2
      <4> QED
        BY <4>2, <4>3
    <3> QED
      BY <2>1, <3>2, <3>3
  <2>3. CASE GetServer(from)
    <3>1. CASE from \in servMap
      BY <2>1, <2>3, <3>1 DEF GetServer, tree
    <3>2. CASE from \notin servMap
      <4>1. servMap' = servMap \cup {from} /\ fields' = [fields EXCEPT ![from] = {}]
        BY <2>3, <3>2 DEF GetServer, Tree!GetServer
      <4> QED
        BY <1>0, <2>1, <4>1, LinksAssumption DEF TableOK
    <3> QED
      BY <3>1, <3>2
  <2> QED
    BY <1>3, <2>2, <2>3 DEF ConnRegLine
<1>4. ASSUME NEW g \in Goroutine, SignOn(g)
      PROVE  s \in servMap /\ fields[s] = Line /\ s \notin registered
  BY <1>4 DEF SignOn, tree
<1>5. ASSUME NEW g \in Goroutine, Sid(g)
      PROVE  s \in servMap /\ fields[s] = Line /\ s \notin registered
  <2>1. registered' = registered /\ job[g].id \in SID
    BY <1>0, <1>5 DEF Sid, JobsOK, JobShape
  <2>2. CASE UNCHANGED <<tree, fields>>
    BY <2>1, <2>2 DEF tree
  <2>3. CASE /\ servMap' = servMap \cup {job[g].id}
             /\ fields' = [fields EXCEPT ![job[g].id] = Line \cap {"SERVER"}]
    BY <1>0, <2>1, <2>3, LinksAssumption DEF TableOK
  <2> QED
    BY <1>5, <2>2, <2>3 DEF Sid, Tree!LinkServer
<1>6. ASSUME NEW g \in Goroutine, Unlink(g)
      PROVE  s \in servMap /\ fields[s] = Line /\ s \notin registered
  <2> DEFINE gone == Gone(job[g].id)
  <2>1. servMap' = servMap \ gone
    <3>1. gone = {} => servMap' = servMap
      BY <1>6 DEF Unlink, tree
    <3>2. gone # {} => servMap' = servMap \ gone
      BY <1>6 DEF Unlink, Tree!Unlink, Gone
    <3> QED
      BY <3>1, <3>2
  <2>2. fields' = [t \in SID |-> IF t \in gone THEN {} ELSE fields[t]] /\ registered' = registered \ gone
    BY <1>6 DEF Unlink
  <2> HIDE DEF gone
  <2> QED
    BY <1>0, <2>1, <2>2, TableTypes
<1>7. ASSUME UNCHANGED servers
      PROVE  s \in servMap /\ fields[s] = Line /\ s \notin registered
  BY <1>7 DEF servers, tree
<1> QED
  BY <1>0, <1>1, <1>2, <1>3, <1>4, <1>5, <1>6, <1>7, TableMoves

\* The goroutines of PASS, CAPAB and SERVER, in any order and any number, some
\* refused: the one that adds the last of them, or another that reads the record
\* after it, registers the server, unless it is unlinked first.
THEOREM RegisteredWhenCompleteCorrect == Spec => []RegisteredWhenComplete
<1>1. Init => RegistrationOK
  BY DEF Init, Tree!Init, RegistrationOK
<1>2. RegistrationOK => RegisteredWhenComplete
  BY DEF RegistrationOK, Registers, RegisteredWhenComplete, Quiet
<1> QED
  BY <1>1, <1>2, Invariance, NextRegistrationOK, PTL DEF Spec

\* A goroutine is about to unlink s.
Parts(g, s) == job[g].pc \in {"squit", "forward", "unlink"} /\ job[g].id = s

SplitsOK ==
    \A s \in registered : upstream[s] = NoSID /\ sid2conn[s] = NilConn /\ s \notin ghosts =>
        \E g \in Goroutine : Parts(g, s)

LEMMA NextSplitsOK == TInv /\ SplitsOK /\ [Next]_vars => SplitsOK'
<1> SUFFICES ASSUME TInv, SplitsOK, Next, NEW s \in registered', upstream'[s] = NoSID,
                    sid2conn'[s] = NilConn, s \notin ghosts'
             PROVE  \E g \in Goroutine : Parts(g, s)'
  <2>1. ASSUME UNCHANGED vars, SplitsOK
        PROVE  SplitsOK'
    BY <2>1 DEF SplitsOK, Parts, vars, servers, tree, links, history
  <2> QED
    BY <2>1 DEF SplitsOK
<1>0. Step /\ JobsOK /\ TableOK /\ LinksOK
  BY DEF Next, TInv
<1>1. s \in registered /\ s \notin ghosts /\ s \in servMap /\ s \in SID
  BY <1>0, TableTypes DEF Next, Remember, TableOK
<1>2. upstream[s] = NoSID
  <2>1. upstream \in [SID -> SID \cup {NoSID}]
    BY <1>0 DEF TableOK, TreeFacts!IInv, TreeFacts!TypeOK
  <2>2. ASSUME NEW link \in SID, NEW sid \in SID, Tree!LinkServer(link, sid)
        PROVE  upstream[s] = NoSID
    BY <1>1, <2>1, <2>2, LinksAssumption DEF Tree!LinkServer
  <2>3. ASSUME NEW sid \in SID, Tree!GetServer(sid) \/ Tree!Unlink(sid)
        PROVE  upstream[s] = NoSID
    BY <2>3 DEF Tree!GetServer, Tree!Unlink
  <2>4. CASE UNCHANGED tree
    BY <2>4 DEF tree
  <2> QED
    BY <1>0, <2>2, <2>3, <2>4, TreeMoves DEF Tree!Next
<1>3. CASE sid2conn[s] = NilConn
  <2>1. PICK g \in Goroutine : Parts(g, s)
    BY <1>1, <1>2, <1>3 DEF SplitsOK
  <2> USE DEF Parts
  <2>2. job[g] \in Job
    BY <1>0 DEF JobsOK
  <2>3. \A n : Become(g, n) => job'[g] = n
    BY <1>0 DEF Become, JobsOK
  <2>4. CASE Waits(g)
    BY <2>1, <2>4 DEF Waits
  <2>5. CASE Begin(g) /\ job[g].pc = "squit"
    <3>1. PICK out : job'[g] = [job[g] EXCEPT !.pc = Begun[@], !.todo = out]
      BY <2>3, <2>5 DEF Begin
    <3>2. Begun["squit"] = "forward"
      BY DEF Begun
    <3>3. job'[g].pc = Begun[job[g].pc] /\ job'[g].id = job[g].id
      BY <2>2, <3>1 DEF Job
    <3> QED
      BY <2>1, <2>5, <3>2, <3>3
  <2>6. CASE Spread(g) /\ job[g].pc = "forward"
    <3>1. PICK t : job'[g] = [job[g] EXCEPT !.todo = @ \ {t}]
      BY <2>3, <2>6 DEF Spread
    <3> QED
      BY <2>1, <2>2, <3>1 DEF Job
  <2>7. CASE SplitError(g)
    <3>1. job'[g] = [job[g] EXCEPT !.pc = "unlink"]
      BY <2>3, <2>7 DEF SplitError
    <3> QED
      BY <2>1, <2>2, <3>1 DEF Job
  <2>8. ~Unlink(g)
    <3>1. s \in Gone(s)
      BY <1>1, TableTypes DEF Gone, Tree!LinkedTo
    <3> QED
      BY <2>1, <3>1 DEF Unlink
  <2> QED
    BY <1>0, <2>1, <2>4, <2>5, <2>6, <2>7, <2>8, OwnSteps, OwnByPc
<1>4. CASE sid2conn[s] # NilConn
  <2>1. ASSUME NEW k \in Conn, LinkClosed(k) \/ ReceiveError(k)
        PROVE  \E g \in Goroutine : Parts(g, s)'
    <3>1. conn[k].sid = s /\ SplitLocal(s) /\ Running
      BY <1>0, <1>1, <1>4, <2>1 DEF LinkClosed, ReceiveError, LinksOK, LoopRuns
    <3>2. Tree!IsLocal(s)
      BY <1>0, <1>1, <1>2, <3>1 DEF Running, Tree!IsLocal, TableOK, TreeFacts!IInv, TreeFacts!TablesAgree
    <3>3. Go(NewJob("squit", s, NoSID, s))
      BY <1>1, <3>1, <3>2 DEF SplitLocal, Dispatch
    <3>4. PICK g \in Goroutine : job'[g] = NewJob("squit", s, NoSID, s)
      BY <1>0, <3>3 DEF Go, Become, JobsOK
    <3> QED
      BY <3>4 DEF Parts, NewJob
  <2>2. ASSUME NEW k \in Conn, NEW sid \in SID, Adopt(k, sid)
        PROVE  FALSE
    BY <1>0, <1>1, <1>4, <2>2, LinksAssumption DEF Adopt, LinksOK
  <2>3. ASSUME NEW k \in Conn, Receive(k)
        PROVE  UNCHANGED sid2conn
    BY <1>0, <2>3, Saying DEF Said
  <2>4. ASSUME NEW k \in Conn, PeerLeaves(k) \/ \E line \in Line : ReceiveLine(k, line)
        PROVE  UNCHANGED sid2conn
    BY <2>4 DEF PeerLeaves, ReceiveLine
  <2>5. ASSUME Write
        PROVE  UNCHANGED sid2conn
    BY <2>5 DEF Write
  <2> QED
    BY <1>0, <1>4, <2>1, <2>2, <2>3, <2>4, <2>5, LinkMoves DEF links
<1> QED
  BY <1>3, <1>4

\* A link that is lost, by a read, an ERROR or while other goroutines register
\* or split servers: when all is quiet its server has been unlinked.
THEOREM ClosedIsSplitCorrect == Spec => []ClosedIsSplit
<1>1. Init => SplitsOK
  BY DEF Init, SplitsOK
<1>2. SplitsOK => ClosedIsSplit
  BY DEF SplitsOK, Parts, ClosedIsSplit, Quiet
<1> QED
  BY <1>1, <1>2, Invariance, NextSplitsOK, PTL DEF Spec

-----------------------------------------------------------------------------
(* How the server loop stops. *)

\* A connection that is lost, or has been.
Lost == \E k \in Conn : conn[k].pc \in {"lost", "dead", "closed"}

LossOK ==
    /\ loop \in {"hung", "crashed"} => Lost
    /\ (\E s \in SID : sid2conn[s] = NilConn) => Lost

LEMMA LossSteps ==
    ASSUME LinksOK, QueuesOK, Step
    PROVE  /\ Lost => Lost'
           /\ \A s \in SID : sid2conn'[s] = NilConn => sid2conn[s] = NilConn \/ Lost'
<1> USE DEF LinksOK
<1>1. ASSUME NEW k \in Conn, Receive(k)
      PROVE  UNCHANGED sid2conn /\ \A x \in Conn : conn'[x].pc = conn[x].pc
  <2>1. Said(k)
    BY <1>1, Saying
  <2>2. PICK said \in SUBSET (SID \cup RemoteUID), bye \in BOOLEAN :
              conn' = [conn EXCEPT ![k].said = said, ![k].bye = bye]
    BY <2>1 DEF Said
  <2>3. UNCHANGED sid2conn
    BY <2>1, Zenon DEF Said
  <2> QED
    BY <2>2, <2>3 DEF ConnRec
<1>2. ASSUME NEW k \in Conn, PeerLeaves(k)
      PROVE  Lost' /\ UNCHANGED sid2conn
  BY <1>2 DEF PeerLeaves, Lost, ConnRec
<1>3. ASSUME NEW k \in Conn, LinkClosed(k)
      PROVE  Lost'
  BY <1>3 DEF LinkClosed, Lost, ConnRec
<1>4. ASSUME NEW k \in Conn, ReceiveError(k)
      PROVE  Lost' \/ (UNCHANGED sid2conn /\ \A x \in Conn : conn'[x].pc = conn[x].pc)
  <2> DEFINE s == conn[k].sid
             entry == sid2conn[s]
  <2>1. s \in SID /\ entry \in Conn \cup {NilConn}
    BY <1>4 DEF ReceiveError
  <2>2. CASE entry = NilConn
    <3>1. conn' = [conn EXCEPT ![k].bye = TRUE] /\ UNCHANGED sid2conn
      BY <1>4, <2>2 DEF ReceiveError
    <3> QED
      BY <3>1 DEF ConnRec
  <2>3. CASE entry # NilConn
    <3>1. PICK pc \in {"closed", "lost"} : conn' = [conn EXCEPT ![k].bye = TRUE, ![entry].pc = pc]
      BY <1>4, <2>3 DEF ReceiveError
    <3>2. entry \in Conn /\ conn'[entry].pc = pc
      BY <2>1, <2>3, <3>1 DEF ConnRec
    <3> QED
      BY <3>2 DEF Lost
  <2> QED
    BY <2>2, <2>3
<1>5. ASSUME NEW k \in Conn, NEW line \in Line, ReceiveLine(k, line)
      PROVE  UNCHANGED sid2conn /\ \A x \in Conn : conn'[x].pc = conn[x].pc
  BY <1>5 DEF ReceiveLine, ConnRec
<1>6. ASSUME NEW k \in Conn, NEW sid \in SID, Adopt(k, sid)
      PROVE  /\ \A s \in SID : sid2conn'[s] = NilConn => sid2conn[s] = NilConn
             /\ \A x \in Conn : conn[x].pc \in {"lost", "dead", "closed"} => conn'[x] = conn[x]
  <2>1. /\ sid2conn' = [sid2conn EXCEPT ![sid] = k] /\ conn[k].pc = "new"
        /\ \E pc : conn' = [conn EXCEPT ![k] = HandOver(sid, pc)]
    BY <1>6 DEF Adopt
  <2> QED
    BY <2>1, LinksAssumption
<1>7. ASSUME Write
      PROVE  UNCHANGED sid2conn /\ \A x \in Conn : conn'[x].pc = conn[x].pc
  <2>1. UNCHANGED sid2conn /\ (UNCHANGED conn \/ \E entry : conn' = [conn EXCEPT ![entry].greeted = TRUE])
    BY <1>7 DEF Write
  <2> QED
    BY <2>1 DEF ConnRec
<1>8. ASSUME UNCHANGED links
      PROVE  UNCHANGED <<sid2conn, conn>>
  BY <1>8 DEF links
<1>9. ASSUME UNCHANGED sid2conn, \A x \in Conn : conn'[x].pc = conn[x].pc
      PROVE  /\ Lost => Lost'
             /\ \A s \in SID : sid2conn'[s] = NilConn => sid2conn[s] = NilConn \/ Lost'
  BY <1>9 DEF Lost
<1>10. ASSUME NEW k \in Conn, NEW sid \in SID, Adopt(k, sid)
       PROVE  /\ Lost => Lost'
              /\ \A s \in SID : sid2conn'[s] = NilConn => sid2conn[s] = NilConn \/ Lost'
  BY <1>6, <1>10 DEF Lost
<1> QED
  BY <1>1, <1>2, <1>3, <1>4, <1>5, <1>7, <1>8, <1>9, <1>10, LinkMoves

LEMMA NextLossOK == TInv /\ LossOK /\ [Next]_vars => LossOK'
<1> SUFFICES ASSUME TInv, LossOK, Next
             PROVE  LossOK'
  <2>1. ASSUME UNCHANGED vars, LossOK
        PROVE  LossOK'
    BY <2>1 DEF LossOK, Lost, vars, links
  <2> QED
    BY <2>1
<1>0. LinksOK /\ QueuesOK /\ Step
  BY DEF TInv, Next
<1>1. loop' \in {"hung", "crashed"} => loop \in {"hung", "crashed"} \/ Lost
  <2>1. CASE Write
    <3>1. CASE Entry(Head(toServer).to) = NilConn
      <4>1. Head(toServer).to \in SID \cup {NoSID}
        <5>1. Head(toServer) \in ServerMsg
          BY <1>0, <2>1 DEF Write, QueuesOK
        <5> QED
          BY <5>1 DEF ServerMsg
      <4>2. Head(toServer).to \in SID /\ sid2conn[Head(toServer).to] = NilConn
        BY <3>1, <4>1, LinksAssumption DEF Entry
      <4> QED
        BY <4>2 DEF LossOK
    <3>2. CASE Entry(Head(toServer).to) # NilConn
      BY <2>1, <3>2 DEF Write, Lost
    <3> QED
      BY <3>1, <3>2
  <2>2. CASE TakeClient
    BY <2>2 DEF TakeClient
  <2>3. Write \/ TakeClient \/ UNCHANGED loop
    BY <1>0, LoopMoves
  <2> QED
    BY <2>1, <2>2, <2>3
<1>2. (\E s \in SID : sid2conn'[s] = NilConn) => Lost'
  BY <1>0, LossSteps DEF LossOK
<1>3. loop' \in {"hung", "crashed"} => Lost'
  BY <1>0, <1>1, LossSteps DEF LossOK
<1> QED
  BY <1>2, <1>3 DEF LossOK, Lost

\* No message stops the server loop, for a server that was never there or has not
\* been heard of, as long as no connection of a server has been lost.
THEOREM LoopEndsOnLossCorrect == Spec => []LoopEndsOnLoss
<1>1. Init => LossOK
  BY LinksAssumption DEF Init, LossOK
<1>2. LossOK => LoopEndsOnLoss
  BY DEF LossOK, Lost, LoopEndsOnLoss
<1> QED
  BY <1>1, <1>2, Invariance, NextLossOK, PTL DEF Spec

-----------------------------------------------------------------------------
(* The views of the links: every link is told of exactly the registered local
   users. *)


\* Where a goroutine is; its record may go at any time.
Same(g) == /\ job'[g].pc = job[g].pc /\ job'[g].from = job[g].from
           /\ job'[g].id = job[g].id /\ job'[g].todo = job[g].todo

\* g will tell server s of user u in its burst; is about to; has told s of the
\* sign-on of u, or not found it among the links; has its quit to tell.
Greets(g, s, u) ==
    /\ job[g].from = s
    /\ \/ job[g].pc \in {"greet", "users"}
       \/ job[g].pc \in {"burst", "tell"} /\ u \in job[g].todo
       \/ job[g].pc = "tell" /\ job[g].id = u
TellsOf(g, s, u) == job[g].from = s /\ job[g].pc = "tell" /\ job[g].id = u
Announces(g, u) == job[g].pc = "announce" /\ job[g].id = u
Passed(g, s, u) == Announces(g, u) /\ s \notin job[g].todo
Quits(g, u) == job[g].pc = "quitting" /\ job[g].id = u
QuitsTo(g, s, u) == Quits(g, u) /\ s \in job[g].todo

\* The i-th message of the server loop is such a one.
Sent(i, s, cmd) == i \in 1..Len(toServer) /\ toServer[i].to = s /\ toServer[i].cmd = cmd
SentOf(i, s, cmd, u) == Sent(i, s, cmd) /\ toServer[i].id = u

Leaves(u) == Quitting(u) \/ client[u] = "gone"
Listed(u) == u \in signed \/ Announced(u)
Stays(u) == ~Leaves(u) /\ Listed(u)
Due(s, u) == ~Leaves(u) /\ (u \in signed \/ \E g \in Goroutine : Passed(g, s, u))
Ahead(s, u) == \E g \in Goroutine : Greets(g, s, u)
QuitAhead(s, u) == \E g \in Goroutine : QuitsTo(g, s, u)
InView(s, u) == sid2conn[s] \in Conn /\ u \in view[sid2conn[s]]
LinkUp(s) == s \in registered /\ upstream[s] = NoSID
Open(s) == LinkUp(s) /\ sid2conn[s] \in Conn /\ Answered(sid2conn[s])

\* The reasons why ViewsAgree leaves u out for s: from the next step on they
\* are remembered in raced or vanished.
Excused(s, u) ==
    \/ <<s, u>> \in raced \/ u \in vanished
    \/ (\E g \in Goroutine : TellsOf(g, s, u)) /\ Moving(u)
    \/ Announced(u) /\ (Quitting(u) \/ client[u] = "gone")
    \/ Quitting(u) /\ s \notin Tree!ServerIter /\ ToldOf(s, u)

\* A link is told of every user that is due, after the SERVER message, ...
Reached(s, u) ==
    /\ (Open(s) /\ Due(s, u)) =>
         InView(s, u) \/ (\E i \in Nat : SentOf(i, s, "UID", u)) \/ Ahead(s, u)
    /\ \A i \in Nat : (LinkUp(s) /\ Due(s, u) /\ Sent(i, s, "SERVER")) =>
         (\E j \in Nat : j > i /\ SentOf(j, s, "UID", u)) \/ Ahead(s, u)

\* ... and who is told of stays, or is taken back later.
TakenBack(s, u) ==
    /\ InView(s, u) =>
         Stays(u) \/ QuitAhead(s, u) \/ \E i \in Nat : SentOf(i, s, "QUIT", u)
    /\ \A i \in Nat : SentOf(i, s, "UID", u) =>
         Stays(u) \/ QuitAhead(s, u) \/ \E j \in Nat : j > i /\ SentOf(j, s, "QUIT", u)

TellsSigned(s, u) == \A g \in Goroutine : TellsOf(g, s, u) => u \in signed

ViewOK(s, u) == Excused(s, u) \/ (Reached(s, u) /\ TakenBack(s, u) /\ TellsSigned(s, u))

\* The life of a local user.
LifeOK(u) ==
    /\ u \in signed => client[u] = "on"
    /\ client[u] = "on" => u \in users
    /\ \A g \in Goroutine : job[g].pc \in {"user", "announce"} /\ job[g].id = u =>
         /\ job[g].from = NoSID /\ client[u] # "off"
         /\ client[u] # "gone" <=> job[g].rec = "live"
    /\ \A g \in Goroutine : job[g].pc \in {"quit", "quitting"} /\ job[g].id = u => job[g].from = NoSID

\* A QUIT is sent for those who leave.
QuitsLeave(u) == \A i \in Nat, s \in SID : SentOf(i, s, "QUIT", u) => Leaves(u)

\* A server registers on a connection it has, or had.
HadConn(s) == \E k \in Conn : conn[k].sid = s
ConnsOK ==
    /\ \A k \in Conn : conn[k].pc = "new" => conn[k].sid = NoSID /\ view[k] = {} /\ ~conn[k].greeted
    /\ \A s \in registered : HadConn(s)
    /\ \A g \in Goroutine : job[g].pc \in {"line", "info", "introduce"} => HadConn(job[g].from)

VInv ==
    /\ ConnsOK
    /\ \A u \in LocalUID : LifeOK(u) /\ QuitsLeave(u)
    /\ loop = "up" => \A s \in SID, u \in LocalUID : ViewOK(s, u)

-----------------------------------------------------------------------------
(* The steps of goroutines. *)

\* A SQUIT for a link: its connection has closed, it says goodbye, or it speaks of id.
SquitOf(from, id) ==
    \E k \in Conn : /\ conn[k].sid = from /\ conn'[k].sid = from
                    /\ conn'[k].bye \/ conn'[k].pc = "closed" \/ id \in conn[k].said

\* A goroutine that is started.
Fresh(g) ==
    /\ job[g].pc = "idle" /\ UNCHANGED <<toServer, toClient, servers, people, view>>
    /\ job'[g].pc \in {"line", "squit", "sid", "uid", "quit", "ping", "user"}
    /\ job'[g].pc = "line" => \E k \in Conn : job'[g].from = conn[k].sid
    /\ job'[g].pc = "user" => /\ job'[g].from = NoSID /\ job'[g].rec = "live"
                              /\ job'[g].id \in LocalUID /\ client'[job'[g].id] = "on"
    /\ job'[g].pc = "quit" => job'[g].from = NoSID \/ job'[g].id \in RemoteUID
    /\ job'[g].pc = "squit" => SquitOf(job'[g].from, job'[g].id)

LEMMA Become1 ==
    ASSUME JobsOK, NEW g \in Goroutine, NEW n, Become(g, n)
    PROVE  job'[g] = n /\ \A h \in Goroutine \ {g} : job'[h] = job[h] /\ Same(h)
BY DEF Become, JobsOK, Same

LEMMA FreshJobs ==
    ASSUME TInv, Step
    PROVE  \/ UNCHANGED job
           \/ \E g \in Goroutine : Fresh(g) /\ \A h \in Goroutine \ {g} : job'[h] = job[h]
           \/ \E g \in Goroutine : Own(g)
           \/ TakeClient
           \/ \E u \in LocalUID : ClientClosed(u)
<1> DEFINE Started == \E g \in Goroutine : Fresh(g) /\ \A h \in Goroutine \ {g} : job'[h] = job[h]
<1>0. ASSUME NEW n, Go(n), UNCHANGED <<toServer, toClient, servers, people, view>>,
             n.pc \in {"line", "squit", "sid", "uid", "quit", "ping", "user"},
             n.pc = "line" => \E k \in Conn : n.from = conn[k].sid,
             n.pc = "user" => /\ n.from = NoSID /\ n.rec = "live" /\ n.id \in LocalUID
                              /\ client'[n.id] = "on",
             n.pc = "quit" => n.from = NoSID \/ n.id \in RemoteUID,
             n.pc = "squit" => SquitOf(n.from, n.id)
      PROVE  Started
  <2>1. PICK g \in Goroutine : job[g].pc = "idle" /\ Become(g, n)
    BY <1>0 DEF Go
  <2>2. job'[g] = n /\ \A h \in Goroutine \ {g} : job'[h] = job[h]
    BY <2>1, Become1 DEF TInv
  <2>3. Fresh(g)
    BY <1>0, <2>1, <2>2, Zenon DEF Fresh
  <2> QED
    BY <2>2, <2>3
<1>r. conn \in [Conn -> ConnRec]
  BY DEF TInv, LinksOK
<1>1. ASSUME NEW k \in Conn, Receive(k)
      PROVE  Started \/ UNCHANGED job
  <2>1. Said(k) /\ quitters' \subseteq RemoteUID
    BY <1>1, Saying DEF TInv, HistoryOK
  <2>2. PICK said \in SUBSET (SID \cup RemoteUID), bye \in BOOLEAN, n \in Job :
                 /\ Go(n) \/ UNCHANGED job
                 /\ n.pc \in {"squit", "sid", "uid", "quit", "ping"}
                 /\ n.pc = "quit" => n.id \in quitters'
                 /\ n.from = conn[k].sid
                 /\ n.pc = "squit" => bye \/ n.id \in conn[k].said
                 /\ conn' = [conn EXCEPT ![k].said = said, ![k].bye = bye]
    BY <2>1, ZenonT(60) DEF Said
  <2>4. n.pc = "squit" => SquitOf(n.from, n.id)
    BY <1>r, <2>2 DEF SquitOf, ConnRec
  <2>3. UNCHANGED <<toServer, toClient, servers, people, view>>
    BY <1>1, Zenon DEF Receive, ReceiveSQuit, ReceiveSid, ReceiveUid, ReceiveQuit, ReceiveFarewell,
                     ReceivePing, Says
  <2> QED
    BY <1>0, <2>1, <2>2, <2>3, <2>4
<1>2. ASSUME NEW k \in Conn, LinkClosed(k) \/ ReceiveError(k)
      PROVE  Started \/ UNCHANGED job
  <2> DEFINE s == conn[k].sid
             n == NewJob("squit", s, NoSID, s)
  <2>1. n.pc = "squit" /\ n.from = s /\ n.id = s
    BY DEF NewJob
  <2>2. Go(n) \/ UNCHANGED job
    BY <1>2, Zenon DEF LinkClosed, ReceiveError, SplitLocal, Dispatch
  <2>3. UNCHANGED <<toServer, toClient, servers, people, view>>
    BY <1>2, Zenon DEF LinkClosed, ReceiveError
  <2>4. SquitOf(s, s)
    <3>1. conn'[k].sid = s /\ (conn'[k].bye \/ conn'[k].pc = "closed")
      <4>1. CASE LinkClosed(k)
        BY <1>r, <4>1 DEF LinkClosed, ConnRec
      <4>2. CASE ReceiveError(k)
        <5>1. \/ conn' = [conn EXCEPT ![k].bye = TRUE]
              \/ \E pc : conn' = [conn EXCEPT ![k].bye = TRUE, ![sid2conn[s]].pc = pc]
          BY <4>2 DEF ReceiveError
        <5>2. CASE conn' = [conn EXCEPT ![k].bye = TRUE]
          BY <1>r, <5>2 DEF ConnRec
        <5>3. ASSUME NEW pc, conn' = [conn EXCEPT ![k].bye = TRUE, ![sid2conn[s]].pc = pc]
              PROVE  conn'[k].sid = s /\ conn'[k].bye
          BY <1>r, <5>3 DEF ConnRec
        <5> QED
          BY <5>1, <5>2, <5>3
      <4> QED
        BY <1>2, <4>1, <4>2
    <3> QED
      BY <3>1 DEF SquitOf
  <2> HIDE DEF n
  <2> QED
    BY <1>0, <2>1, <2>2, <2>3, <2>4
<1>3. ASSUME NEW k \in Conn, NEW line \in Line, ReceiveLine(k, line)
      PROVE  Started \/ UNCHANGED job
  <2> DEFINE n == NewJob("line", conn[k].sid, NoSID, line)
  <2>1. n.pc = "line" /\ n.from = conn[k].sid
    BY DEF NewJob
  <2>2. Go(n) \/ UNCHANGED job
    BY <1>3, Zenon DEF ReceiveLine
  <2>3. UNCHANGED <<toServer, toClient, servers, people, view>>
    BY <1>3, Zenon DEF ReceiveLine
  <2> HIDE DEF n
  <2> QED
    BY <1>0, <2>1, <2>2, <2>3
<1>4. ASSUME NEW k \in Conn, PeerLeaves(k) \/ \E sid \in SID : Adopt(k, sid)
      PROVE  UNCHANGED job
  BY <1>4, Zenon DEF PeerLeaves, Adopt
<1>5. ASSUME Write
      PROVE  UNCHANGED job
  BY <1>5, Zenon DEF Write
<1>6. ASSUME NEW u \in LocalUID, ClientConnects(u) \/ ClientSignsOn(u) \/ ClientQuits(u)
      PROVE  Started \/ UNCHANGED job
  <2> DEFINE n(pc) == NewJob(pc, NoSID, NoSID, u)
  <2>1. \A pc : n(pc).pc = pc /\ n(pc).id = u /\ n(pc).from = NoSID /\ n(pc).rec = "live"
    BY DEF NewJob
  <2>2. \/ Go(n("user")) /\ ClientSignsOn(u)
        \/ Go(n("quit")) /\ ClientQuits(u)
        \/ UNCHANGED job
    BY <1>6, Zenon DEF ClientConnects, ClientSignsOn, ClientQuits
  <2>3. ClientSignsOn(u) \/ ClientQuits(u) => UNCHANGED <<toServer, toClient, servers, people, view>>
    BY Zenon DEF ClientSignsOn, ClientQuits, links
  <2>4. ClientSignsOn(u) => client'[u] = "on"
    BY DEF ClientSignsOn, TInv, PeopleOK
  <2> HIDE DEF n
  <2>5. CASE Go(n("user")) /\ ClientSignsOn(u)
    BY <1>0, <2>1, <2>3, <2>4, <2>5
  <2>6. CASE Go(n("quit")) /\ ClientQuits(u)
    BY <1>0, <2>1, <2>3, <2>6
  <2> QED
    BY <2>2, <2>5, <2>6
<1>7. ASSUME NEW g \in Goroutine, Send(g)
      PROVE  Own(g)
  BY <1>7, Zenon DEF Send, Own
<1>8. ASSUME NEW g \in Goroutine, ConnRegLine(g) \/ SignOn(g) \/ Sid(g) \/ Import(g) \/ UserSignOn(g)
                                  \/ (\E u \in UID : BurstUser(g, u)) \/ Unlink(g)
      PROVE  Own(g)
  BY <1>8, Zenon DEF Own
<1> QED
  BY <1>1, <1>2, <1>3, <1>4, <1>5, <1>6, <1>7, <1>8, Zenon DEF Step, Receive, Send, Client

LEMMA OneGoes ==
    ASSUME TInv, Step
    PROVE  \/ \A h \in Goroutine : Same(h)
           \/ \E g \in Goroutine : Fresh(g) /\ \A h \in Goroutine \ {g} : Same(h)
           \/ \E g \in Goroutine : Own(g) /\ \A h \in Goroutine \ {g} : Same(h)
<1>1. CASE UNCHANGED job
  BY <1>1 DEF Same
<1>2. CASE TakeClient \/ \E u \in LocalUID : ClientClosed(u)
  <2>1. UNCHANGED job \/ \E uids : DropRecord(uids)
    BY <1>2, Zenon DEF TakeClient, ClientClosed
  <2> QED
    BY <1>1, <2>1 DEF DropRecord, Same, TInv, JobsOK, Job
<1>3. ASSUME NEW g \in Goroutine, Own(g)
      PROVE  \A h \in Goroutine \ {g} : Same(h)
  <2>1. Plain(g) \/ Unlink(g) \/ UserSplit(g) \/ AskClientLoop(g)
    BY <1>3, PlainSteps DEF Own, TInv
  <2>2. CASE Plain(g) \/ UserSplit(g) \/ AskClientLoop(g)
    <3>1. \E n : Become(g, n)
      BY <2>2, Zenon DEF Plain, UserSplit, AskClientLoop
    <3> QED
      BY <3>1, Become1 DEF TInv
  <2>3. CASE Unlink(g)
    BY <2>3 DEF Unlink, Same, TInv, JobsOK, Job
  <2> QED
    BY <2>1, <2>2, <2>3
<1>4. ASSUME NEW g \in Goroutine, \A h \in Goroutine \ {g} : job'[h] = job[h]
      PROVE  \A h \in Goroutine \ {g} : Same(h)
  BY <1>4 DEF Same
<1> QED
  BY <1>1, <1>2, <1>3, <1>4, FreshJobs

LEMMA Goes ==
    ASSUME TInv, Step, NEW g \in Goroutine
    PROVE  Same(g) \/ Fresh(g) \/ Own(g)
BY OneGoes

\* Who is announced keeps its record, unless it is deleted.
LEMMA Firm ==
    ASSUME TInv, Step, NEW g \in Goroutine, job[g].pc \in {"user", "announce"}
    PROVE  job'[g] = job[g] \/ Own(g) \/ TakeClient \/ \E u \in LocalUID : ClientClosed(u)
<1>1. ASSUME NEW h \in Goroutine, Own(h), h # g
      PROVE  job'[g] = job[g]
  <2>1. Plain(h) \/ Unlink(h) \/ UserSplit(h) \/ AskClientLoop(h)
    BY <1>1, PlainSteps DEF Own, TInv
  <2>2. CASE Plain(h) \/ UserSplit(h) \/ AskClientLoop(h)
    <3>1. \E n : Become(h, n)
      BY <2>2, Zenon DEF Plain, UserSplit, AskClientLoop
    <3> QED
      BY <1>1, <3>1, Become1 DEF TInv
  <2>3. CASE Unlink(h)
    BY <1>1, <2>3 DEF Unlink, HoldsRecord
  <2> QED
    BY <2>1, <2>2, <2>3
<1>2. ASSUME NEW h \in Goroutine, Fresh(h), \A i \in Goroutine \ {h} : job'[i] = job[i]
      PROVE  job'[g] = job[g]
  BY <1>2 DEF Fresh
<1> QED
  BY <1>1, <1>2, FreshJobs

\* What a goroutine does where it is.
LEMMA AtPc ==
    ASSUME NEW g \in Goroutine, Own(g)
    PROVE  \/ ConnRegLine(g) /\ job[g].pc = "line"
           \/ ConnRegInfo(g) /\ job[g].pc = "info"
           \/ SignOn(g) /\ job[g].pc = "introduce"
           \/ Greet(g) /\ job[g].pc = "greet"
           \/ BurstBegin(g) /\ job[g].pc = "users"
           \/ (\E u \in UID : BurstUser(g, u)) /\ job[g].pc = "burst"
           \/ BurstTell(g) /\ job[g].pc = "tell"
           \/ Sid(g) /\ job[g].pc = "sid"
           \/ Import(g) /\ job[g].pc = "uid"
           \/ Refuse(g) /\ job[g].pc = "refuse"
           \/ SPing(g) /\ job[g].pc = "ping"
           \/ Begin(g) /\ job[g].pc \in {"squit", "quit", "user"}
           \/ Spread(g) /\ job[g].pc \in {"introduce", "forward", "quitting", "announce", "route"}
           \/ SplitError(g) /\ job[g].pc = "forward"
           \/ Unlink(g) /\ job[g].pc \in {"unlink", "forward"}
           \/ UserSplit(g) /\ job[g].pc = "split"
           \/ /\ AskClientLoop(g)
              /\ job[g].pc \in {"delete", "welcome"} \/ (job[g].pc = "quitting" /\ job[g].todo = {})
           \/ UserSignOn(g) /\ job[g].pc = "announce"
<1>1. \/ ~(\E u \in UID : BurstUser(g, u))
      \/ job[g].pc = "burst"
  BY Zenon DEF BurstUser
<1>2. Begin(g) => job[g].pc \in {"squit", "quit", "user"}
  BY DEF Begin, Begun
<1>3. Spread(g) => job[g].pc \in {"introduce", "forward", "quitting", "announce", "route"}
  BY DEF Spread, Command
<1>4. Unlink(g) => job[g].pc \in {"unlink", "forward"}
  BY DEF Unlink, ToUnlink
<1>5. AskClientLoop(g) => \/ job[g].pc \in {"delete", "welcome"}
                          \/ job[g].pc = "quitting" /\ job[g].todo = {}
  BY DEF AskClientLoop
<1>6. /\ ConnRegLine(g) => job[g].pc = "line"
      /\ ConnRegInfo(g) => job[g].pc = "info"
      /\ SignOn(g) => job[g].pc = "introduce"
      /\ Greet(g) => job[g].pc = "greet"
      /\ BurstBegin(g) => job[g].pc = "users"
      /\ BurstTell(g) => job[g].pc = "tell"
      /\ Sid(g) => job[g].pc = "sid"
      /\ Import(g) => job[g].pc = "uid"
  BY Zenon DEF ConnRegLine, ConnRegInfo, SignOn, Greet, BurstBegin, BurstTell, Sid, Import
<1>7. /\ Refuse(g) => job[g].pc = "refuse"
      /\ SPing(g) => job[g].pc = "ping"
      /\ SplitError(g) => job[g].pc = "forward"
      /\ UserSplit(g) => job[g].pc = "split"
      /\ UserSignOn(g) => job[g].pc = "announce"
  BY Zenon DEF Refuse, SPing, SplitError, UserSplit, UserSignOn
<1> QED
  BY <1>1, <1>2, <1>3, <1>4, <1>5, <1>6, <1>7 DEF Own

\* Where it goes: the steps that matter here, by what they change.
Kept(g) == job'[g].from = job[g].from /\ job'[g].id = job[g].id /\ job'[g].rec = job[g].rec
Ends(g) == job'[g].pc = "idle"
Sends(to, cmd, id) == toServer' = Append(toServer, Msg(to, cmd, id))

GreetTurn(g) ==
    /\ Greet(g) /\ job[g].pc = "greet" /\ job'[g].pc = "users" /\ Kept(g)
    /\ Sends(job[g].from, "SERVER", Me)
BeginTurn(g) ==
    /\ BurstBegin(g) /\ job[g].pc = "users" /\ UNCHANGED toServer
    /\ \/ users = {} /\ Ends(g)
       \/ job'[g].pc = "burst" /\ job'[g].todo = users /\ Kept(g)
UserTurn(g, u) ==
    /\ BurstUser(g, u) /\ job[g].pc = "burst" /\ u \in job[g].todo /\ UNCHANGED <<toServer, signed>>
    /\ \/ /\ u \in signed /\ job'[g].pc = "tell" /\ job'[g].id = u
          /\ job'[g].from = job[g].from /\ job'[g].todo = job[g].todo \ {u}
       \/ u \notin signed /\ job[g].todo \ {u} = {} /\ Ends(g) /\ job'[g].todo = {}
       \/ u \notin signed /\ job'[g].pc = "burst" /\ job'[g].todo = job[g].todo \ {u} /\ Kept(g)
TellTurn(g) ==
    /\ BurstTell(g) /\ job[g].pc = "tell" /\ Sends(job[g].from, "UID", job[g].id)
    /\ \/ job[g].todo = {} /\ Ends(g)
       \/ job'[g].pc = "burst" /\ job'[g].todo = job[g].todo /\ Kept(g)
StartTurn(g) ==
    /\ Begin(g) /\ job[g].pc \in {"quit", "user"} /\ UNCHANGED <<toServer, toClient, servers, people, links, client>>
    /\ job'[g].pc = IF job[g].pc = "quit" THEN "quitting" ELSE "announce"
    /\ Kept(g) /\ job'[g].todo = Tree!ServerIter \ {job[g].from}
SpreadTurn(g, s) ==
    /\ Spread(g) /\ job[g].pc \in {"quitting", "announce"} /\ s \in job[g].todo
    /\ UNCHANGED <<toClient, servers, people, links, client>>
    /\ job'[g].pc = job[g].pc /\ Kept(g) /\ job'[g].todo = job[g].todo \ {s}
    /\ Sends(s, IF job[g].pc = "quitting" THEN "QUIT" ELSE "UID", job[g].id)
SignOnTurn(g) ==
    /\ UserSignOn(g) /\ job[g].pc = "announce" /\ job[g].todo = {} /\ UNCHANGED toServer
    /\ job'[g].pc = "welcome" /\ signed' = IF job[g].rec = "live" THEN signed \cup {job[g].id} ELSE signed
QuitTurn(g) ==
    /\ AskClientLoop(g) /\ job[g].pc = "quitting" /\ job[g].todo = {} /\ Ends(g)
    /\ UNCHANGED <<toServer, signed, client>>
    /\ toClient' = Append(toClient, ClientMsg("ERROR", job[g].id, {job[g].id}))
LinkTurn(g) ==
    /\ SignOn(g) /\ job[g].pc = "introduce" /\ job'[g].pc = "greet" /\ Kept(g) /\ UNCHANGED toServer
    /\ registered' = IF job[g].rec = "live" THEN registered \cup {job[g].from} ELSE registered
Apart == {"idle", "sid", "uid", "refuse", "ping", "route", "squit", "forward", "unlink", "split", "delete",
          "welcome"}
OtherTurn(g) ==
    /\ job[g].pc \in Apart \cup {"line", "info", "introduce"}
    /\ job'[g].pc \in Apart \cup {"info", "introduce"}
    /\ job'[g].pc \in {"info", "introduce"} =>
         job[g].pc \in {"line", "info", "introduce"} /\ job'[g].from = job[g].from
    /\ job'[g].pc \in {"squit", "forward", "unlink"} => job[g].pc \in {"squit", "forward"} /\ Kept(g)
    /\ \/ UNCHANGED toServer
       \/ \E to, cmd, id : cmd \notin {"SERVER", "UID", "QUIT"} /\ Sends(to, cmd, id)

Turn(g) ==
    \/ GreetTurn(g) \/ BeginTurn(g) \/ (\E u \in UID : UserTurn(g, u)) \/ TellTurn(g)
    \/ StartTurn(g) \/ (\E s \in SID : SpreadTurn(g, s)) \/ SignOnTurn(g) \/ QuitTurn(g)
    \/ LinkTurn(g) \/ OtherTurn(g)

-----------------------------------------------------------------------------

LEMMA Turns ==
    ASSUME TInv, NEW g \in Goroutine, Own(g)
    PROVE  Turn(g)
<1> DEFINE j == job[g]
<1>0. j \in Job /\ JobShape(j, servMap, users)
  BY DEF TInv, JobsOK
<1>a. ASSUME NEW n, Become(g, n)
      PROVE  job'[g] = n
  BY <1>a, Become1 DEF TInv
<1>b. NoJob.pc = "idle" /\ NoJob.todo = {}
  BY DEF NoJob, NewJob
<1>c. ASSUME NEW pc, Become(g, [j EXCEPT !.pc = pc])
      PROVE  job'[g].pc = pc /\ Kept(g) /\ job'[g].todo = j.todo
  BY <1>0, <1>c, <1>a DEF Kept, Job
<1>d. ASSUME NEW pc, NEW todo, Become(g, [j EXCEPT !.pc = pc, !.todo = todo])
      PROVE  job'[g].pc = pc /\ Kept(g) /\ job'[g].todo = todo
  BY <1>0, <1>d, <1>a DEF Kept, Job
<1>e. ASSUME Become(g, NoJob)
      PROVE  Ends(g) /\ job'[g].todo = {} /\ job'[g].pc \in Apart
  BY <1>e, <1>a, <1>b DEF Ends, Apart
<1>1. CASE ConnRegLine(g) /\ j.pc = "line"
  <2>1. (Become(g, [j EXCEPT !.pc = "info"]) \/ Become(g, [j EXCEPT !.pc = "refuse"])) /\ UNCHANGED toServer
    BY <1>1, Zenon DEF ConnRegLine
  <2> QED
    BY <1>1, <1>c, <2>1 DEF Turn, OtherTurn, Apart, Kept
<1>2. CASE ConnRegInfo(g) /\ j.pc = "info"
  <2>1. /\ UNCHANGED toServer
        /\ Become(g, NoJob) \/ Become(g, [j EXCEPT !.pc = "introduce", !.todo = Tree!ServerIter])
    BY <1>2, Zenon DEF ConnRegInfo
  <2> QED
    BY <1>2, <1>d, <1>e, <2>1 DEF Turn, OtherTurn, Apart, Kept, Ends
<1>3. CASE SignOn(g) /\ j.pc = "introduce"
  <2>1. /\ UNCHANGED toServer /\ Become(g, [j EXCEPT !.pc = "greet"])
        /\ registered' = IF j.rec = "live" THEN registered \cup {j.from} ELSE registered
    BY <1>3, Zenon DEF SignOn
  <2> QED
    BY <1>3, <1>c, <2>1 DEF Turn, LinkTurn
<1>4. CASE Greet(g) /\ j.pc = "greet"
  <2>1. toServer' = Append(toServer, Msg(j.from, "SERVER", Me)) /\ Become(g, [j EXCEPT !.pc = "users"])
    BY <1>4, Zenon DEF Greet, Post
  <2> QED
    BY <1>4, <1>c, <2>1 DEF Turn, GreetTurn, Sends
<1>5. CASE BurstBegin(g) /\ j.pc = "users"
  <2>1. /\ UNCHANGED toServer
        /\ \/ users = {} /\ Become(g, NoJob)
           \/ Become(g, [j EXCEPT !.pc = "burst", !.todo = users])
    BY <1>5 DEF BurstBegin
  <2> QED
    BY <1>5, <1>d, <1>e, <2>1 DEF Turn, BeginTurn
<1>6. ASSUME NEW u \in UID, BurstUser(g, u), j.pc = "burst"
      PROVE  UserTurn(g, u)
  <2> DEFINE rest == [j EXCEPT !.todo = @ \ {u}]
  <2>1. u \in j.todo /\ UNCHANGED <<toServer, signed>>
    BY <1>6 DEF BurstUser
  <2>2. rest.todo = j.todo \ {u} /\ rest.pc = "burst" /\ rest.from = j.from /\ rest.id = j.id /\ rest.rec = j.rec
    BY <1>0, <1>6 DEF Job
  <2>3. LET n == [rest EXCEPT !.pc = "tell", !.id = u] IN
        n.pc = "tell" /\ n.id = u /\ n.from = j.from /\ n.todo = j.todo \ {u}
    BY <1>0, <1>6 DEF Job
  <2>4. \/ u \in signed /\ Become(g, [rest EXCEPT !.pc = "tell", !.id = u])
        \/ u \notin signed /\ rest.todo = {} /\ Become(g, NoJob)
        \/ u \notin signed /\ Become(g, rest)
    BY <1>6 DEF BurstUser
  <2> HIDE DEF rest
  <2>5. CASE u \in signed /\ Become(g, [rest EXCEPT !.pc = "tell", !.id = u])
    BY <1>6, <1>a, <2>1, <2>3, <2>5 DEF UserTurn
  <2>6. CASE u \notin signed /\ rest.todo = {} /\ Become(g, NoJob)
    BY <1>6, <1>e, <2>1, <2>2, <2>6 DEF UserTurn
  <2>7. CASE u \notin signed /\ Become(g, rest)
    BY <1>6, <1>a, <2>1, <2>2, <2>7 DEF UserTurn, Kept
  <2> QED
    BY <2>4, <2>5, <2>6, <2>7
<1>7. CASE BurstTell(g) /\ j.pc = "tell"
  <2>1. /\ toServer' = Append(toServer, Msg(j.from, "UID", j.id))
        /\ \/ j.todo = {} /\ Become(g, NoJob)
           \/ Become(g, [j EXCEPT !.pc = "burst"])
    BY <1>7 DEF BurstTell, Post
  <2> QED
    BY <1>7, <1>c, <1>e, <2>1 DEF Turn, TellTurn, Sends
<1>8. CASE (Sid(g) /\ j.pc = "sid") \/ (Import(g) /\ j.pc = "uid")
  <2>1. (Become(g, NoJob) \/ Become(g, [j EXCEPT !.pc = "refuse"])) /\ UNCHANGED toServer
    BY <1>8, Zenon DEF Sid, Import
  <2> QED
    BY <1>8, <1>c, <1>e, <2>1 DEF Turn, OtherTurn, Apart, Ends
<1>9. CASE Refuse(g) /\ j.pc = "refuse"
  <2>1. Become(g, NoJob) /\ \E cmd \in {"ERROR", "SQUIT"} : Sends(j.from, cmd, NoUID)
    BY <1>9 DEF Refuse, Post, Sends
  <2> QED
    BY <1>9, <1>e, <2>1 DEF Turn, OtherTurn, Apart, Ends
<1>10. CASE SPing(g) /\ j.pc = "ping"
  <2>1. \/ Become(g, NoJob) /\ (UNCHANGED toServer \/ Sends(j.from, "PONG", NoUID))
        \/ (\E out : Become(g, [j EXCEPT !.pc = "route", !.todo = out])) /\ UNCHANGED toServer
    BY <1>10, Zenon DEF SPing, Post, Sends
  <2> QED
    BY <1>10, <1>d, <1>e, <2>1 DEF Turn, OtherTurn, Apart, Ends
<1>11. CASE Begin(g) /\ j.pc \in {"squit", "quit", "user"}
  <2>1. /\ UNCHANGED <<toServer, toClient, servers, people, links, client>>
        /\ Become(g, [j EXCEPT !.pc = Begun[@], !.todo = Tree!ServerIter \ {j.from}])
    BY <1>11, Zenon DEF Begin
  <2>2. [j EXCEPT !.pc = Begun[@], !.todo = Tree!ServerIter \ {j.from}]
          = [j EXCEPT !.pc = Begun[j.pc], !.todo = Tree!ServerIter \ {j.from}]
    BY <1>0 DEF Job
  <2>3. job'[g].pc = Begun[j.pc] /\ Kept(g) /\ job'[g].todo = Tree!ServerIter \ {j.from}
    BY <1>d, <2>1, <2>2
  <2>4. CASE j.pc = "squit"
    BY <1>11, <2>1, <2>3, <2>4 DEF Turn, OtherTurn, Apart, Begun
  <2>5. CASE j.pc \in {"quit", "user"}
    <3>1. job'[g].pc = IF j.pc = "quit" THEN "quitting" ELSE "announce"
      BY <2>3, <2>5 DEF Begun
    <3> QED
      BY <1>11, <2>1, <2>3, <2>5, <3>1, Zenon DEF Turn, StartTurn
  <2> QED
    BY <1>11, <2>4, <2>5
<1>12. CASE Spread(g) /\ j.pc \in {"introduce", "forward", "quitting", "announce", "route"}
  <2>1. PICK s \in j.todo :
          /\ Sends(s, Command[j.pc], IF j.pc \in {"quitting", "announce"} THEN j.id ELSE NoUID)
          /\ Become(g, IF j.pc = "route" THEN NoJob ELSE [j EXCEPT !.todo = @ \ {s}])
    BY <1>12, Zenon DEF Spread, Post, Sends
  <2>2. s \in SID
    BY <1>0, <1>12 DEF JobShape
  <2>3. UNCHANGED <<toClient, servers, people, links, client>>
    BY <1>12, Zenon DEF Spread
  <2>4. CASE j.pc = "route"
    BY <1>e, <2>1, <2>4 DEF Turn, OtherTurn, Apart, Ends, Command
  <2>5. CASE j.pc \in {"introduce", "forward", "quitting", "announce"}
    <3>1. Become(g, [j EXCEPT !.todo = @ \ {s}])
      BY <2>1, <2>5
    <3>2. job'[g].pc = j.pc /\ Kept(g) /\ job'[g].todo = j.todo \ {s}
      BY <1>0, <1>a, <3>1 DEF Kept, Job
    <3>3. CASE j.pc \in {"introduce", "forward"}
      BY <2>1, <3>2, <3>3 DEF Turn, OtherTurn, Apart, Command, Kept
    <3>4. CASE j.pc \in {"quitting", "announce"}
      <4>1. Sends(s, IF j.pc = "quitting" THEN "QUIT" ELSE "UID", j.id)
        BY <2>1, <3>4 DEF Command
      <4>2. SpreadTurn(g, s)
        BY <1>12, <2>3, <3>2, <3>4, <4>1, Zenon DEF SpreadTurn
      <4> QED
        BY <2>2, <4>2 DEF Turn
    <3> QED
      BY <2>5, <3>3, <3>4
  <2> QED
    BY <1>12, <2>4, <2>5
<1>13. CASE SplitError(g) /\ j.pc = "forward"
  <2>1. Become(g, [j EXCEPT !.pc = "unlink"]) /\ Sends(NoSID, "ERROR", NoUID)
    BY <1>13, Zenon DEF SplitError, Post, Sends
  <2> QED
    BY <1>13, <1>c, <2>1 DEF Turn, OtherTurn, Apart
<1>14. CASE Unlink(g) /\ j.pc \in {"unlink", "forward"}
  <2>1. UNCHANGED toServer
    BY <1>14 DEF Unlink
  <2>2. job'[g] = NoJob \/ \E gone : job'[g] = [j EXCEPT !.pc = "split", !.todo = gone]
    BY <1>14, Zenon DEF Unlink
  <2>3. job'[g].pc \in {"idle", "split"}
    BY <1>0, <1>b, <2>2 DEF Job
  <2> QED
    BY <1>14, <2>1, <2>3 DEF Turn, OtherTurn, Apart
<1>15. CASE UserSplit(g) /\ j.pc = "split"
  <2>1. /\ UNCHANGED toServer
        /\ Become(g, NoJob) \/ \E peers : Become(g, [j EXCEPT !.pc = "delete", !.todo = peers])
    BY <1>15, Zenon DEF UserSplit
  <2> QED
    BY <1>15, <1>d, <1>e, <2>1 DEF Turn, OtherTurn, Apart, Ends
<1>16. CASE /\ AskClientLoop(g)
            /\ j.pc \in {"delete", "welcome"} \/ (j.pc = "quitting" /\ j.todo = {})
  <2>1. Become(g, NoJob) /\ UNCHANGED <<toServer, signed, client>>
    BY <1>16, Zenon DEF AskClientLoop, people
  <2>2. j.pc = "quitting" => toClient' = Append(toClient, ClientMsg("ERROR", j.id, {j.id}))
    BY <1>16 DEF AskClientLoop, PostClient
  <2> QED
    BY <1>16, <1>e, <2>1, <2>2 DEF Turn, OtherTurn, Apart, QuitTurn, Ends
<1>17. CASE UserSignOn(g) /\ j.pc = "announce"
  <2>1. /\ Become(g, [j EXCEPT !.pc = "welcome"]) /\ UNCHANGED toServer /\ j.todo = {}
        /\ signed' = IF j.rec = "live" THEN signed \cup {j.id} ELSE signed
    BY <1>17, Zenon DEF UserSignOn
  <2> QED
    BY <1>17, <1>c, <2>1 DEF Turn, SignOnTurn
<1> HIDE DEF j
<1>18. ASSUME (\E u \in UID : BurstUser(g, u)) /\ j.pc = "burst"
       PROVE  Turn(g)
  BY <1>6, <1>18 DEF Turn
<1> QED
  BY AtPc, <1>1, <1>2, <1>3, <1>4, <1>5, <1>7, <1>8, <1>9, <1>10, <1>11, <1>12, <1>13, <1>14,
     <1>15, <1>16, <1>17, <1>18 DEF j

-----------------------------------------------------------------------------
(* The lives of connections and users. *)

LEMMA HadStays ==
    ASSUME TInv, ConnsOK, Step
    PROVE  /\ \A s \in SID : HadConn(s) => \E k \in Conn : conn'[k].sid = s
           /\ \A k \in Conn : conn'[k].sid = conn[k].sid \/ conn[k].sid = NoSID
           /\ \A k \in Conn : conn'[k].pc = "new" =>
                conn'[k].sid = NoSID /\ view'[k] = {} /\ ~conn'[k].greeted
<1> DEFINE Good == \A k \in Conn :
                     /\ conn'[k].sid = conn[k].sid \/ conn[k].sid = NoSID
                     /\ conn'[k].pc = "new" => conn'[k].sid = NoSID /\ view'[k] = {} /\ ~conn'[k].greeted
<1>0. /\ conn \in [Conn -> ConnRec] /\ NoSID \notin SID
      /\ \A k \in Conn : conn[k].pc = "new" => conn[k].sid = NoSID /\ view[k] = {} /\ ~conn[k].greeted
      /\ view \in [Conn -> SUBSET LocalUID]
      /\ \A s \in SID : sid2conn[s] \in Conn => conn[sid2conn[s]].pc \in {"on", "lost", "dead"}
      /\ sid2conn \in [SID -> Conn \cup {NoConn, NilConn}]
      /\ \A k \in Conn : conn[k].pc # "new" => conn[k].sid \in SID
      /\ NoConn \notin Conn
  BY LinksAssumption DEF TInv, LinksOK, ConnsOK
<1>a. ASSUME conn' = conn, view' = view
      PROVE  Good
  <2>1. ASSUME NEW k \in Conn
        PROVE  /\ conn'[k].pc = conn[k].pc /\ conn'[k].sid = conn[k].sid
               /\ conn'[k].greeted = conn[k].greeted /\ view'[k] = view[k]
    BY <1>a
  <2> QED
    BY <1>0, <2>1
<1>1. ASSUME NEW k \in Conn, Receive(k)
      PROVE  Good
  <2>1. PICK said, bye : conn' = [conn EXCEPT ![k].said = said, ![k].bye = bye]
    BY <1>1, Saying, Zenon DEF TInv, Said
  <2>2. UNCHANGED view
    BY <1>1, Saying, Zenon DEF TInv, Said
  <2> QED
    BY <1>0, <2>1, <2>2 DEF ConnRec
<1>2. ASSUME NEW k \in Conn, PeerLeaves(k) \/ LinkClosed(k) \/ \E line \in Line : ReceiveLine(k, line)
      PROVE  Good
  BY <1>0, <1>2 DEF PeerLeaves, LinkClosed, ReceiveLine, ConnRec
<1>3. ASSUME NEW k \in Conn, ReceiveError(k)
      PROVE  Good
  <2>1. UNCHANGED view /\ conn[k].pc # "new"
    BY <1>3 DEF ReceiveError
  <2>2. CASE conn' = [conn EXCEPT ![k].bye = TRUE]
    BY <1>0, <2>1, <2>2 DEF ConnRec
  <2>3. ASSUME NEW pc \in {"closed", "lost"},
               conn' = [conn EXCEPT ![k].bye = TRUE, ![sid2conn[conn[k].sid]].pc = pc]
        PROVE  Good
    BY <1>0, <2>1, <2>3 DEF ConnRec
  <2> QED
    BY <1>3, <2>2, <2>3 DEF ReceiveError
<1>4. ASSUME NEW k \in Conn, NEW sid \in SID, Adopt(k, sid)
      PROVE  Good
  <2>1. PICK pc \in {"on", "dead"} : /\ conn[k].pc = "new" /\ conn' = [conn EXCEPT ![k] = HandOver(sid, pc)]
                                     /\ UNCHANGED view
    BY <1>4 DEF Adopt
  <2>2. HandOver(sid, pc).pc = pc
    BY DEF HandOver, NewConn
  <2> QED
    BY <1>0, <2>1, <2>2
<1>5. ASSUME Write
      PROVE  Good
  <2>1. \/ UNCHANGED <<conn, view>>
        \/ \E s \in SID : \E A :
              /\ sid2conn[s] \in Conn
              /\ conn' = [conn EXCEPT ![sid2conn[s]].greeted = TRUE] \/ UNCHANGED conn
              /\ view' = [view EXCEPT ![sid2conn[s]] = A]
    <3> DEFINE m == Head(toServer)
    <3>1. toServer # <<>> /\ m \in ServerMsg
      BY <1>5 DEF Write, TInv, QueuesOK
    <3>2. m.to \in SID \cup {NoSID}
      BY <3>1 DEF ServerMsg
    <3>3. CASE m.to = NoSID
      BY <1>0, <1>5, <3>3 DEF Write, Entry
    <3>4. CASE m.to \in SID
      <4>1. Entry(m.to) = sid2conn[m.to]
        BY <1>0, <3>4 DEF Entry
      <4>2. \/ UNCHANGED <<conn, view>>
            \/ /\ sid2conn[m.to] \in Conn
               /\ conn' = IF m.cmd = "SERVER" THEN [conn EXCEPT ![sid2conn[m.to]].greeted = TRUE] ELSE conn
               /\ \E A : view' = [view EXCEPT ![sid2conn[m.to]] = A]
        BY <1>5, <4>1, Zenon DEF Write
      <4> QED
        BY <3>4, <4>2
    <3> QED
      BY <3>2, <3>3, <3>4
  <2>2. ASSUME NEW s \in SID, NEW A, sid2conn[s] \in Conn,
               conn' = [conn EXCEPT ![sid2conn[s]].greeted = TRUE] \/ UNCHANGED conn,
               view' = [view EXCEPT ![sid2conn[s]] = A]
        PROVE  Good
    <3>1. conn[sid2conn[s]].pc # "new"
      BY <1>0, <2>2
    <3>2. ASSUME NEW k \in Conn
          PROVE  /\ conn'[k].pc = conn[k].pc /\ conn'[k].sid = conn[k].sid
                 /\ k # sid2conn[s] => conn'[k].greeted = conn[k].greeted /\ view'[k] = view[k]
      BY <1>0, <2>2 DEF ConnRec
    <3> QED
      BY <1>0, <3>1, <3>2
  <2> HIDE DEF Good
  <2>3. ASSUME UNCHANGED <<conn, view>>
        PROVE  Good
    BY <1>a, <2>3
  <2> QED
    BY <2>1, <2>2, <2>3
<1>6. ASSUME UNCHANGED links
      PROVE  Good
  <2>1. conn' = conn /\ view' = view
    BY <1>6 DEF links
  <2> HIDE DEF Good
  <2> QED
    BY <1>a, <2>1
<1>7. Good
  BY <1>1, <1>2, <1>3, <1>4, <1>5, <1>6, LinkMoves
<1>8. \A s \in SID : HadConn(s) => \E k \in Conn : conn'[k].sid = s
  BY <1>0, <1>7 DEF HadConn
<1> QED
  BY <1>7, <1>8

LEMMA ConnsStep ==
    ASSUME TInv, ConnsOK, Step
    PROVE  ConnsOK'
<1>1. \A k \in Conn : conn'[k].pc = "new" => conn'[k].sid = NoSID /\ view'[k] = {} /\ ~conn'[k].greeted
  BY HadStays
<1>2. ASSUME NEW g \in Goroutine, job'[g].pc \in {"line", "info", "introduce"}
      PROVE  \E k \in Conn : conn'[k].sid = job'[g].from
  <2>1. CASE Same(g)
    <3>1. job[g].from \in SID /\ HadConn(job[g].from)
      BY <1>2, <2>1 DEF Same, TInv, JobsOK, JobShape, ConnsOK
    <3> QED
      BY <2>1, <3>1, HadStays DEF Same, HadConn
  <2>2. CASE Fresh(g)
    <3>1. PICK k \in Conn : job'[g].from = conn[k].sid
      BY <1>2, <2>2 DEF Fresh
    <3>2. JobsOK'
      BY JobsStep DEF TInv
    <3>3. job'[g].from \in SID
      BY <1>2, <3>2 DEF JobsOK, JobShape
    <3> QED
      BY <3>1, <3>3, HadStays DEF HadConn
  <2>3. CASE Own(g)
    <3>1. Turn(g)
      BY <2>3, Turns
    <3>2. job[g].pc \in {"line", "info", "introduce"} /\ job'[g].from = job[g].from
      BY <1>2, <3>1 DEF Turn, GreetTurn, BeginTurn, UserTurn, TellTurn, StartTurn, SpreadTurn,
                        SignOnTurn, QuitTurn, LinkTurn, OtherTurn, Ends, Apart
    <3>3. job[g].from \in SID /\ HadConn(job[g].from)
      BY <3>2 DEF TInv, JobsOK, JobShape, ConnsOK
    <3> QED
      BY <3>2, <3>3, HadStays DEF HadConn
  <2> QED
    BY <2>1, <2>2, <2>3, Goes
<1>3. ASSUME NEW s \in registered'
      PROVE  \E k \in Conn : conn'[k].sid = s
  <2>1. CASE s \in registered
    BY <2>1, HadStays DEF ConnsOK, TInv, TableOK, TreeFacts!IInv, TreeFacts!TypeOK
  <2>2. CASE s \notin registered
    <3>1. PICK g \in Goroutine : SignOn(g)
      <4>1. ASSUME NEW k \in Conn, NEW sid \in SID, Adopt(k, sid)
            PROVE  UNCHANGED registered
        BY <4>1 DEF Adopt
      <4>2. ASSUME NEW g \in Goroutine, ConnRegLine(g) \/ Sid(g) \/ Unlink(g)
            PROVE  registered' \subseteq registered
        BY <4>2 DEF ConnRegLine, Sid, Unlink
      <4>3. CASE UNCHANGED servers
        BY <4>3, <1>3, <2>2 DEF servers
      <4> QED
        BY <1>3, <2>2, <4>1, <4>2, <4>3, TableMoves
    <3>2. job[g].pc = "introduce" /\ s = job[g].from
      BY <1>3, <2>2, <3>1 DEF SignOn
    <3>3. s \in SID /\ HadConn(s)
      BY <3>2 DEF TInv, JobsOK, JobShape, ConnsOK
    <3> QED
      BY <3>3, HadStays
  <2> QED
    BY <2>1, <2>2
<1>4. \A g \in Goroutine : job'[g].pc \in {"line", "info", "introduce"} => \E k \in Conn : conn'[k].sid = job'[g].from
  BY <1>2
<1> QED
  BY <1>1, <1>3, <1>4 DEF ConnsOK, HadConn

\* The ids are deleted.
Drops(ids) ==
    /\ Delete(ids) /\ DropRecord(ids) /\ UNCHANGED <<toServer, servers, links>>
    /\ \A u \in LocalUID : client'[u] = IF u \in ids THEN "gone" ELSE client[u]
    /\ \A u \in LocalUID \cap ids : Quitting(u) \/ (client[u] # "gone" /\ UNCHANGED toClient)

\* No one is.
Lives ==
    /\ users \subseteq users' /\ signed \subseteq signed'
    /\ \A u \in LocalUID \cap signed' :
         u \in signed \/ \E g \in Goroutine : SignOnTurn(g) /\ job[g].id = u /\ job[g].rec = "live"
    /\ \A u \in LocalUID : \/ client'[u] = client[u]
                           \/ client[u] = "off" /\ client'[u] = "on" /\ u \in users'
    /\ \A g \in Goroutine : job[g].pc \in {"user", "announce"} => job'[g] = job[g] \/ Own(g)

LEMMA LifeMoves ==
    ASSUME TInv, Step
    PROVE  Lives \/ \E ids : Drops(ids)
<1>0. /\ client \in [LocalUID -> {"off", "on", "gone"}]
      /\ LocalUID \cap RemoteUID = {}
      /\ \A g \in Goroutine : job[g].pc \in {"user", "announce"} =>
           job'[g] = job[g] \/ Own(g) \/ TakeClient \/ \E u \in LocalUID : ClientClosed(u)
  BY Firm, LinksAssumption DEF TInv, PeopleOK
<1> DEFINE Calm == ~TakeClient /\ ~(\E u \in LocalUID : ClientClosed(u))
<1>1. ASSUME TakeClient
      PROVE  Lives \/ \E ids : Drops(ids)
  <2> DEFINE m == Head(toClient)
  <2>1. toClient # <<>> /\ toClient \in Seq(ClientMsgs) /\ m = toClient[1] /\ Len(toClient) >= 1
    BY <1>1 DEF TakeClient, TInv, QueuesOK
  <2>2. CASE UNCHANGED <<people, client, job>>
    BY <1>0, <2>2 DEF Lives, people
  <2>3. CASE /\ Delete(m.ids) /\ DropRecord(m.ids)
             /\ client' = [u \in LocalUID |-> IF u \in m.ids THEN "gone"
                                             ELSE client[u]]
    <3>1. UNCHANGED <<toServer, servers, links>>
      BY <1>1, Zenon DEF TakeClient
    <3>2. \A u \in LocalUID : client'[u] = IF u \in m.ids THEN "gone" ELSE client[u]
      BY <1>0, <2>3
    <3>3. \A u \in LocalUID \cap m.ids : Quitting(u)
      BY <2>1 DEF Quitting
    <3> HIDE DEF m
    <3> QED
      BY <2>3, <3>1, <3>2, <3>3 DEF Drops
  <2> QED
    BY <1>1, <2>2, <2>3, Zenon DEF TakeClient
<1>2. ASSUME NEW u \in LocalUID, ClientClosed(u)
      PROVE  \E ids : Drops(ids)
  <2>1. /\ Delete({u}) /\ DropRecord({u}) /\ UNCHANGED <<toServer, servers, links, toClient>>
        /\ client' = [client EXCEPT ![u] = "gone"] /\ client[u] = "on"
    BY <1>2, Zenon DEF ClientClosed
  <2>2. Drops({u})
    BY <1>0, <2>1 DEF Drops
  <2> QED
    BY <2>2
<1>3. ASSUME NEW g \in Goroutine, Import(g), Calm
      PROVE  Lives
  <2>1. /\ users \subseteq users' /\ signed \subseteq signed' /\ UNCHANGED client
        /\ signed' \subseteq signed \cup {job[g].id} /\ job[g].pc = "uid"
    BY <1>3 DEF Import, people
  <2>2. job[g].id \in RemoteUID
    BY <2>1 DEF TInv, JobsOK, JobShape
  <2> QED
    BY <1>0, <1>3, <2>1, <2>2 DEF Lives
<1>4. ASSUME NEW g \in Goroutine, UserSignOn(g), Calm
      PROVE  Lives
  <2>1. Turn(g)
    BY <1>4, Turns DEF Own
  <2>2. job[g].pc = "announce" /\ UNCHANGED <<users, client>> /\ job[g].todo = {}
        /\ signed' = IF job[g].rec = "live" THEN signed \cup {job[g].id} ELSE signed
    BY <1>4 DEF UserSignOn
  <2>3. SignOnTurn(g)
    BY <2>1, <2>2 DEF Turn, GreetTurn, BeginTurn, UserTurn, TellTurn, StartTurn, SpreadTurn,
                      QuitTurn, LinkTurn, OtherTurn, Apart
  <2> QED
    BY <1>0, <1>4, <2>2, <2>3 DEF Lives
<1>5. ASSUME NEW g \in Goroutine, NEW u \in UID, BurstUser(g, u), Calm
      PROVE  Lives
  BY <1>0, <1>5 DEF Lives, BurstUser
<1>6. ASSUME NEW u \in LocalUID, ClientConnects(u) \/ ClientSignsOn(u) \/ ClientQuits(u), Calm
      PROVE  Lives
  <2>1. users \subseteq users' /\ signed' = signed
    BY <1>6 DEF ClientConnects, ClientSignsOn, ClientQuits, people
  <2>2. ASSUME NEW v \in LocalUID
        PROVE  \/ client'[v] = client[v]
               \/ client[v] = "off" /\ client'[v] = "on" /\ v \in users'
    <3>1. CASE ClientConnects(u)
      BY <1>0, <3>1 DEF ClientConnects
    <3>2. CASE ClientSignsOn(u)
      BY <1>0, <3>2 DEF ClientSignsOn
    <3>3. CASE ClientQuits(u)
      BY <1>0, <3>3 DEF ClientQuits
    <3> QED
      BY <1>6, <3>1, <3>2, <3>3
  <2> QED
    BY <1>0, <1>6, <2>1, <2>2 DEF Lives
<1>7. ASSUME UNCHANGED <<people, client>>, Calm
      PROVE  Lives
  BY <1>0, <1>7 DEF Lives, people
<1> QED
  BY <1>1, <1>2, <1>3, <1>4, <1>5, <1>6, <1>7, PeopleMoves DEF Client

\* Where a goroutine that announces or takes back a user comes from.
LEMMA Announcing ==
    ASSUME TInv, Step, NEW g \in Goroutine, job'[g].pc \in {"user", "announce"}
    PROVE  \/ Fresh(g) /\ job'[g].pc = "user"
           \/ /\ job[g].pc \in {"user", "announce"} /\ job'[g].from = job[g].from /\ job'[g].id = job[g].id
              /\ Own(g) => job'[g].rec = job[g].rec
<1>1. CASE Same(g) /\ ~Own(g)
  BY <1>1 DEF Same
<1>2. CASE Fresh(g)
  BY <1>2 DEF Fresh
<1>3. CASE Own(g)
  <2>1. Turn(g)
    BY <1>3, Turns
  <2> QED
    BY <1>3, <2>1 DEF Turn, GreetTurn, BeginTurn, UserTurn, TellTurn, StartTurn, SpreadTurn, Kept, Ends,
                      SignOnTurn, QuitTurn, LinkTurn, OtherTurn, Apart
<1> QED
  BY <1>1, <1>2, <1>3, Goes

LEMMA Withdrawing ==
    ASSUME TInv, Step, NEW g \in Goroutine, job'[g].pc \in {"quit", "quitting"}
    PROVE  \/ Fresh(g) /\ job'[g].pc = "quit"
           \/ job[g].pc \in {"quit", "quitting"} /\ job'[g].from = job[g].from /\ job'[g].id = job[g].id
<1>1. CASE Same(g)
  BY <1>1 DEF Same
<1>2. CASE Fresh(g)
  BY <1>2 DEF Fresh
<1>3. CASE Own(g)
  <2>1. Turn(g)
    BY <1>3, Turns
  <2> QED
    BY <1>3, <2>1 DEF Turn, GreetTurn, BeginTurn, UserTurn, TellTurn, StartTurn, SpreadTurn, Kept, Ends,
                      SignOnTurn, QuitTurn, LinkTurn, OtherTurn, Apart
<1> QED
  BY <1>1, <1>2, <1>3, Goes

LEMMA LifeStep ==
    ASSUME TInv, Step, NEW u \in LocalUID, LifeOK(u)
    PROVE  LifeOK(u)'
<1>0. /\ LocalUID \cap RemoteUID = {} /\ client[u] \in {"off", "on", "gone"}
      /\ job \in [Goroutine -> Job]
  BY LinksAssumption DEF TInv, PeopleOK, JobsOK
<1>1. u \in signed' => client'[u] = "on"
  <2>1. ASSUME Lives, u \in signed'
        PROVE  client'[u] = "on"
    <3>1. client[u] = "on" => client'[u] = "on"
      BY <2>1 DEF Lives
    <3>2. ASSUME NEW g \in Goroutine, SignOnTurn(g), job[g].id = u, job[g].rec = "live"
          PROVE  client[u] = "on"
      <4>1. job[g].pc = "announce"
        BY <3>2 DEF SignOnTurn
      <4> QED
        BY <1>0, <3>2, <4>1 DEF LifeOK
    <3> QED
      BY <2>1, <3>1, <3>2 DEF Lives, LifeOK
  <2>2. ASSUME NEW ids, Drops(ids)
        PROVE  u \in signed' => client'[u] = "on"
    BY <2>2 DEF Drops, Delete, LifeOK
  <2> QED
    BY <2>1, <2>2, LifeMoves
<1>2. client'[u] = "on" => u \in users'
  <2>1. CASE Lives
    BY <2>1 DEF Lives, LifeOK
  <2>2. ASSUME NEW ids, Drops(ids)
        PROVE  client'[u] = "on" => u \in users'
    BY <2>2 DEF Drops, Delete, LifeOK
  <2> QED
    BY <2>1, <2>2, LifeMoves
<1>3. ASSUME NEW g \in Goroutine, job'[g].pc \in {"user", "announce"}, job'[g].id = u
      PROVE  /\ job'[g].from = NoSID /\ client'[u] # "off"
             /\ client'[u] # "gone" <=> job'[g].rec = "live"
  <2>1. CASE Fresh(g) /\ job'[g].pc = "user"
    BY <1>3, <2>1 DEF Fresh
  <2>2. CASE /\ job[g].pc \in {"user", "announce"} /\ job'[g].from = job[g].from /\ job'[g].id = job[g].id
             /\ Own(g) => job'[g].rec = job[g].rec
    <3>1. /\ job[g].from = NoSID /\ client[u] # "off" /\ job[g].id = u
          /\ client[u] # "gone" <=> job[g].rec = "live"
      BY <1>3, <2>2 DEF LifeOK
    <3>2. CASE Lives
      BY <2>2, <3>1, <3>2 DEF Lives
    <3>3. ASSUME NEW ids, Drops(ids)
          PROVE  client'[u] # "off" /\ (client'[u] # "gone" <=> job'[g].rec = "live")
      <4>1. job'[g].rec = IF u \in ids THEN "full" ELSE job[g].rec
        BY <1>0, <2>2, <3>1, <3>3 DEF Drops, DropRecord, Job
      <4> QED
        BY <3>1, <3>3, <4>1 DEF Drops
    <3> QED
      BY <2>2, <3>1, <3>2, <3>3, LifeMoves
  <2> QED
    BY <1>3, <2>1, <2>2, Announcing
<1>4. ASSUME NEW g \in Goroutine, job'[g].pc \in {"quit", "quitting"}, job'[g].id = u
      PROVE  job'[g].from = NoSID
  BY <1>0, <1>4, Withdrawing DEF Fresh, LifeOK
<1> QED
  BY <1>1, <1>2, <1>3, <1>4 DEF LifeOK

-----------------------------------------------------------------------------
(* The two queues. *)

LEMMA QueueGrows ==
    ASSUME TInv, Step
    PROVE  \/ Write
           \/ UNCHANGED toServer
           \/ \E g \in Goroutine : GreetTurn(g) \/ TellTurn(g) \/ \E s \in SID : SpreadTurn(g, s)
           \/ \E to, cmd, id : cmd \notin {"SERVER", "UID", "QUIT"} /\ Sends(to, cmd, id)
<1>1. ASSUME NEW g \in Goroutine, Turn(g)
      PROVE  \/ UNCHANGED toServer
             \/ GreetTurn(g) \/ TellTurn(g) \/ \E s \in SID : SpreadTurn(g, s)
             \/ \E to, cmd, id : cmd \notin {"SERVER", "UID", "QUIT"} /\ Sends(to, cmd, id)
  BY <1>1, Zenon DEF Turn, BeginTurn, UserTurn, StartTurn, SignOnTurn, QuitTurn, LinkTurn, OtherTurn
<1>2. ASSUME NEW g \in Goroutine, Send(g)
      PROVE  Own(g)
  BY <1>2, Zenon DEF Send, Own
<1>3. TakeClient => UNCHANGED toServer
  BY DEF TakeClient
<1> QED
  BY <1>1, <1>2, <1>3, QueueMoves, Turns

LEMMA Appending ==
    ASSUME TInv, NEW to, NEW cmd, NEW id, Sends(to, cmd, id)
    PROVE  /\ Len(toServer) \in Nat /\ Len(toServer') = Len(toServer) + 1
           /\ \A i \in 1..Len(toServer) : toServer'[i] = toServer[i]
           /\ toServer'[Len(toServer) + 1].to = to
           /\ toServer'[Len(toServer) + 1].cmd = cmd
           /\ toServer'[Len(toServer) + 1].id = id
<1> DEFINE m == Msg(to, cmd, id)
<1>1. m.to = to /\ m.cmd = cmd /\ m.id = id
  BY DEF Msg
<1>2. toServer \in Seq(ServerMsg) /\ toServer' = Append(toServer, m)
  BY DEF TInv, QueuesOK, Sends
<1> HIDE DEF m
<1> QED
  BY <1>1, <1>2

\* Nothing that waits is lost; what is new is known.
LEMMA SentGrows ==
    ASSUME TInv, NEW to, NEW cmd, NEW id, Sends(to, cmd, id)
    PROVE  \A s, c, i :
             /\ Sent(i, s, c) => Sent(i, s, c)' /\ i < Len(toServer) + 1
             /\ Sent(i, s, c)' => Sent(i, s, c) \/ (i = Len(toServer) + 1 /\ to = s /\ cmd = c)
<1> SUFFICES ASSUME NEW s, NEW c, NEW i
             PROVE  /\ Sent(i, s, c) => Sent(i, s, c)' /\ i < Len(toServer) + 1
                    /\ Sent(i, s, c)' => Sent(i, s, c) \/ (i = Len(toServer) + 1 /\ to = s /\ cmd = c)
  OBVIOUS
<1>1. Sent(i, s, c) => Sent(i, s, c)' /\ i < Len(toServer) + 1
  BY Appending DEF Sent
<1>2. Sent(i, s, c)' => Sent(i, s, c) \/ (i = Len(toServer) + 1 /\ to = s /\ cmd = c)
  BY Appending DEF Sent
<1> QED
  BY <1>1, <1>2

LEMMA SentOfGrows ==
    ASSUME TInv, NEW to, NEW cmd, NEW id, Sends(to, cmd, id)
    PROVE  \A s, c, v, i :
             /\ SentOf(i, s, c, v) => SentOf(i, s, c, v)'
             /\ SentOf(i, s, c, v)' => \/ SentOf(i, s, c, v)
                                       \/ i = Len(toServer) + 1 /\ to = s /\ cmd = c /\ id = v
             /\ i = Len(toServer) + 1 /\ to = s /\ cmd = c /\ id = v => SentOf(i, s, c, v)'
<1> SUFFICES ASSUME NEW s, NEW c, NEW v, NEW i
             PROVE  /\ SentOf(i, s, c, v) => SentOf(i, s, c, v)'
                    /\ SentOf(i, s, c, v)' => \/ SentOf(i, s, c, v)
                                              \/ i = Len(toServer) + 1 /\ to = s /\ cmd = c /\ id = v
                    /\ i = Len(toServer) + 1 /\ to = s /\ cmd = c /\ id = v => SentOf(i, s, c, v)'
  OBVIOUS
<1>1. SentOf(i, s, c, v) => SentOf(i, s, c, v)'
  BY Appending DEF Sent, SentOf
<1>2. SentOf(i, s, c, v)' => SentOf(i, s, c, v) \/ (i = Len(toServer) + 1 /\ to = s /\ cmd = c /\ id = v)
  BY Appending DEF Sent, SentOf
<1>3. i = Len(toServer) + 1 /\ to = s /\ cmd = c /\ id = v => SentOf(i, s, c, v)'
  BY Appending DEF Sent, SentOf
<1> QED
  BY <1>1, <1>2, <1>3

\* When the first is taken the others move up.
LEMMA SentMoves ==
    ASSUME TInv, toServer # <<>>, toServer' = Tail(toServer)
    PROVE  \A s, c, v : \A i \in Nat :
             /\ Sent(i, s, c)' => i >= 1 /\ Sent(i + 1, s, c)
             /\ SentOf(i, s, c, v)' => i >= 1 /\ SentOf(i + 1, s, c, v)
             /\ i >= 1 /\ SentOf(i + 1, s, c, v) => SentOf(i, s, c, v)'
<1>1. /\ toServer \in Seq(ServerMsg) /\ Len(toServer) \in Nat /\ Len(toServer') = Len(toServer) - 1
      /\ \A i \in 1..Len(toServer') : toServer'[i] = toServer[i + 1]
  BY DEF TInv, QueuesOK
<1> SUFFICES ASSUME NEW s, NEW c, NEW v, NEW i \in Nat
             PROVE  /\ Sent(i, s, c)' => i >= 1 /\ Sent(i + 1, s, c)
                    /\ SentOf(i, s, c, v)' => i >= 1 /\ SentOf(i + 1, s, c, v)
                    /\ i >= 1 /\ SentOf(i + 1, s, c, v) => SentOf(i, s, c, v)'
  OBVIOUS
<1>2. Sent(i, s, c)' => i >= 1 /\ Sent(i + 1, s, c)
  BY <1>1 DEF Sent
<1>3. SentOf(i, s, c, v)' => i >= 1 /\ SentOf(i + 1, s, c, v)
  BY <1>1 DEF Sent, SentOf
<1>4. i >= 1 /\ SentOf(i + 1, s, c, v) => SentOf(i, s, c, v)'
  BY <1>1 DEF Sent, SentOf
<1> QED
  BY <1>2, <1>3, <1>4

\* The client loop is asked to delete a local user only when it has quit.
Asked(u) == \E i \in 1..Len(toClient) : u \in toClient[i].ids

LEMMA AskedNew ==
    ASSUME TInv, Step, NEW u \in LocalUID, Asked(u)', ~Asked(u)
    PROVE  \E g \in Goroutine : QuitTurn(g) /\ job[g].id = u
<1>0. toClient \in Seq(ClientMsgs) /\ Len(toClient) \in Nat
  BY DEF TInv, QueuesOK
<1>1. CASE TakeClient
  <2>1. toClient # <<>> /\ toClient' = Tail(toClient)
    BY <1>1 DEF TakeClient
  <2>2. \A i \in 1..Len(toClient') : toClient'[i] = toClient[i + 1] /\ i + 1 \in 1..Len(toClient)
    BY <1>0, <2>1
  <2> QED
    BY <2>2 DEF Asked
<1>2. CASE Write
  BY <1>2 DEF Write, Asked
<1>3. ASSUME NEW g \in Goroutine, Send(g), toClient' # toClient
      PROVE  QuitTurn(g) /\ job[g].id = u
  <2>1. AskClientLoop(g)
    BY <1>3, Zenon DEF Send, ConnRegInfo, Greet, BurstBegin, BurstTell, Refuse, SPing, Begin, Spread,
                     SplitError, UserSplit
  <2>2. Turn(g)
    BY <2>1, Turns DEF Own
  <2>3. CASE job[g].pc \in {"delete", "welcome"}
    <3>1. job[g].pc = "delete" => job[g].todo \subseteq RemoteUID
      BY DEF TInv, JobsOK, JobShape
    <3>2. PICK m : toClient' = Append(toClient, m) /\ m.ids = IF job[g].pc = "delete" THEN job[g].todo ELSE {}
      <4>1. CASE job[g].pc = "delete"
        BY <2>1, <4>1 DEF AskClientLoop, PostClient, ClientMsg
      <4>2. CASE job[g].pc = "welcome"
        BY <2>1, <4>2 DEF AskClientLoop, PostClient, ClientMsg
      <4> QED
        BY <2>3, <4>1, <4>2
    <3>3. \A i \in 1..Len(toClient') : (i \in 1..Len(toClient) /\ toClient'[i] = toClient[i])
                                       \/ toClient'[i] = m
      BY <1>0, <3>2
    <3> QED
      BY <3>1, <3>2, <3>3, LinksAssumption DEF Asked
  <2>4. CASE job[g].pc = "quitting"
    <3>1. QuitTurn(g)
      BY <2>1, <2>2, <2>4 DEF Turn, GreetTurn, BeginTurn, UserTurn, TellTurn, StartTurn, SpreadTurn,
                      SignOnTurn, LinkTurn, OtherTurn, Apart, AskClientLoop
    <3>2. toClient' = Append(toClient, ClientMsg("ERROR", job[g].id, {job[g].id}))
      BY <3>1 DEF QuitTurn
    <3>3. \A i \in 1..Len(toClient') : (i \in 1..Len(toClient) /\ toClient'[i] = toClient[i])
                                       \/ toClient'[i].ids = {job[g].id}
      BY <1>0, <3>2 DEF ClientMsg
    <3> QED
      BY <3>1, <3>3 DEF Asked
  <2> QED
    BY <2>1, <2>3, <2>4 DEF AskClientLoop
<1>4. CASE UNCHANGED toClient
  BY <1>4 DEF Asked
<1> QED
  BY <1>1, <1>2, <1>3, <1>4, QueueMoves

LEMMA AskedStays ==
    ASSUME TInv, Step, NEW u \in LocalUID, Asked(u)
    PROVE  Asked(u)' \/ client'[u] = "gone"
<1>0. toClient \in Seq(ClientMsgs) /\ Len(toClient) \in Nat
  BY DEF TInv, QueuesOK
<1>1. PICK i \in 1..Len(toClient) : u \in toClient[i].ids
  BY DEF Asked
<1>2. CASE TakeClient
  <2> DEFINE m == Head(toClient)
  <2>1. toClient # <<>> /\ toClient' = Tail(toClient)
    BY <1>2 DEF TakeClient
  <2>2. CASE i > 1
    <3>1. i - 1 \in 1..Len(toClient') /\ toClient'[i - 1] = toClient[i]
      BY <1>0, <2>1, <2>2
    <3> QED
      BY <1>1, <3>1 DEF Asked
  <2>3. CASE i = 1
    <3>1. u \in m.ids /\ m \in ClientMsgs
      BY <1>0, <1>1, <2>1, <2>3
    <3>2. m.ids = {u} /\ (m.to \in LocalUID => m.to = u)
      BY <3>1, LinksAssumption DEF ClientMsgs, Ids
    <3>3. CASE client[u] = "gone"
      BY <3>3, LifeMoves DEF Lives, Drops
    <3>4. CASE client[u] # "gone"
      <4>1. ~(m.to \in LocalUID /\ client[m.to] = "gone")
        BY <3>2, <3>4
      <4>2. client' = [v \in LocalUID |-> IF v \in m.ids THEN "gone" ELSE client[v]]
        BY <1>2, <4>1 DEF TakeClient
      <4> HIDE DEF m
      <4> QED
        BY <3>1, <4>2 DEF TInv, PeopleOK
    <3> QED
      BY <3>3, <3>4
  <2> QED
    BY <1>0, <2>2, <2>3
<1>3. CASE UNCHANGED toClient
  BY <1>3 DEF Asked
<1>4. ASSUME NEW m \in ClientMsgs, PostClient(m)
      PROVE  Asked(u)'
  <2>1. i \in 1..Len(toClient') /\ toClient'[i] = toClient[i]
    BY <1>0, <1>1, <1>4 DEF PostClient
  <2> QED
    BY <1>1, <2>1 DEF Asked
<1>5. CASE Write
  BY <1>3, <1>5 DEF Write
<1>6. ASSUME NEW g \in Goroutine, Send(g)
      PROVE  Asked(u)'
  <2>1. UNCHANGED toClient \/ \E m \in ClientMsgs : PostClient(m)
    BY <1>6, Sending DEF TInv
  <2> QED
    BY <1>4, <2>1 DEF Asked
<1> QED
  BY <1>2, <1>3, <1>5, <1>6, QueueMoves

-----------------------------------------------------------------------------
(* Who leaves. *)

LEMMA QuittingIs ==
    ASSUME NEW u
    PROVE  /\ Quitting(u) <=> (\E g \in Goroutine : Quits(g, u)) \/ Asked(u)
           /\ Quitting(u)' <=> (\E g \in Goroutine : Quits(g, u)') \/ Asked(u)'
<1>1. Quitting(u) <=> (\E g \in Goroutine : Quits(g, u)) \/ Asked(u)
  BY Zenon DEF Quitting, Quits, Asked
<1>2. Quitting(u)' <=> (\E g \in Goroutine : Quits(g, u)') \/ Asked(u)'
  BY Zenon DEF Quitting, Quits, Asked
<1> QED
  BY <1>1, <1>2

LEMMA QuitsStay ==
    ASSUME TInv, Step, NEW u, NEW g \in Goroutine, Quits(g, u)
    PROVE  Quits(g, u)' \/ QuitTurn(g)
<1>1. CASE Same(g)
  BY <1>1 DEF Same, Quits
<1>2. CASE Fresh(g)
  BY <1>2 DEF Fresh, Quits
<1>3. CASE Own(g)
  BY <1>3, Turns DEF Turn, GreetTurn, BeginTurn, UserTurn, TellTurn, StartTurn, SpreadTurn, Kept, Quits,
                     SignOnTurn, LinkTurn, OtherTurn, Apart
<1> QED
  BY <1>1, <1>2, <1>3, Goes

LEMMA QuitTurnAsks ==
    ASSUME TInv, NEW g \in Goroutine, QuitTurn(g)
    PROVE  \A u : u = job[g].id => Asked(u)'
<1>1. toClient \in Seq(ClientMsgs) /\ toClient' = Append(toClient, ClientMsg("ERROR", job[g].id, {job[g].id}))
  BY DEF TInv, QueuesOK, QuitTurn
<1>2. LET n == Len(toClient) + 1 IN n \in 1..Len(toClient') /\ toClient'[n].ids = {job[g].id}
  BY <1>1 DEF ClientMsg
<1> QED
  BY <1>2 DEF Asked

LEMMA LeavesStay ==
    ASSUME TInv, Step, NEW u \in LocalUID, Leaves(u)
    PROVE  Leaves(u)'
<1>1. CASE client[u] = "gone"
  BY <1>1, LifeMoves DEF Lives, Drops, Leaves
<1>2. CASE Asked(u)
  BY <1>2, AskedStays, QuittingIs DEF Leaves
<1>3. ASSUME NEW g \in Goroutine, Quits(g, u)
      PROVE  Leaves(u)'
  BY <1>3, QuitsStay, QuitTurnAsks, QuittingIs DEF Leaves, Quits
<1> QED
  BY <1>1, <1>2, <1>3, QuittingIs DEF Leaves

\* Who leaves has quit, or has closed its connection.
LEMMA LeavesNew ==
    ASSUME TInv, Step, NEW u \in LocalUID, ~Leaves(u), Leaves(u)'
    PROVE  \/ \E g \in Goroutine : StartTurn(g) /\ job[g].pc = "quit" /\ job[g].id = u
           \/ client'[u] = "gone" /\ client[u] # "gone" /\ UNCHANGED <<toServer, toClient>>
<1>1. ~Quitting(u) /\ client[u] # "gone"
  BY DEF Leaves
<1>2. CASE client'[u] = "gone"
  <2>1. ~Lives
    BY <1>1, <1>2 DEF Lives
  <2>2. PICK ids : Drops(ids)
    BY <2>1, LifeMoves
  <2> QED
    BY <1>1, <1>2, <2>2 DEF Drops
<1>3. CASE Asked(u)'
  <2>1. ~Asked(u)
    BY <1>1, QuittingIs
  <2>2. PICK g \in Goroutine : QuitTurn(g) /\ job[g].id = u
    BY <1>3, <2>1, AskedNew
  <2>3. Quits(g, u)
    BY <2>2 DEF QuitTurn, Quits
  <2> QED
    BY <1>1, <2>3, QuittingIs
<1>4. ASSUME NEW g \in Goroutine, Quits(g, u)'
      PROVE  StartTurn(g) /\ job[g].pc = "quit" /\ job[g].id = u
  <2>1. ~Quits(g, u)
    BY <1>1, QuittingIs
  <2>2. CASE Same(g)
    BY <1>4, <2>1, <2>2 DEF Same, Quits
  <2>3. CASE Fresh(g)
    BY <1>4, <2>3 DEF Fresh, Quits
  <2>4. CASE Own(g)
    BY <1>4, <2>1, <2>4, Turns DEF Turn, GreetTurn, BeginTurn, UserTurn, TellTurn, StartTurn, SpreadTurn,
                       Kept, Quits, SignOnTurn, QuitTurn, Ends, LinkTurn, OtherTurn, Apart
  <2> QED
    BY <2>2, <2>3, <2>4, Goes
<1> QED
  BY <1>2, <1>3, <1>4, QuittingIs DEF Leaves

LEMMA QuitsLeaveStep ==
    ASSUME TInv, Step, NEW u \in LocalUID, QuitsLeave(u)
    PROVE  QuitsLeave(u)'
<1> SUFFICES ASSUME NEW i \in Nat, NEW s \in SID, SentOf(i, s, "QUIT", u)'
             PROVE  Leaves(u)'
  BY DEF QuitsLeave
<1>1. ASSUME NEW j \in Nat, SentOf(j, s, "QUIT", u)
      PROVE  Leaves(u)'
  BY <1>1, LeavesStay DEF QuitsLeave
<1>2. CASE UNCHANGED toServer
  <2>1. SentOf(i, s, "QUIT", u)
    BY <1>2 DEF SentOf, Sent
  <2> QED
    BY <1>1, <2>1
<1>3. CASE Write
  <2>1. toServer # <<>> /\ toServer' = Tail(toServer)
    BY <1>3 DEF Write
  <2> QED
    BY <1>1, <2>1, SentMoves
<1>4. ASSUME NEW to, NEW cmd, NEW id, Sends(to, cmd, id), cmd = "QUIT" /\ id = u => Leaves(u)
      PROVE  Leaves(u)'
  <2>1. SentOf(i, s, "QUIT", u) \/ (cmd = "QUIT" /\ id = u)
    BY <1>4, SentOfGrows
  <2> QED
    BY <1>1, <1>4, <2>1, LeavesStay
<1>5. ASSUME NEW g \in Goroutine, GreetTurn(g) \/ TellTurn(g)
      PROVE  Leaves(u)'
  <2>1. \E to, cmd, id : Sends(to, cmd, id) /\ cmd # "QUIT"
    BY <1>5 DEF GreetTurn, TellTurn
  <2> QED
    BY <1>4, <2>1
<1>6. ASSUME NEW g \in Goroutine, NEW r \in SID, SpreadTurn(g, r)
      PROVE  Leaves(u)'
  <2>1. \E cmd : Sends(r, cmd, job[g].id) /\ (cmd = "QUIT" => job[g].pc = "quitting")
    BY <1>6 DEF SpreadTurn
  <2>2. job[g].pc = "quitting" /\ job[g].id = u => Leaves(u)
    BY QuittingIs DEF Quits, Leaves
  <2> QED
    BY <1>4, <2>1, <2>2
<1>7. ASSUME NEW to, NEW cmd, NEW id, cmd \notin {"SERVER", "UID", "QUIT"}, Sends(to, cmd, id)
      PROVE  Leaves(u)'
  BY <1>4, <1>7
<1> QED
  BY <1>2, <1>3, <1>5, <1>6, <1>7, QueueGrows

-----------------------------------------------------------------------------
(* What is remembered. *)

LEMMA CrossedNow ==
    ASSUME Next, NEW s \in SID, NEW u \in LocalUID, Crossed(s, u) \/ <<s, u>> \in raced
    PROVE  Excused(s, u)'
<1>1. raced' = {p \in SID \X (LocalUID \ vanished') : p \in raced \/ Crossed(p[1], p[2])}
  BY DEF Next, Remember
<1>2. <<s, u>> \in raced' \/ u \in vanished'
  BY <1>1
<1> QED
  BY <1>2 DEF Excused

LEMMA VanishedNow ==
    ASSUME Next, NEW s \in SID, NEW u \in LocalUID,
           \/ u \in vanished
           \/ client'[u] = "gone" /\ client[u] # "gone" /\ toClient' = toClient
    PROVE  Excused(s, u)'
<1>1. vanished' = vanished \cup {v \in LocalUID :
                    client'[v] = "gone" /\ client[v] # "gone" /\ toClient' = toClient}
  BY DEF Next, Remember
<1>2. u \in vanished'
  BY <1>1
<1> QED
  BY <1>2 DEF Excused

LEMMA ExcusedStays ==
    ASSUME Next, NEW s \in SID, NEW u \in LocalUID, Excused(s, u)
    PROVE  Excused(s, u)'
<1>1. Crossed(s, u) \/ <<s, u>> \in raced \/ u \in vanished
  BY Zenon DEF Excused, Crossed, Bursting, TellsOf
<1> QED
  BY <1>1, CrossedNow, VanishedNow

-----------------------------------------------------------------------------
(* Who is told, and who is due. *)

LEMMA AnnouncesStay ==
    ASSUME TInv, Step, NEW u, NEW g \in Goroutine, Announces(g, u)
    PROVE  Announces(g, u)' \/ SignOnTurn(g)
<1>1. CASE Same(g)
  BY <1>1 DEF Same, Announces
<1>2. CASE Fresh(g)
  BY <1>2 DEF Fresh, Announces
<1>3. CASE Own(g)
  BY <1>3, Turns DEF Turn, GreetTurn, BeginTurn, UserTurn, TellTurn, StartTurn, SpreadTurn, Kept, Announces,
                     QuitTurn, LinkTurn, OtherTurn, Apart
<1> QED
  BY <1>1, <1>2, <1>3, Goes

LEMMA AnnouncedIs ==
    ASSUME NEW u
    PROVE  /\ Announced(u) <=> \E g \in Goroutine : Announces(g, u)
           /\ Announced(u)' <=> \E g \in Goroutine : Announces(g, u)'
BY Zenon DEF Announced, Announces

LEMMA ListedStays ==
    ASSUME TInv, Step, NEW u \in LocalUID, LifeOK(u), Stays(u), ~Leaves(u)'
    PROVE  Stays(u)'
<1>1. CASE u \in signed
  <2>1. ASSUME NEW ids, Drops(ids)
        PROVE  u \in signed'
    <3>1. client'[u] # "gone"
      BY DEF Leaves
    <3> QED
      BY <1>1, <2>1, <3>1 DEF Drops, Delete
  <2>2. u \in signed'
    BY <1>1, <2>1, LifeMoves DEF Lives
  <2> QED
    BY <2>2 DEF Stays, Listed
<1>2. ASSUME NEW g \in Goroutine, Announces(g, u)
      PROVE  u \in signed' \/ Announces(g, u)'
  <2>1. job[g].rec = "live" /\ job[g].id = u
    BY <1>2 DEF LifeOK, Announces, Stays, Leaves
  <2> QED
    BY <1>2, <2>1, AnnouncesStay DEF SignOnTurn
<1> QED
  BY <1>1, <1>2, AnnouncedIs DEF Stays, Listed

LEMMA StaysTold ==
    ASSUME TInv, Next, NEW s \in SID, NEW u \in LocalUID, LifeOK(u),
           Stays(u), ToldOf(s, u), ~Excused(s, u)'
    PROVE  Stays(u)' \/ QuitAhead(s, u)'
<1>0. Step
  BY DEF Next
<1>1. CASE ~Leaves(u)'
  BY <1>0, <1>1, ListedStays
<1>2. CASE client'[u] = "gone" /\ client[u] # "gone" /\ UNCHANGED <<toServer, toClient>>
  BY <1>2, VanishedNow
<1>3. ASSUME NEW g \in Goroutine, StartTurn(g), job[g].pc = "quit", job[g].id = u
      PROVE  QuitAhead(s, u)'
  <2>1. job[g].from = NoSID
    BY <1>3 DEF LifeOK
  <2>2. Quits(g, u)' /\ job'[g].todo = Tree!ServerIter \ {NoSID}
    BY <1>3, <2>1 DEF StartTurn, Kept, Quits
  <2>3. CASE s \in Tree!ServerIter
    <3>1. s \in job'[g].todo
      BY <2>2, <2>3, LinksAssumption
    <3> QED
      BY <2>2, <3>1 DEF QuitAhead, QuitsTo
  <2>4. CASE s \notin Tree!ServerIter
    <3>1. UNCHANGED <<servMap, upstream, sid2conn, view, toServer>>
      BY <1>3 DEF StartTurn, servers, tree, links
    <3>2. (s \notin Tree!ServerIter)' /\ ToldOf(s, u)'
      BY <2>4, <3>1 DEF Tree!ServerIter, ToldOf, Msg
    <3> QED
      BY <2>2, <3>2, QuittingIs DEF Excused
  <2> QED
    BY <2>3, <2>4
<1> QED
  BY <1>0, <1>1, <1>2, <1>3, LeavesNew DEF Stays

LEMMA QuitAheadStays ==
    ASSUME TInv, Step, NEW s \in SID, NEW u \in LocalUID, QuitAhead(s, u)
    PROVE  QuitAhead(s, u)' \/ Sends(s, "QUIT", u)
<1>1. PICK g \in Goroutine : job[g].pc = "quitting" /\ job[g].id = u /\ s \in job[g].todo
  BY DEF QuitAhead, QuitsTo, Quits
<1>2. CASE Same(g)
  BY <1>1, <1>2 DEF Same, QuitAhead, QuitsTo, Quits
<1>3. CASE Fresh(g)
  BY <1>1, <1>3 DEF Fresh
<1>4. CASE Own(g)
  <2>1. PICK r \in SID : SpreadTurn(g, r)
    BY <1>1, <1>4, Turns DEF Turn, GreetTurn, BeginTurn, UserTurn, TellTurn, StartTurn,
                       SignOnTurn, QuitTurn, LinkTurn, OtherTurn, Apart
  <2>2. CASE r = s
    BY <1>1, <2>1, <2>2 DEF SpreadTurn
  <2>3. CASE r # s
    BY <1>1, <2>1, <2>3 DEF SpreadTurn, Kept, QuitAhead, QuitsTo, Quits
  <2> QED
    BY <2>2, <2>3
<1> QED
  BY <1>2, <1>3, <1>4, Goes

LEMMA DueNew ==
    ASSUME TInv, Step, NEW s \in SID, NEW u \in LocalUID, LifeOK(u), Due(s, u)', LinkUp(s)'
    PROVE  Due(s, u) \/ Sends(s, "UID", u)
<1>0. ~Leaves(u) /\ ~Leaves(u)' /\ client'[u] # "gone"
  BY LeavesStay DEF Due, Leaves
<1>1. CASE u \in signed'
  <2>1. u \in signed \/ \E g \in Goroutine : SignOnTurn(g) /\ job[g].id = u
    BY <1>0, <1>1, LifeMoves DEF Lives, Drops, Delete
  <2>2. ASSUME NEW g \in Goroutine, SignOnTurn(g), job[g].id = u
        PROVE  Passed(g, s, u)
    BY <2>2 DEF SignOnTurn, Passed, Announces
  <2> QED
    BY <1>0, <2>1, <2>2 DEF Due
<1>2. ASSUME NEW g \in Goroutine, Passed(g, s, u)'
      PROVE  Due(s, u) \/ Sends(s, "UID", u)
  <2>0. job'[g].pc = "announce" /\ job'[g].id = u /\ s \notin job'[g].todo
    BY <1>2 DEF Passed, Announces
  <2>1. CASE Same(g)
    BY <1>0, <2>0, <2>1 DEF Same, Due, Passed, Announces
  <2>2. CASE Fresh(g)
    BY <2>0, <2>2 DEF Fresh
  <2>3. CASE Own(g)
    <3>1. (StartTurn(g) /\ job[g].pc = "user") \/ \E r \in SID : SpreadTurn(g, r) /\ job[g].pc = "announce"
      BY <2>0, <2>3, Turns DEF Turn, GreetTurn, BeginTurn, UserTurn, TellTurn, StartTurn, Ends, SpreadTurn,
                       SignOnTurn, QuitTurn, LinkTurn, OtherTurn, Apart
    <3>2. CASE StartTurn(g) /\ job[g].pc = "user"
      <4>1. job[g].from = NoSID /\ job[g].id = u
        BY <2>0, <3>2 DEF StartTurn, Kept, LifeOK
      <4>2. s \notin Tree!ServerIter
        BY <2>0, <3>2, <4>1, LinksAssumption DEF StartTurn
      <4>3. UNCHANGED <<upstream, registered>>
        BY <3>2 DEF StartTurn, servers, tree
      <4>4. s \in servMap /\ upstream[s] = NoSID
        BY <4>3 DEF LinkUp, TInv, TableOK
      <4> QED
        BY <4>2, <4>4 DEF Tree!ServerIter
    <3>3. ASSUME NEW r \in SID, SpreadTurn(g, r), job[g].pc = "announce"
          PROVE  Due(s, u) \/ Sends(s, "UID", u)
      <4>1. job[g].id = u
        BY <2>0, <3>3 DEF SpreadTurn, Kept
      <4>2. CASE r = s
        BY <3>3, <4>1, <4>2 DEF SpreadTurn
      <4>3. CASE r # s
        <5>1. s \notin job[g].todo
          BY <2>0, <3>3, <4>3 DEF SpreadTurn
        <5> QED
          BY <1>0, <3>3, <4>1, <5>1 DEF Due, Passed, Announces
      <4> QED
        BY <4>2, <4>3
    <3> QED
      BY <3>1, <3>2, <3>3
  <2> QED
    BY <2>1, <2>2, <2>3, Goes
<1> QED
  BY <1>1, <1>2 DEF Due

LEMMA AheadStays ==
    ASSUME TInv, Next, NEW s \in SID, NEW u \in LocalUID, LifeOK(u), Ahead(s, u), Due(s, u), ~Excused(s, u)'
    PROVE  Ahead(s, u)' \/ Sends(s, "UID", u)
<1>0. Step
  BY DEF Next
<1>1. u \in users
  <2>1. u \in signed => u \in users
    BY DEF TInv, PeopleOK
  <2>2. ASSUME NEW g \in Goroutine, Passed(g, s, u)
        PROVE  u \in users
    BY <2>2 DEF Passed, Announces, Due, Leaves, LifeOK, TInv, PeopleOK
  <2> QED
    BY <2>1, <2>2 DEF Due
<1>2. PICK g \in Goroutine : Greets(g, s, u)
  BY DEF Ahead
<1>3. CASE Same(g)
  BY <1>2, <1>3 DEF Same, Greets, Ahead
<1>4. CASE Fresh(g)
  BY <1>2, <1>4 DEF Fresh, Greets
<1>5. CASE Own(g)
  <2>1. GreetTurn(g) \/ BeginTurn(g) \/ (\E v \in UID : UserTurn(g, v)) \/ TellTurn(g)
    BY <1>2, <1>5, Turns DEF Turn, Greets, StartTurn, SpreadTurn, SignOnTurn, QuitTurn, LinkTurn,
                       OtherTurn, Apart
  <2>2. CASE GreetTurn(g) \/ BeginTurn(g)
    BY <1>1, <1>2, <2>2 DEF GreetTurn, BeginTurn, Greets, Kept, Ahead
  <2>3. ASSUME NEW v \in UID, UserTurn(g, v)
        PROVE  Ahead(s, u)'
    <3>1. u \in job[g].todo /\ job[g].from = s /\ job[g].pc = "burst"
      BY <1>2, <2>3 DEF Greets, UserTurn
    <3>2. CASE v = u /\ u \notin signed
      <4>1. Announced(u)
        BY <3>2, AnnouncedIs DEF Due, Passed
      <4>2. Bursting(g, u)
        BY <2>3, <3>1, <3>2 DEF Bursting, UserTurn
      <4>3. Crossed(s, u)
        BY <3>1, <4>1, <4>2 DEF Crossed, Moving
      <4> QED
        BY <4>3, CrossedNow
    <3>3. CASE v = u /\ u \in signed
      BY <2>3, <3>1, <3>3 DEF UserTurn, Ahead, Greets
    <3>4. CASE v # u
      BY <2>3, <3>1, <3>4 DEF UserTurn, Ahead, Greets, Kept
    <3> QED
      BY <3>2, <3>3, <3>4
  <2>4. CASE TellTurn(g)
    <3>1. CASE job[g].id = u
      BY <1>2, <2>4, <3>1 DEF TellTurn, Greets
    <3>2. CASE job[g].id # u
      BY <1>2, <2>4, <3>2 DEF TellTurn, Greets, Ahead, Kept
    <3> QED
      BY <3>1, <3>2
  <2> QED
    BY <2>1, <2>2, <2>3, <2>4
<1> QED
  BY <1>0, <1>3, <1>4, <1>5, Goes

LEMMA LinkNew ==
    ASSUME TInv, Step, NEW s \in SID, NEW u, LinkUp(s)'
    PROVE  LinkUp(s) \/ Ahead(s, u)'
<1>0. registered \subseteq servMap /\ upstream \in [SID -> SID \cup {NoSID}] /\ s \in registered' /\ upstream'[s] = NoSID
  BY DEF TInv, TableOK, TreeFacts!IInv, TreeFacts!TypeOK, LinkUp
<1>1. ASSUME NEW k \in Conn, NEW sid \in SID, Adopt(k, sid)
      PROVE  LinkUp(s)
  BY <1>0, <1>1 DEF Adopt, GetServer, Tree!GetServer, tree, LinkUp
<1>2. ASSUME NEW g \in Goroutine, ConnRegLine(g)
      PROVE  LinkUp(s)
  BY <1>0, <1>2 DEF ConnRegLine, GetServer, Tree!GetServer, tree, LinkUp
<1>3. ASSUME NEW g \in Goroutine, Sid(g)
      PROVE  LinkUp(s)
  <2>1. UNCHANGED registered
    BY <1>3 DEF Sid
  <2>2. UNCHANGED upstream \/ (job[g].id \notin servMap /\ upstream' = [upstream EXCEPT ![job[g].id] = job[g].link])
    BY <1>3 DEF Sid, Tree!LinkServer, Tree!CanLink, tree
  <2> QED
    BY <1>0, <2>1, <2>2 DEF LinkUp
<1>4. ASSUME NEW g \in Goroutine, Unlink(g)
      PROVE  LinkUp(s)
  BY <1>0, <1>4 DEF Unlink, Tree!Unlink, tree, LinkUp
<1>5. ASSUME NEW g \in Goroutine, SignOn(g)
      PROVE  LinkUp(s) \/ Ahead(s, u)'
  <2>1. UNCHANGED upstream /\ job[g].pc = "introduce" /\ Own(g)
        /\ registered' \subseteq registered \cup {job[g].from}
    BY <1>5 DEF SignOn, tree, Own
  <2>2. job'[g].pc = "greet" /\ job'[g].from = job[g].from
    BY <1>5, Become1 DEF SignOn, TInv, JobsOK, Job
  <2> QED
    BY <1>0, <2>1, <2>2 DEF LinkUp, Ahead, Greets
<1>6. CASE UNCHANGED servers
  BY <1>0, <1>6 DEF servers, tree, LinkUp
<1> QED
  BY <1>1, <1>2, <1>3, <1>4, <1>5, <1>6, TableMoves

-----------------------------------------------------------------------------
(* All steps but Write. *)

LEMMA LinksKept ==
    ASSUME TInv, ConnsOK, Step, ~Write
    PROVE  /\ view' = view
           /\ \A k \in Conn : conn'[k].greeted => conn[k].greeted
           /\ \A s \in SID : \/ sid2conn'[s] = sid2conn[s] \/ sid2conn'[s] \notin Conn
                             \/ sid2conn'[s] \in Conn /\ Adopt(sid2conn'[s], s)
<1>0. /\ conn \in [Conn -> ConnRec] /\ sid2conn \in [SID -> Conn \cup {NoConn, NilConn}] /\ NilConn \notin Conn
      /\ \A k \in Conn : conn[k].pc # "new" => conn[k].sid \in SID
  BY LinksAssumption DEF TInv, LinksOK
<1> DEFINE Kept1 == /\ view' = view
                    /\ \A k \in Conn : conn'[k].greeted => conn[k].greeted
           Kept2 == \A s \in SID : sid2conn'[s] = sid2conn[s] \/ sid2conn'[s] \notin Conn
           Kept3 == \A s \in SID : \/ sid2conn'[s] = sid2conn[s]
                                   \/ sid2conn'[s] \in Conn /\ Adopt(sid2conn'[s], s)
<1>1. ASSUME NEW k \in Conn, Receive(k)
      PROVE  Kept1 /\ Kept2
  <2>1. PICK said, bye : conn' = [conn EXCEPT ![k].said = said, ![k].bye = bye]
    BY <1>1, Saying, Zenon DEF TInv, Said
  <2>2. UNCHANGED <<view, sid2conn>>
    BY <1>1, Saying, Zenon DEF TInv, Said
  <2> QED
    BY <1>0, <2>1, <2>2 DEF ConnRec
<1>2. ASSUME NEW k \in Conn, PeerLeaves(k) \/ \E line \in Line : ReceiveLine(k, line)
      PROVE  Kept1 /\ Kept2
  BY <1>0, <1>2 DEF PeerLeaves, ReceiveLine, ConnRec
<1>3. ASSUME NEW k \in Conn, LinkClosed(k)
      PROVE  Kept1 /\ Kept2
  BY <1>0, <1>3 DEF LinkClosed, ConnRec
<1>4. ASSUME NEW k \in Conn, ReceiveError(k)
      PROVE  Kept1 /\ Kept2
  <2>1. UNCHANGED view
    BY <1>4 DEF ReceiveError
  <2>2. UNCHANGED sid2conn \/ sid2conn' = [sid2conn EXCEPT ![conn[k].sid] = NilConn]
    BY <1>4 DEF ReceiveError
  <2>3. \/ conn' = [conn EXCEPT ![k].bye = TRUE]
        \/ \E pc : conn' = [conn EXCEPT ![k].bye = TRUE, ![sid2conn[conn[k].sid]].pc = pc]
    BY <1>4 DEF ReceiveError
  <2>4. \A l \in Conn : conn'[l].greeted = conn[l].greeted
    <3>1. CASE conn' = [conn EXCEPT ![k].bye = TRUE]
      BY <1>0, <3>1 DEF ConnRec
    <3>2. ASSUME NEW pc, conn' = [conn EXCEPT ![k].bye = TRUE, ![sid2conn[conn[k].sid]].pc = pc]
          PROVE  \A l \in Conn : conn'[l].greeted = conn[l].greeted
      BY <1>0, <3>2 DEF ConnRec
    <3> QED
      BY <2>3, <3>1, <3>2
  <2>5. Kept2
    BY <1>0, <2>2
  <2> QED
    BY <2>1, <2>4, <2>5
<1>5. ASSUME NEW k \in Conn, NEW sid \in SID, Adopt(k, sid)
      PROVE  Kept1 /\ Kept3
  <2>1. PICK pc : /\ conn' = [conn EXCEPT ![k] = HandOver(sid, pc)] /\ view' = view
                  /\ sid2conn' = [sid2conn EXCEPT ![sid] = k]
    BY <1>5 DEF Adopt
  <2>2. HandOver(sid, pc).greeted = FALSE
    BY DEF HandOver, NewConn
  <2>3. Kept1
    BY <1>0, <2>1, <2>2
  <2>4. Kept3
    BY <1>0, <1>5, <2>1
  <2> QED
    BY <2>3, <2>4
<1>6. ASSUME UNCHANGED links
      PROVE  Kept1 /\ Kept2
  <2>1. conn' = conn /\ view' = view /\ sid2conn' = sid2conn
    BY <1>6 DEF links
  <2> QED
    BY <1>0, <2>1 DEF ConnRec
<1>7. (Kept1 /\ Kept2) \/ (Kept1 /\ Kept3)
  BY <1>1, <1>2, <1>3, <1>4, <1>5, <1>6, LinkMoves
<1> QED
  BY <1>7

\* A server that is registered has, or had, a connection: one that it gets now is not
\* signed on to.
LEMMA OpenKept ==
    ASSUME TInv, ConnsOK, Step, ~Write, NEW s \in SID, Open(s)'
    PROVE  LinkUp(s)' /\ sid2conn[s] \in Conn /\ sid2conn'[s] = sid2conn[s] /\ Answered(sid2conn[s])
<1> DEFINE k == sid2conn'[s]
<1>0. /\ LinkUp(s)' /\ s \in registered' /\ k \in Conn /\ NoSID \notin SID
      /\ conn'[k].greeted \/ \A l \in Conn \ {k} : conn'[l].sid # conn'[k].sid
  BY LinksAssumption DEF Open, LinkUp, Answered
<1>1. CASE Adopt(k, s)
  <2>1. /\ s \in registered /\ conn[k].pc = "new"
        /\ \E pc : conn'[k] = HandOver(s, pc)
    BY <1>0, <1>1 DEF Adopt, TInv, LinksOK
  <2>2. conn[k].sid = NoSID /\ conn'[k].sid = s /\ conn'[k].greeted = FALSE
    BY <1>0, <2>1 DEF ConnsOK, HandOver, NewConn
  <2>3. PICK l \in Conn : conn[l].sid = s
    BY <2>1 DEF ConnsOK, HadConn
  <2>4. l # k /\ conn'[l].sid = s
    BY <1>0, <2>2, <2>3, HadStays
  <2> QED
    BY <1>0, <2>2, <2>4
<1>2. CASE k = sid2conn[s]
  <2>1. conn[k].sid = s
    BY <1>0, <1>2 DEF TInv, LinksOK
  <2>2. \A l \in Conn : conn'[l].sid = conn[l].sid \/ conn[l].sid = NoSID
    BY HadStays
  <2>3. CASE conn'[k].greeted
    BY <1>0, <1>2, <2>3, LinksKept DEF Answered
  <2>4. CASE \A l \in Conn \ {k} : conn'[l].sid # conn'[k].sid
    <3>1. \A l \in Conn \ {k} : conn[l].sid # conn[k].sid
      BY <1>0, <2>1, <2>2, <2>4
    <3> QED
      BY <1>0, <1>2, <3>1 DEF Answered
  <2> QED
    BY <1>0, <2>3, <2>4
<1> QED
  BY <1>0, <1>1, <1>2, LinksKept

LEMMA InViewKept ==
    ASSUME TInv, ConnsOK, Step, ~Write, NEW s \in SID, NEW u
    PROVE  /\ InView(s, u)' => InView(s, u)
           /\ sid2conn'[s] = sid2conn[s] /\ InView(s, u) => InView(s, u)'
<1>1. view' = view
  BY LinksKept
<1>2. sid2conn'[s] = sid2conn[s] => (InView(s, u)' <=> InView(s, u))
  BY <1>1 DEF InView
<1>3. ASSUME sid2conn'[s] \in Conn, Adopt(sid2conn'[s], s)
      PROVE  ~InView(s, u)'
  <2>1. view[sid2conn'[s]] = {}
    BY <1>3 DEF Adopt, ConnsOK
  <2> QED
    BY <1>1, <2>1 DEF InView
<1> QED
  BY <1>2, <1>3, LinksKept DEF InView

LEMMA SentStays ==
    ASSUME TInv, Step, ~Write
    PROVE  \A i, s, c, v : SentOf(i, s, c, v) => SentOf(i, s, c, v)'
<1>1. CASE UNCHANGED toServer
  BY <1>1 DEF SentOf, Sent
<1>2. CASE \E to, cmd, id : Sends(to, cmd, id)
  BY <1>2, SentOfGrows
<1>3. ASSUME NEW g \in Goroutine, GreetTurn(g) \/ TellTurn(g) \/ \E s \in SID : SpreadTurn(g, s)
      PROVE  \E to, cmd, id : Sends(to, cmd, id)
  BY <1>3, Zenon DEF GreetTurn, TellTurn, SpreadTurn
<1>4. UNCHANGED toServer \/ \E to, cmd, id : Sends(to, cmd, id)
  BY <1>3, QueueGrows, Zenon
<1> QED
  BY <1>1, <1>2, <1>4

LEMMA SentNew ==
    ASSUME TInv, Step, ~Write, NEW s \in SID, NEW u
    PROVE  /\ \A i : Sent(i, s, "SERVER")' =>
                Sent(i, s, "SERVER") \/ \E g \in Goroutine : GreetTurn(g) /\ job[g].from = s
           /\ \A i : SentOf(i, s, "UID", u)' =>
                \/ SentOf(i, s, "UID", u)
                \/ \E g \in Goroutine : job[g].id = u /\ \/ TellTurn(g) /\ job[g].from = s
                                                         \/ SpreadTurn(g, s) /\ job[g].pc = "announce"
<1>1. CASE UNCHANGED toServer
  BY <1>1 DEF SentOf, Sent
<1>2. ASSUME NEW g \in Goroutine, GreetTurn(g)
      PROVE  /\ \A i : Sent(i, s, "SERVER")' => Sent(i, s, "SERVER") \/ job[g].from = s
             /\ \A i : SentOf(i, s, "UID", u)' => SentOf(i, s, "UID", u)
  <2>1. PICK from, id : Sends(from, "SERVER", id) /\ from = job[g].from
    BY <1>2 DEF GreetTurn
  <2> QED
    BY <2>1, SentGrows, SentOfGrows
<1>3. ASSUME NEW g \in Goroutine, TellTurn(g)
      PROVE  /\ \A i : Sent(i, s, "SERVER")' => Sent(i, s, "SERVER")
             /\ \A i : SentOf(i, s, "UID", u)' => SentOf(i, s, "UID", u) \/ (job[g].from = s /\ job[g].id = u)
  <2>1. PICK from, id : Sends(from, "UID", id) /\ from = job[g].from /\ id = job[g].id
    BY <1>3 DEF TellTurn
  <2> QED
    BY <2>1, SentGrows, SentOfGrows
<1>4. ASSUME NEW g \in Goroutine, NEW r \in SID, SpreadTurn(g, r)
      PROVE  /\ \A i : Sent(i, s, "SERVER")' => Sent(i, s, "SERVER")
             /\ \A i : SentOf(i, s, "UID", u)' =>
                  SentOf(i, s, "UID", u) \/ (r = s /\ job[g].id = u /\ job[g].pc = "announce")
  <2>1. PICK cmd, id : /\ Sends(r, cmd, id) /\ id = job[g].id
                       /\ cmd = IF job[g].pc = "quitting" THEN "QUIT" ELSE "UID"
    BY <1>4 DEF SpreadTurn
  <2>2. cmd = "UID" => job[g].pc = "announce"
    BY <1>4, <2>1 DEF SpreadTurn
  <2> QED
    BY <2>1, <2>2, SentGrows, SentOfGrows
<1>5. ASSUME NEW to, NEW cmd, NEW id, cmd \notin {"SERVER", "UID", "QUIT"}, Sends(to, cmd, id)
      PROVE  /\ \A i : Sent(i, s, "SERVER")' => Sent(i, s, "SERVER")
             /\ \A i : SentOf(i, s, "UID", u)' => SentOf(i, s, "UID", u)
  BY <1>5, SentGrows, SentOfGrows
<1> QED
  BY <1>1, <1>2, <1>3, <1>4, <1>5, QueueGrows

\* A message that is sent now is the last one.
LEMMA SentLast ==
    ASSUME TInv, NEW s, NEW cmd, NEW u, Sends(s, cmd, u)
    PROVE  \E n \in Nat : /\ SentOf(n, s, cmd, u)'
                          /\ \A i, r, c : Sent(i, r, c) => i < n
<1>1. Len(toServer) + 1 \in Nat
  BY Appending
<1> QED
  BY <1>1, SentGrows, SentOfGrows

LEMMA ReachedKept ==
    ASSUME TInv, ConnsOK, Next, ~Write, NEW s \in SID, NEW u \in LocalUID, LifeOK(u),
           Reached(s, u), ~Excused(s, u)'
    PROVE  Reached(s, u)'
<1>0. Step
  BY DEF Next
<1>1. ASSUME Open(s)', Due(s, u)'
      PROVE  InView(s, u)' \/ (\E i \in Nat : SentOf(i, s, "UID", u)') \/ Ahead(s, u)'
  <2>1. CASE Sends(s, "UID", u)
    BY <2>1, SentLast
  <2>2. CASE ~Sends(s, "UID", u)
    <3>1. LinkUp(s)' /\ sid2conn[s] \in Conn /\ sid2conn'[s] = sid2conn[s] /\ Answered(sid2conn[s])
      BY <1>0, <1>1, OpenKept
    <3>2. Due(s, u) /\ (LinkUp(s) \/ Ahead(s, u)')
      BY <1>0, <1>1, <2>2, <3>1, DueNew, LinkNew
    <3>3. CASE LinkUp(s)
      <4>1. InView(s, u) \/ (\E i \in Nat : SentOf(i, s, "UID", u)) \/ Ahead(s, u)
        BY <3>1, <3>2, <3>3 DEF Reached, Open
      <4>2. InView(s, u) => InView(s, u)'
        BY <1>0, <3>1, InViewKept
      <4>3. Ahead(s, u) => Ahead(s, u)'
        BY <2>2, <3>2, AheadStays
      <4> QED
        BY <1>0, <4>1, <4>2, <4>3, SentStays
    <3> QED
      BY <3>2, <3>3
  <2> QED
    BY <2>1, <2>2
<1>2. ASSUME NEW i \in Nat, LinkUp(s)', Due(s, u)', Sent(i, s, "SERVER")'
      PROVE  (\E j \in Nat : j > i /\ SentOf(j, s, "UID", u)') \/ Ahead(s, u)'
  <2>1. ASSUME NEW g \in Goroutine, GreetTurn(g), job[g].from = s
        PROVE  Ahead(s, u)'
    BY <2>1 DEF GreetTurn, Kept, Ahead, Greets
  <2>2. CASE Sent(i, s, "SERVER") /\ Sends(s, "UID", u)
    <3>1. PICK n \in Nat : SentOf(n, s, "UID", u)' /\ i < n
      BY <2>2, SentLast
    <3> QED
      BY <3>1
  <2>3. CASE Sent(i, s, "SERVER") /\ ~Sends(s, "UID", u)
    <3>1. Due(s, u) /\ (LinkUp(s) \/ Ahead(s, u)')
      BY <1>0, <1>2, <2>3, DueNew, LinkNew
    <3>2. CASE LinkUp(s)
      <4>1. (\E j \in Nat : j > i /\ SentOf(j, s, "UID", u)) \/ Ahead(s, u)
        BY <2>3, <3>1, <3>2 DEF Reached
      <4>2. Ahead(s, u) => Ahead(s, u)'
        BY <2>3, <3>1, AheadStays
      <4> QED
        BY <1>0, <4>1, <4>2, SentStays
    <3> QED
      BY <3>1, <3>2
  <2> QED
    BY <1>0, <1>2, <2>1, <2>2, <2>3, SentNew
<1> QED
  BY <1>1, <1>2 DEF Reached

\* Who is told of is signed on, and stays for the moment.
LEMMA ToldStays ==
    ASSUME TInv, Step, NEW s \in SID, NEW u \in LocalUID, LifeOK(u), TellsSigned(s, u), ~Excused(s, u),
           NEW g \in Goroutine, job[g].id = u,
           (TellTurn(g) /\ job[g].from = s) \/ (SpreadTurn(g, s) /\ job[g].pc = "announce")
    PROVE  Stays(u)'
<1>1. Stays(u)
  <2>1. CASE TellTurn(g) /\ job[g].from = s
    <3>1. TellsOf(g, s, u)
      BY <2>1 DEF TellTurn, TellsOf
    <3>2. u \in signed /\ ~Quitting(u)
      BY <3>1 DEF TellsSigned, Excused, Moving
    <3> QED
      BY <3>2 DEF LifeOK, Stays, Leaves, Listed
  <2>2. CASE SpreadTurn(g, s) /\ job[g].pc = "announce"
    <3>1. Announced(u)
      BY <2>2, AnnouncedIs DEF Announces
    <3> QED
      BY <3>1 DEF Excused, Stays, Leaves, Listed
  <2> QED
    BY <2>1, <2>2
<1>2. toServer' # toServer
  <2>1. \E to, cmd, id : Sends(to, cmd, id)
    BY Zenon DEF TellTurn, SpreadTurn
  <2>2. Len(toServer) \in Nat /\ Len(toServer') = Len(toServer) + 1
    BY <2>1, Appending
  <2> QED
    BY <2>2
<1>3. ~Leaves(u)'
  BY <1>1, <1>2, LeavesNew DEF Stays, StartTurn
<1> QED
  BY <1>1, <1>3, ListedStays

LEMMA TakenKept ==
    ASSUME TInv, ConnsOK, Next, ~Write, NEW s \in SID, NEW u \in LocalUID, LifeOK(u),
           TakenBack(s, u), TellsSigned(s, u), ~Excused(s, u)'
    PROVE  TakenBack(s, u)'
<1>0. Step /\ ~Excused(s, u)
  BY ExcusedStays DEF Next
<1>1. ASSUME Stays(u), ToldOf(s, u)
      PROVE  Stays(u)' \/ QuitAhead(s, u)'
  BY <1>1, StaysTold
<1>2. QuitAhead(s, u) => QuitAhead(s, u)' \/ Sends(s, "QUIT", u)
  BY <1>0, QuitAheadStays
<1>3. ASSUME InView(s, u)'
      PROVE  Stays(u)' \/ QuitAhead(s, u)' \/ \E i \in Nat : SentOf(i, s, "QUIT", u)'
  <2>1. InView(s, u)
    BY <1>0, <1>3, InViewKept
  <2>2. ToldOf(s, u)
    BY <2>1 DEF InView, ToldOf
  <2>3. Stays(u) \/ QuitAhead(s, u) \/ \E i \in Nat : SentOf(i, s, "QUIT", u)
    BY <2>1 DEF TakenBack
  <2>4. Sends(s, "QUIT", u) => \E i \in Nat : SentOf(i, s, "QUIT", u)'
    BY SentLast
  <2> QED
    BY <1>0, <1>1, <1>2, <2>2, <2>3, <2>4, SentStays
<1>4. ASSUME NEW i \in Nat, SentOf(i, s, "UID", u)'
      PROVE  Stays(u)' \/ QuitAhead(s, u)' \/ \E j \in Nat : j > i /\ SentOf(j, s, "QUIT", u)'
  <2>1. CASE SentOf(i, s, "UID", u)
    <3>1. ToldOf(s, u)
      <4>1. i \in 1..Len(toServer) /\ toServer[i] \in ServerMsg
        BY <2>1 DEF SentOf, Sent, TInv, QueuesOK
      <4>2. toServer[i] = Msg(s, "UID", u)
        BY <2>1, <4>1 DEF SentOf, Sent, ServerMsg, Msg
      <4> QED
        BY <4>1, <4>2 DEF ToldOf
    <3>2. Stays(u) \/ QuitAhead(s, u) \/ \E j \in Nat : j > i /\ SentOf(j, s, "QUIT", u)
      BY <2>1 DEF TakenBack
    <3>3. Sends(s, "QUIT", u) => \E j \in Nat : j > i /\ SentOf(j, s, "QUIT", u)'
      <4>1. Sent(i, s, "UID")
        BY <2>1 DEF SentOf
      <4>2. ASSUME Sends(s, "QUIT", u)
            PROVE  \E j \in Nat : SentOf(j, s, "QUIT", u)' /\ i < j
        BY <4>1, <4>2, SentLast
      <4> QED
        BY <4>2
    <3> QED
      BY <1>0, <1>1, <1>2, <3>1, <3>2, <3>3, SentStays
  <2>2. ASSUME NEW g \in Goroutine, job[g].id = u,
               (TellTurn(g) /\ job[g].from = s) \/ (SpreadTurn(g, s) /\ job[g].pc = "announce")
        PROVE  Stays(u)'
    BY <1>0, <2>2, ToldStays
  <2> QED
    BY <1>0, <1>4, <2>1, <2>2, SentNew
<1> QED
  BY <1>3, <1>4 DEF TakenBack

LEMMA TellsKept ==
    ASSUME TInv, Next, NEW s \in SID, NEW u \in LocalUID, TellsSigned(s, u), ~Excused(s, u)'
    PROVE  TellsSigned(s, u)'
<1>0. Step /\ ~Excused(s, u)
  BY ExcusedStays DEF Next
<1> SUFFICES ASSUME NEW g \in Goroutine, TellsOf(g, s, u)'
             PROVE  u \in signed'
  BY DEF TellsSigned
<1>1. CASE Same(g)
  <2>1. TellsOf(g, s, u)
    BY <1>1 DEF Same, TellsOf
  <2>2. u \in signed /\ ~Quitting(u)
    BY <1>0, <2>1 DEF TellsSigned, Excused, Moving
  <2>3. ASSUME NEW ids, Drops(ids), u \in ids
        PROVE  FALSE
    <3>1. client'[u] = "gone" /\ client[u] # "gone" /\ toClient' = toClient
      BY <2>2, <2>3 DEF Drops
    <3> QED
      BY <3>1, VanishedNow
  <2>4. ASSUME NEW ids, Drops(ids), u \notin ids
        PROVE  u \in signed'
    BY <2>2, <2>4 DEF Drops, Delete
  <2> QED
    BY <1>0, <2>2, <2>3, <2>4, LifeMoves DEF Lives
<1>2. CASE Fresh(g)
  BY <1>2 DEF Fresh, TellsOf
<1>3. CASE Own(g)
  <2>1. PICK v \in UID : UserTurn(g, v)
    BY <1>3, Turns DEF Turn, TellsOf, GreetTurn, BeginTurn, TellTurn, StartTurn, SpreadTurn, Ends,
                     SignOnTurn, QuitTurn, LinkTurn, OtherTurn, Apart
  <2> QED
    BY <2>1 DEF UserTurn, TellsOf, Ends
<1> QED
  BY <1>0, <1>1, <1>2, <1>3, Goes

-----------------------------------------------------------------------------
(* Write. *)

\* A message changes the view of the connection it is written to, and no other.
LEMMA Written ==
    ASSUME TInv, Write, loop' = "up", NEW s \in SID, NEW u \in LocalUID
    PROVE  /\ toServer # <<>> /\ toServer' = Tail(toServer)
           /\ UNCHANGED <<servers, people, client, sid2conn, toClient, job>>
           /\ InView(s, u)' =>
                (InView(s, u) /\ ~SentOf(1, s, "QUIT", u)) \/ SentOf(1, s, "UID", u)
           /\ InView(s, u) => InView(s, u)' \/ SentOf(1, s, "QUIT", u)
           /\ SentOf(1, s, "UID", u) /\ sid2conn[s] \in Conn => InView(s, u)'
           /\ sid2conn[s] \in Conn /\ Answered(sid2conn[s])' =>
                Answered(sid2conn[s]) \/ Sent(1, s, "SERVER")
<1> DEFINE m == toServer[1]
           k == sid2conn[s]
           entry == Entry(m.to)
           told(A) == IF m.cmd = "UID" THEN A \cup ({m.id} \cap LocalUID)
                      ELSE IF m.cmd = "QUIT" THEN A \ {m.id} ELSE A
<1>0. /\ toServer # <<>> /\ toServer' = Tail(toServer) /\ Head(toServer) = m /\ 1 \in 1..Len(toServer)
      /\ m \in ServerMsg
      /\ UNCHANGED <<servers, people, client, sid2conn, toClient, job>>
  BY DEF Write, TInv, QueuesOK
<1>1. /\ sid2conn \in [SID -> Conn \cup {NoConn, NilConn}] /\ conn \in [Conn -> ConnRec]
      /\ view \in [Conn -> SUBSET LocalUID] /\ NoConn \notin Conn /\ NilConn \notin Conn
      /\ \A r \in SID : sid2conn[r] \in Conn => conn[sid2conn[r]].sid = r
  BY LinksAssumption DEF TInv, LinksOK
<1>2. m.to \in SID \cup {NoSID}
  BY <1>0 DEF ServerMsg
<1>3. \/ entry = NoConn /\ UNCHANGED <<conn, view>>
      \/ /\ entry \in Conn
         /\ conn' = IF m.cmd = "SERVER" THEN [conn EXCEPT ![entry].greeted = TRUE] ELSE conn
         /\ view' = [view EXCEPT ![entry] = told(view[entry])]
  BY <1>0 DEF Write
<1>4. k \in Conn => (entry = k <=> m.to = s)
  <2>1. entry \in Conn => m.to \in SID /\ entry = sid2conn[m.to]
    BY <1>1, <1>2 DEF Entry
  <2>2. m.to = s => entry = k
    BY LinksAssumption DEF Entry
  <2> QED
    BY <1>1, <2>1, <2>2
<1>5. \A c : Sent(1, s, c) <=> (m.to = s /\ m.cmd = c)
  BY <1>0 DEF Sent
<1>6. \A c : SentOf(1, s, c, u) <=> (m.to = s /\ m.cmd = c /\ m.id = u)
  BY <1>5 DEF SentOf
<1>7. sid2conn'[s] = k
  BY <1>0
<1>8. CASE entry = NoConn /\ UNCHANGED <<conn, view>>
  <2>1. InView(s, u)' <=> InView(s, u)
    BY <1>7, <1>8 DEF InView
  <2>2. k \in Conn => m.to # s
    BY <1>1, <1>4, <1>8
  <2>3. k \in Conn /\ Answered(k)' => Answered(k)
    BY <1>7, <1>8 DEF Answered
  <2>4. InView(s, u) => k \in Conn
    BY DEF InView
  <2> HIDE DEF m, k, entry, told
  <2> QED
    BY <1>0, <1>6, <2>1, <2>2, <2>3, <2>4 DEF k
<1>9. CASE /\ entry \in Conn
           /\ conn' = IF m.cmd = "SERVER" THEN [conn EXCEPT ![entry].greeted = TRUE] ELSE conn
           /\ view' = [view EXCEPT ![entry] = told(view[entry])]
  <2>1. \A l \in Conn : /\ conn'[l].sid = conn[l].sid
                        /\ conn'[l].greeted => conn[l].greeted \/ (l = entry /\ m.cmd = "SERVER")
    <3>1. CASE m.cmd = "SERVER"
      BY <1>1, <1>9, <3>1 DEF ConnRec
    <3>2. CASE m.cmd # "SERVER"
      BY <1>9, <3>2
    <3> QED
      BY <3>1, <3>2
  <2>2. k \in Conn /\ Answered(k)' => Answered(k) \/ Sent(1, s, "SERVER")
    BY <1>4, <1>5, <1>7, <2>1 DEF Answered
  <2>3. CASE k \in Conn /\ entry = k
    <3>1. view'[k] = told(view[k]) /\ m.to = s
      BY <1>1, <1>4, <1>9, <2>3
    <3>2. InView(s, u)' <=> u \in told(view[k])
      BY <1>7, <2>3, <3>1 DEF InView
    <3>3. InView(s, u) <=> u \in view[k]
      BY <2>3 DEF InView
    <3>4. u \in told(view[k]) <=> \/ u \in view[k] /\ ~(m.cmd = "QUIT" /\ m.id = u)
                                  \/ m.cmd = "UID" /\ m.id = u
      OBVIOUS
    <3> HIDE DEF m, k, entry, told
    <3> QED
      BY <1>0, <1>6, <2>2, <3>1, <3>2, <3>3, <3>4 DEF k
  <2>4. CASE ~(k \in Conn /\ entry = k)
    <3>1. InView(s, u)' <=> InView(s, u)
      BY <1>1, <1>7, <1>9, <2>4 DEF InView
    <3>2. ~(k \in Conn /\ m.to = s)
      BY <1>4, <2>4
    <3>3. InView(s, u) => k \in Conn
      BY DEF InView
    <3> HIDE DEF m, k, entry, told
    <3> QED
      BY <1>0, <1>6, <2>2, <3>1, <3>2, <3>3 DEF k
  <2> QED
    BY <2>3, <2>4
<1> QED
  BY <1>3, <1>8, <1>9

LEMMA WriteKeeps ==
    ASSUME TInv, Write, loop' = "up", NEW s \in SID, NEW u \in LocalUID, QuitsLeave(u),
           Reached(s, u), TakenBack(s, u), TellsSigned(s, u)
    PROVE  Reached(s, u)' /\ TakenBack(s, u)' /\ TellsSigned(s, u)'
<1>0. toServer # <<>> /\ toServer' = Tail(toServer)
  BY Written
<1>1. UNCHANGED <<registered, upstream, signed, client, sid2conn, toClient, job>>
  <2>1. UNCHANGED <<servers, people, client, sid2conn, toClient, job>>
    BY Written
  <2> QED
    BY <2>1 DEF servers, tree, people
<1>2. /\ Leaves(u)' <=> Leaves(u)
      /\ Announced(u)' <=> Announced(u)
  BY <1>1 DEF Leaves, Quitting, Announced
<1>3. Stays(u)' <=> Stays(u)
  BY <1>1, <1>2 DEF Stays, Listed
<1>4. /\ Due(s, u)' <=> Due(s, u)
      /\ Ahead(s, u)' <=> Ahead(s, u)
      /\ QuitAhead(s, u)' <=> QuitAhead(s, u)
      /\ LinkUp(s)' <=> LinkUp(s)
  BY <1>1, <1>2 DEF Due, Passed, Announces, Ahead, Greets, QuitAhead, QuitsTo, Quits, LinkUp
<1>5. \A c : \A i \in Nat : /\ Sent(i, s, c)' => i >= 1 /\ Sent(i + 1, s, c)
                            /\ SentOf(i, s, c, u)' => i >= 1 /\ SentOf(i + 1, s, c, u)
                            /\ i >= 1 /\ SentOf(i + 1, s, c, u) => SentOf(i, s, c, u)'
  BY <1>0, SentMoves
<1>6. ASSUME NEW c, NEW i \in Nat, i > 1, SentOf(i, s, c, u)
      PROVE  \E n \in Nat : n + 1 = i /\ SentOf(n, s, c, u)'
  <2> DEFINE n == i - 1
  <2>1. n \in Nat /\ n >= 1 /\ n + 1 = i
    BY <1>6
  <2> HIDE DEF n
  <2>2. SentOf(n, s, c, u)'
    BY <1>5, <1>6, <2>1
  <2> QED
    BY <2>1, <2>2
<1>7. Reached(s, u)'
  <2>1. ASSUME Open(s)', Due(s, u)'
        PROVE  InView(s, u)' \/ (\E i \in Nat : SentOf(i, s, "UID", u)') \/ Ahead(s, u)'
    <3>1. LinkUp(s) /\ Due(s, u) /\ sid2conn[s] \in Conn /\ Answered(sid2conn[s])'
      BY <1>1, <1>4, <2>1 DEF Open, Answered
    <3>2. CASE Open(s)
      <4>1. CASE InView(s, u)
        BY <3>1, <4>1, Written DEF QuitsLeave, Due
      <4>2. ASSUME NEW i \in Nat, SentOf(i, s, "UID", u)
            PROVE  InView(s, u)' \/ \E j \in Nat : SentOf(j, s, "UID", u)'
        <5>1. i >= 1
          BY <4>2 DEF SentOf, Sent
        <5>2. CASE i = 1
          BY <3>1, <4>2, <5>2, Written
        <5>3. CASE i > 1
          BY <1>6, <4>2, <5>3
        <5> QED
          BY <5>1, <5>2, <5>3
      <4> QED
        BY <1>4, <3>1, <3>2, <4>1, <4>2 DEF Reached
    <3>3. CASE ~Open(s)
      <4>1. Sent(1, s, "SERVER")
        BY <3>1, <3>3, Written DEF Open
      <4>2. (\E j \in Nat : j > 1 /\ SentOf(j, s, "UID", u)) \/ Ahead(s, u)
        BY <3>1, <4>1 DEF Reached
      <4>3. ASSUME NEW j \in Nat, j > 1, SentOf(j, s, "UID", u)
            PROVE  \E i \in Nat : SentOf(i, s, "UID", u)'
        BY <1>6, <4>3
      <4> QED
        BY <1>4, <4>2, <4>3
    <3> QED
      BY <3>2, <3>3
  <2>2. ASSUME NEW i \in Nat, LinkUp(s)', Due(s, u)', Sent(i, s, "SERVER")'
        PROVE  (\E j \in Nat : j > i /\ SentOf(j, s, "UID", u)') \/ Ahead(s, u)'
    <3>1. LinkUp(s) /\ Due(s, u) /\ i >= 1 /\ Sent(i + 1, s, "SERVER") /\ i + 1 \in Nat
      BY <1>4, <1>5, <2>2
    <3>2. (\E j \in Nat : j > i + 1 /\ SentOf(j, s, "UID", u)) \/ Ahead(s, u)
      BY <3>1 DEF Reached
    <3>3. ASSUME NEW j \in Nat, j > i + 1, SentOf(j, s, "UID", u)
          PROVE  \E n \in Nat : n > i /\ SentOf(n, s, "UID", u)'
      <4>0. j > 1
        BY <3>1, <3>3
      <4>1. PICK n \in Nat : n + 1 = j /\ SentOf(n, s, "UID", u)'
        BY <1>6, <3>3, <4>0
      <4> QED
        BY <3>3, <4>1
    <3> QED
      BY <1>4, <3>2, <3>3
  <2> QED
    BY <2>1, <2>2 DEF Reached
<1>8. TakenBack(s, u)'
  <2>1. ASSUME NEW i \in Nat, SentOf(i, s, "UID", u)
        PROVE  Stays(u)' \/ QuitAhead(s, u)' \/ \E j \in Nat : j + 1 > i /\ SentOf(j, s, "QUIT", u)'
    <3>1. Stays(u) \/ QuitAhead(s, u) \/ \E j \in Nat : j > i /\ SentOf(j, s, "QUIT", u)
      BY <2>1 DEF TakenBack
    <3>2. ASSUME NEW j \in Nat, j > i, SentOf(j, s, "QUIT", u)
          PROVE  \E n \in Nat : n + 1 > i /\ SentOf(n, s, "QUIT", u)'
      <4>1. i >= 1
        BY <2>1 DEF SentOf, Sent
      <4>2. PICK n \in Nat : n + 1 = j /\ SentOf(n, s, "QUIT", u)'
        BY <1>6, <3>2, <4>1
      <4> QED
        BY <3>2, <4>2
    <3> QED
      BY <1>3, <1>4, <3>1, <3>2
  <2>2. ASSUME InView(s, u)'
        PROVE  Stays(u)' \/ QuitAhead(s, u)' \/ \E i \in Nat : SentOf(i, s, "QUIT", u)'
    <3>1. CASE SentOf(1, s, "UID", u)
      BY <2>1, <3>1
    <3>2. CASE InView(s, u) /\ ~SentOf(1, s, "QUIT", u)
      <4>1. Stays(u) \/ QuitAhead(s, u) \/ \E i \in Nat : SentOf(i, s, "QUIT", u)
        BY <3>2 DEF TakenBack
      <4>2. ASSUME NEW i \in Nat, SentOf(i, s, "QUIT", u)
            PROVE  \E n \in Nat : SentOf(n, s, "QUIT", u)'
        <5>1. i > 1
          BY <3>2, <4>2 DEF SentOf, Sent
        <5>2. \E n \in Nat : SentOf(n, s, "QUIT", u)'
          BY <1>6, <4>2, <5>1
        <5> QED
          BY <5>2
      <4> QED
        BY <1>3, <1>4, <4>1, <4>2
    <3> QED
      BY <2>2, <3>1, <3>2, Written
  <2>3. ASSUME NEW i \in Nat, SentOf(i, s, "UID", u)'
        PROVE  Stays(u)' \/ QuitAhead(s, u)' \/ \E j \in Nat : j > i /\ SentOf(j, s, "QUIT", u)'
    <3>1. SentOf(i + 1, s, "UID", u) /\ i + 1 \in Nat
      BY <1>5, <2>3
    <3>2. Stays(u)' \/ QuitAhead(s, u)' \/ \E j \in Nat : j + 1 > i + 1 /\ SentOf(j, s, "QUIT", u)'
      BY <2>1, <3>1
    <3> QED
      BY <3>2
  <2> QED
    BY <2>2, <2>3 DEF TakenBack
<1>9. TellsSigned(s, u)'
  BY <1>1 DEF TellsSigned, TellsOf
<1> QED
  BY <1>7, <1>8, <1>9

-----------------------------------------------------------------------------

LEMMA InitVInv == Init => VInv
<1> SUFFICES ASSUME Init
             PROVE  VInv
  OBVIOUS
<1>0. /\ \A g \in Goroutine : job[g].pc = "idle"
      /\ \A k \in Conn : conn[k].pc = "new" /\ conn[k].sid = NoSID /\ ~conn[k].greeted /\ view[k] = {}
      /\ \A u \in LocalUID : client[u] = "off"
      /\ registered = {} /\ signed = {} /\ toServer = <<>> /\ \A s \in SID : sid2conn[s] = NoConn
  BY DEF Init, NoJob, NewJob, NewConn
<1>1. ConnsOK
  BY <1>0 DEF ConnsOK
<1>2. \A i, s, c : ~Sent(i, s, c)
  BY <1>0 DEF Sent
<1>3. ASSUME NEW u \in LocalUID
      PROVE  LifeOK(u) /\ QuitsLeave(u)
  BY <1>0, <1>2 DEF LifeOK, QuitsLeave, SentOf
<1>4. ASSUME NEW s \in SID, NEW u \in LocalUID
      PROVE  ViewOK(s, u)
  <2>1. ~LinkUp(s) /\ ~InView(s, u) /\ \A g \in Goroutine : ~TellsOf(g, s, u)
    BY <1>0, LinksAssumption DEF LinkUp, InView, TellsOf
  <2>2. Reached(s, u) /\ TakenBack(s, u) /\ TellsSigned(s, u)
    BY <1>2, <2>1 DEF Reached, TakenBack, TellsSigned, Open, SentOf
  <2> QED
    BY <2>2 DEF ViewOK
<1> QED
  BY <1>1, <1>3, <1>4 DEF VInv

LEMMA LoopUp ==
    ASSUME Step, loop' = "up"
    PROVE  loop = "up"
BY LoopMoves DEF Write, TakeClient, LoopRuns

LEMMA ViewStep ==
    ASSUME TInv, VInv, Next, loop' = "up", NEW s \in SID, NEW u \in LocalUID
    PROVE  ViewOK(s, u)'
<1>0. /\ Step /\ ConnsOK /\ LifeOK(u) /\ QuitsLeave(u) /\ ViewOK(s, u)
  BY LoopUp DEF VInv, Next
<1>1. CASE Excused(s, u)'
  BY <1>1 DEF ViewOK
<1>2. CASE ~Excused(s, u)'
  <2>1. Reached(s, u) /\ TakenBack(s, u) /\ TellsSigned(s, u)
    BY <1>0, <1>2, ExcusedStays DEF ViewOK
  <2>2. CASE Write
    BY <1>0, <2>1, <2>2, WriteKeeps DEF ViewOK
  <2>3. CASE ~Write
    <3>1. Reached(s, u)'
      BY <1>0, <1>2, <2>1, <2>3, ReachedKept
    <3>2. TakenBack(s, u)'
      BY <1>0, <1>2, <2>1, <2>3, TakenKept
    <3>3. TellsSigned(s, u)'
      BY <1>2, <2>1, TellsKept
    <3> QED
      BY <3>1, <3>2, <3>3 DEF ViewOK
  <2> QED
    BY <2>2, <2>3
<1> QED
  BY <1>1, <1>2

LEMMA NextVInv == TInv /\ VInv /\ [Next]_vars => VInv'
<1> SUFFICES ASSUME TInv, VInv, [Next]_vars
             PROVE  VInv'
  OBVIOUS
<1>1. CASE Next
  <2>1. ConnsOK'
    BY <1>1, ConnsStep DEF VInv, Next
  <2>2. ASSUME NEW u \in LocalUID
        PROVE  LifeOK(u)' /\ QuitsLeave(u)'
    BY <1>1, LifeStep, QuitsLeaveStep DEF VInv, Next
  <2>3. ASSUME loop' = "up", NEW s \in SID, NEW u \in LocalUID
        PROVE  ViewOK(s, u)'
    BY <1>1, <2>3, ViewStep
  <2> QED
    BY <2>1, <2>2, <2>3 DEF VInv
<1>2. CASE UNCHANGED vars
  <2>0. UNCHANGED <<servMap, upstream, registered, users, signed, client, sid2conn, conn, view,
                    toServer, toClient, job, loop, raced, vanished>>
    BY <1>2 DEF vars, servers, tree, people, links, history
  <2>1. ConnsOK'
    BY <2>0 DEF VInv, ConnsOK, HadConn
  <2>2. ASSUME NEW u \in LocalUID
        PROVE  LifeOK(u)' /\ QuitsLeave(u)'
    BY <2>0 DEF VInv, LifeOK, QuitsLeave, SentOf, Sent, Leaves, Quitting
  <2>3. ASSUME loop' = "up", NEW s \in SID, NEW u \in LocalUID
        PROVE  ViewOK(s, u)'
    <3>1. ViewOK(s, u)
      BY <2>0, <2>3 DEF VInv
    <3>2. /\ Leaves(u)' <=> Leaves(u)
          /\ Quitting(u)' <=> Quitting(u)
          /\ Announced(u)' <=> Announced(u)
          /\ ToldOf(s, u)' <=> ToldOf(s, u)
          /\ InView(s, u)' <=> InView(s, u)
      BY <2>0 DEF Leaves, Quitting, Announced, ToldOf, InView
    <3>3. /\ Stays(u)' <=> Stays(u)
          /\ Due(s, u)' <=> Due(s, u)
          /\ Ahead(s, u)' <=> Ahead(s, u)
          /\ QuitAhead(s, u)' <=> QuitAhead(s, u)
          /\ LinkUp(s)' <=> LinkUp(s)
          /\ Open(s)' <=> Open(s)
      BY <2>0, <3>2 DEF Stays, Listed, Due, Passed, Announces, Ahead, Greets, QuitAhead, QuitsTo, Quits,
                        LinkUp, Open, Answered
    <3>4. \A i, c : (Sent(i, s, c)' <=> Sent(i, s, c)) /\ (SentOf(i, s, c, u)' <=> SentOf(i, s, c, u))
      BY <2>0 DEF Sent, SentOf
    <3>5. Excused(s, u) => Excused(s, u)'
      BY <2>0, <3>2 DEF Excused, TellsOf, Moving, Tree!ServerIter
    <3>6. Reached(s, u) => Reached(s, u)'
      BY <3>2, <3>3, <3>4 DEF Reached
    <3>7. TakenBack(s, u) => TakenBack(s, u)'
      BY <3>2, <3>3, <3>4 DEF TakenBack
    <3>8. TellsSigned(s, u) => TellsSigned(s, u)'
      BY <2>0 DEF TellsSigned, TellsOf
    <3> QED
      BY <3>1, <3>5, <3>6, <3>7, <3>8 DEF ViewOK
  <2> QED
    BY <2>1, <2>2, <2>3 DEF VInv
<1> QED
  BY <1>1, <1>2

\* When nothing is being handled, each server that is linked, on a connection this
\* server has signed on to, has been told of exactly the registered local users,
\* whatever bursts, sign-ons and quits went on at once: but for those the burst or a
\* quit has crossed, and those who closed their connection.
THEOREM ViewsAgreeCorrect == Spec => []ViewsAgree
<1>1. TInv /\ VInv => ViewsAgree
  <2> SUFFICES ASSUME TInv, VInv, Quiet, NEW s \in registered \cap Tree!ServerIter,
                      sid2conn[s] \in Conn, Answered(sid2conn[s]),
                      NEW u \in LocalUID \ vanished, <<s, u>> \notin raced
               PROVE  u \in view[sid2conn[s]] <=> u \in signed
    BY DEF ViewsAgree
  <2>1. /\ \A g \in Goroutine : job[g].pc = "idle"
        /\ toServer = <<>> /\ toClient = <<>> /\ loop = "up"
    BY DEF Quiet
  <2>2. s \in SID /\ Open(s)
    BY TableTypes DEF TInv, Tree!ServerIter, Open, LinkUp
  <2>3. ~Announced(u) /\ ~Quitting(u) /\ ~Ahead(s, u) /\ ~QuitAhead(s, u)
        /\ \A g \in Goroutine : ~TellsOf(g, s, u)
    BY <2>1 DEF Announced, Quitting, Ahead, Greets, QuitAhead, QuitsTo, Quits, TellsOf
  <2>4. \A i, c : ~SentOf(i, s, c, u)
    BY <2>1 DEF SentOf, Sent
  <2>5. Reached(s, u) /\ TakenBack(s, u)
    <3>1. ~Excused(s, u)
      BY <2>3 DEF Excused
    <3> QED
      BY <2>1, <2>2, <3>1 DEF VInv, ViewOK
  <2>6. ASSUME u \in signed
        PROVE  u \in view[sid2conn[s]]
    <3>1. Due(s, u)
      BY <2>3, <2>6 DEF Due, Leaves, VInv, LifeOK
    <3> QED
      BY <2>2, <2>3, <2>4, <2>5, <3>1 DEF Reached, InView
  <2>7. ASSUME u \in view[sid2conn[s]]
        PROVE  u \in signed
    BY <2>3, <2>4, <2>5, <2>7 DEF TakenBack, InView, Stays, Listed
  <2> QED
    BY <2>6, <2>7
<1>2. TInv /\ VInv /\ [Next]_vars => VInv'
  BY NextVInv
<1> QED
  BY <1>1, <1>2, InitVInv, Invariance, PTL DEF Spec

-----------------------------------------------------------------------------
(* Who is split. *)

\* A connection of the server has closed here, or its peer has said goodbye.
Over(k) == conn[k].pc = "closed" \/ conn[k].bye
Ended(s) == \E k \in Conn : conn[k].sid = s /\ Over(k)

\* A server is split by its own connection only when that is over: a peer speaks of
\* other servers than its own.
CutOK ==
    /\ \A k \in Conn : conn[k].sid \notin conn[k].said
    /\ \A g \in Goroutine :
         Parts(g, job[g].from) => Ended(job[g].from)

LEMMA OverStays ==
    ASSUME TInv, ConnsOK, Step, NEW k \in Conn, conn[k].pc # "new", Over(k)
    PROVE  Over(k)'
<1> USE DEF Over
<1>0. /\ conn \in [Conn -> ConnRec] /\ sid2conn \in [SID -> Conn \cup {NoConn, NilConn}]
      /\ \A s \in SID : sid2conn[s] \in Conn => conn[sid2conn[s]].pc # "closed"
      /\ \A l \in Conn : conn[l].pc # "new" => conn[l].sid \in SID /\ sid2conn[conn[l].sid] # NoConn
  BY DEF TInv, LinksOK
<1>1. ASSUME NEW l \in Conn, Receive(l)
      PROVE  Over(k)'
  <2>0. Said(l)
    BY <1>1, Saying DEF TInv
  <2>1. PICK said \in SUBSET (SID \cup RemoteUID), bye \in BOOLEAN :
               conn' = [conn EXCEPT ![l].said = said, ![l].bye = bye]
    BY <2>0 DEF Said
  <2>2. ~conn[l].bye
    BY <2>0 DEF Said
  <2> QED
    BY <1>0, <2>1, <2>2 DEF ConnRec
<1>2. ASSUME NEW l \in Conn, PeerLeaves(l) \/ LinkClosed(l) \/ \E line \in Line : ReceiveLine(l, line)
      PROVE  Over(k)'
  BY <1>0, <1>2 DEF PeerLeaves, LinkClosed, ReceiveLine, ConnRec
<1>3. ASSUME NEW l \in Conn, ReceiveError(l)
      PROVE  Over(k)'
  <2> DEFINE entry == sid2conn[conn[l].sid]
  <2>1. CASE conn' = [conn EXCEPT ![l].bye = TRUE]
    BY <1>0, <2>1 DEF ConnRec
  <2>2. ASSUME NEW pc, conn' = [conn EXCEPT ![l].bye = TRUE, ![entry].pc = pc], entry # NilConn
        PROVE  Over(k)'
    <3>1. entry \in Conn /\ conn[entry].pc # "closed"
      BY <1>0, <1>3, <2>2 DEF ReceiveError
    <3>2. conn[k].bye => conn'[k].bye
      BY <1>0, <2>2 DEF ConnRec
    <3>3. k # entry => conn'[k].pc = conn[k].pc
      BY <1>0, <2>2 DEF ConnRec
    <3> QED
      BY <3>1, <3>2, <3>3
  <2> QED
    BY <1>3, <2>1, <2>2 DEF ReceiveError
<1>4. ASSUME NEW l \in Conn, NEW sid \in SID, Adopt(l, sid)
      PROVE  Over(k)'
  <2>1. conn[l].pc = "new" /\ \E pc : conn' = [conn EXCEPT ![l] = HandOver(sid, pc)]
    BY <1>4 DEF Adopt
  <2> QED
    BY <1>0, <2>1
<1>5. ASSUME Write
      PROVE  Over(k)'
  <2>1. UNCHANGED conn \/ \E entry : conn' = [conn EXCEPT ![entry].greeted = TRUE]
    BY <1>5 DEF Write
  <2> QED
    BY <1>0, <2>1 DEF ConnRec
<1>6. ASSUME UNCHANGED links
      PROVE  Over(k)'
  BY <1>6 DEF links
<1> QED
  BY <1>1, <1>2, <1>3, <1>4, <1>5, <1>6, LinkMoves

LEMMA EndedStays ==
    ASSUME TInv, ConnsOK, Step, NEW s \in SID, Ended(s)
    PROVE  Ended(s)'
<1>1. PICK k \in Conn : conn[k].sid = s /\ Over(k)
  BY DEF Ended
<1>2. conn[k].pc # "new"
  BY <1>1, LinksAssumption DEF ConnsOK
<1>3. conn'[k].sid = s
  BY <1>1, HadStays, LinksAssumption
<1> QED
  BY <1>1, <1>2, <1>3, OverStays DEF Ended

LEMMA SaidStep ==
    ASSUME TInv, CutOK, Step, NEW k \in Conn
    PROVE  conn'[k].sid \notin conn'[k].said
<1>0. conn \in [Conn -> ConnRec] /\ conn[k].sid \notin conn[k].said
  BY DEF TInv, LinksOK, CutOK
<1>1. ASSUME NEW l \in Conn, Receive(l)
      PROVE  conn'[k].sid \notin conn'[k].said
  <2>1. PICK said, bye : /\ conn' = [conn EXCEPT ![l].said = said, ![l].bye = bye]
                         /\ conn[l].sid \in said => conn[l].sid \in conn[l].said
    BY <1>1, Saying, Zenon DEF TInv, Said
  <2> QED
    BY <1>0, <2>1 DEF ConnRec
<1>2. ASSUME NEW l \in Conn, PeerLeaves(l) \/ LinkClosed(l) \/ \E line \in Line : ReceiveLine(l, line)
      PROVE  conn'[k].sid \notin conn'[k].said
  BY <1>0, <1>2 DEF PeerLeaves, LinkClosed, ReceiveLine, ConnRec
<1>3. ASSUME NEW l \in Conn, ReceiveError(l)
      PROVE  conn'[k].sid \notin conn'[k].said
  <2>1. CASE conn' = [conn EXCEPT ![l].bye = TRUE]
    BY <1>0, <2>1 DEF ConnRec
  <2>2. ASSUME NEW pc, NEW entry, conn' = [conn EXCEPT ![l].bye = TRUE, ![entry].pc = pc]
        PROVE  conn'[k].sid \notin conn'[k].said
    BY <1>0, <2>2 DEF ConnRec
  <2> QED
    BY <1>3, <2>1, <2>2 DEF ReceiveError
<1>4. ASSUME NEW l \in Conn, NEW sid \in SID, Adopt(l, sid)
      PROVE  conn'[k].sid \notin conn'[k].said
  <2>1. PICK pc : conn' = [conn EXCEPT ![l] = HandOver(sid, pc)]
    BY <1>4 DEF Adopt
  <2>2. HandOver(sid, pc).said = {}
    BY DEF HandOver, NewConn
  <2> QED
    BY <1>0, <2>1, <2>2
<1>5. ASSUME Write
      PROVE  conn'[k].sid \notin conn'[k].said
  <2>1. UNCHANGED conn \/ \E entry : conn' = [conn EXCEPT ![entry].greeted = TRUE]
    BY <1>5 DEF Write
  <2> QED
    BY <1>0, <2>1 DEF ConnRec
<1>6. ASSUME UNCHANGED links
      PROVE  conn'[k].sid \notin conn'[k].said
  BY <1>0, <1>6 DEF links
<1> QED
  BY <1>1, <1>2, <1>3, <1>4, <1>5, <1>6, LinkMoves

LEMMA NextCutOK == TInv /\ ConnsOK /\ CutOK /\ [Next]_vars => CutOK'
<1> SUFFICES ASSUME TInv, ConnsOK, CutOK, [Next]_vars
             PROVE  CutOK'
  OBVIOUS
<1>1. CASE UNCHANGED vars
  BY <1>1 DEF CutOK, Parts, Ended, Over, vars, links
<1>2. CASE Next
  <2>0. Step
    BY <1>2 DEF Next
  <2>1. ASSUME NEW g \in Goroutine, Parts(g, job[g].from)'
        PROVE  Ended(job[g].from)'
    <3> DEFINE s == job'[g].from
    <3>1. job'[g].pc \in {"squit", "forward", "unlink"} /\ job'[g].id = s
      BY <2>1 DEF Parts
    <3>2. s \in SID
      <4>1. JobsOK'
        BY <2>0, JobsStep DEF TInv
      <4> QED
        BY <3>1, <4>1 DEF JobsOK, JobShape
    <3>3. CASE Parts(g, s) /\ job[g].from = s
      BY <2>0, <3>2, <3>3, EndedStays DEF CutOK
    <3>4. CASE Same(g)
      BY <3>1, <3>3, <3>4 DEF Same, Parts
    <3>5. CASE Own(g)
      <4>1. OtherTurn(g)
        BY <3>1, <3>5, Turns DEF Turn, GreetTurn, BeginTurn, UserTurn, TellTurn, StartTurn, SpreadTurn,
                                 SignOnTurn, QuitTurn, LinkTurn, Ends
      <4>2. job[g].pc \in {"squit", "forward"} /\ Kept(g)
        BY <3>1, <4>1 DEF OtherTurn
      <4> QED
        BY <3>1, <3>3, <4>2 DEF Kept, Parts
    <3>6. CASE Fresh(g)
      <4>1. SquitOf(s, s)
        BY <3>1, <3>6 DEF Fresh
      <4>2. PICK k \in Conn : /\ conn[k].sid = s /\ conn'[k].sid = s
                              /\ conn'[k].bye \/ conn'[k].pc = "closed" \/ s \in conn[k].said
        BY <4>1 DEF SquitOf
      <4> QED
        BY <4>2 DEF CutOK, Ended, Over
    <3> QED
      BY <2>0, <3>4, <3>5, <3>6, Goes
  <2> QED
    BY <2>0, <2>1, SaidStep DEF CutOK
<1> QED
  BY <1>1, <1>2

\* Whoever is behind another server is linked by it.
LEMMA BehindHasUpstream ==
    ASSUME TableOK, mode = "up", NEW split \in SID, NEW s \in Gone(split), s # split
    PROVE  upstream[s] # NoSID
<1> DEFINE S == {x \in servMap : x = split \/ upstream[x] # NoSID}
<1>1. /\ split \in servMap /\ s \in servMap
      /\ (split \in S /\ \A p \in S : downstream[p] \cap servMap \subseteq S) => s \in S
  <2>1. S \in SUBSET servMap
    OBVIOUS
  <2> HIDE DEF S
  <2> QED
    BY <2>1 DEF Gone, Tree!LinkedTo
<1>2. ASSUME NEW p \in S, NEW x \in downstream[p] \cap servMap
      PROVE  x \in S
  <2>1. p \in SID /\ x \in SID /\ upstream[x] = p
    BY DEF TableOK, TreeFacts!IInv, TreeFacts!TypeOK, TreeFacts!TablesAgree
  <2> QED
    BY <2>1, LinksAssumption
<1>3. split \in S /\ \A p \in S : downstream[p] \cap servMap \subseteq S
  BY <1>1, <1>2
<1> QED
  BY <1>1, <1>3

\* A server whose connection is open is not cut off by what is said of others, or by
\* splits of other servers: only by a goodbye, a SQUIT for it, or a late split of the
\* connection it had before.
THEOREM NoneCutOffCorrect == Spec => NoneCutOff
<1> DEFINE Safe ==
      \A s \in servMap \ servMap' :
         (sid2conn[s] \in Conn /\ upstream[s] = NoSID) =>
             \/ Ended(s)
             \/ \E g \in Goroutine : ToUnlink(g) /\ job[g].id = s /\ job[g].from # s
<1>1. TInv /\ CutOK /\ Next => Safe
  <2> SUFFICES ASSUME TInv, CutOK, Next, NEW s \in servMap \ servMap', upstream[s] = NoSID
               PROVE  \/ Ended(s)
                      \/ \E g \in Goroutine : ToUnlink(g) /\ job[g].id = s /\ job[g].from # s
    OBVIOUS
  <2>1. PICK g \in Goroutine : Unlink(g)
    <3>1. ASSUME NEW k \in Conn, NEW sid \in SID, Adopt(k, sid)
          PROVE  servMap \subseteq servMap'
      BY <3>1 DEF Adopt, GetServer, tree, Tree!GetServer
    <3>2. ASSUME NEW g \in Goroutine, ConnRegLine(g) \/ SignOn(g) \/ Sid(g)
          PROVE  servMap \subseteq servMap'
      BY <3>2, AddJobs DEF TInv
    <3>3. ASSUME UNCHANGED servers
          PROVE  servMap \subseteq servMap'
      BY <3>3 DEF servers, tree
    <3> QED
      BY <3>1, <3>2, <3>3, TableMoves DEF Next
  <2> DEFINE split == job[g].id
  <2>2. ToUnlink(g) /\ mode = "up" /\ job[g].pc \in {"unlink", "forward"}
    BY <2>1 DEF Unlink, ToUnlink
  <2>3. split \in SID
    BY <2>2 DEF TInv, JobsOK, JobShape
  <2>4. s \in Gone(split)
    <3>1. Gone(split) = {} => servMap' = servMap
      BY <2>1 DEF Unlink, tree
    <3>2. Gone(split) # {} => servMap' = servMap \ Gone(split)
      BY <2>1 DEF Unlink, Tree!Unlink, Gone
    <3> QED
      BY <3>1, <3>2
  <2>5. s = split
    BY <2>2, <2>3, <2>4, BehindHasUpstream DEF TInv
  <2>6. job[g].from = s => Ended(s)
    BY <2>2, <2>5 DEF CutOK, Parts
  <2> QED
    BY <2>2, <2>5, <2>6
<1>2. Init => CutOK
  BY DEF Init, NoJob, NewJob, NewConn, CutOK, Parts
<1>3. TInv /\ VInv /\ CutOK /\ [Next]_vars => CutOK'
  BY NextCutOK DEF VInv
<1>4. TInv /\ CutOK /\ [Next]_vars => [Safe]_vars
  BY <1>1
<1>5. [Safe]_vars =>
        [\A s \in servMap \ servMap' :
           (sid2conn[s] \in Conn /\ upstream[s] = NoSID) =>
               \/ \E k \in Conn : conn[k].sid = s /\ (conn[k].pc = "closed" \/ conn[k].bye)
               \/ \E g \in Goroutine : ToUnlink(g) /\ job[g].id = s /\ job[g].from # s]_vars
  BY DEF Ended, Over
<1> HIDE DEF Safe
<1> QED
  BY <1>2, <1>3, <1>4, <1>5, InitVInv, NextVInv, Invariance, PTL DEF Spec, NoneCutOff

=============================================================================
