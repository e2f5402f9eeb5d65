---------------------------- MODULE ServerLinks -----------------------------
(***************************************************************************)
(* The server side of the daemon: the loop that owns the connections to    *)
(* other servers (manageServers, src/ircd/ircd.go) and the hook goroutines *)
(* it starts (src/ircd/registration.go, general.go), over the server table *)
(* of ServerTree and the ids in the user table; of the client side, what   *)
(* other servers are told of: sign-on, QUIT, a closed connection.          *)
(*                                                                         *)
(* Every message is handled in a goroutine of its own, cut where it takes  *)
(* a lock or sends.  A message of a peer is sent and received in one step, *)
(* also after the connection has gone: it was in fromServer then.  A peer  *)
(* speaks only of what it has introduced on the connection, and begins     *)
(* when it has been answered.  No channels exist, no hook makes one.       *)
(***************************************************************************)
EXTENDS Integers, Sequences

CONSTANTS
    SID, NoSID,       \* see ServerTree
    Me,               \* Config.SID
    Conn,             \* connections from other servers, each used once
    NoConn, NilConn,  \* no entry in sid2conn; an entry that is nil
    PeerIds,          \* for each connection, the ids its PASS may give
    Line,             \* the registration commands: PASS, CAPAB, SERVER
    Refused,          \* those of them whose arguments may be refused
    Speaks,           \* for each connection, the commands its peer may send then
    Leaver,           \* the connections whose peers may go away
    LocalUID, RemoteUID, NoUID,
    ServerOf, NickOf, \* of the remote users
    Goroutine,        \* hook goroutines that can be at work at the same time
    SendQ             \* the capacity of ToServer and of ToClient

UID == LocalUID \cup RemoteUID

ASSUME LinksAssumption ==
    /\ NoSID \notin SID /\ Me \notin SID \cup {NoSID}
    /\ NoConn \notin Conn /\ NilConn \notin Conn /\ NoConn # NilConn
    /\ PeerIds \in [Conn -> SUBSET SID]
    /\ LocalUID \cap RemoteUID = {} /\ NoUID \notin UID
    /\ ServerOf \in [RemoteUID -> SID] /\ DOMAIN NickOf = RemoteUID
    /\ Line \ {"SERVER"} # {} /\ SendQ \in Nat \ {0}

VARIABLES
    servMap, upstream, listed, downstream, mode,  \* the server table
    fields,      \* for each server, what its registration has set
    registered,  \* the servers of type RegisteredAsServer
    users,       \* the ids in userMap
    signed,      \* those of type RegisteredAsUser
    client,      \* local users: "off", "on" or "gone"
    sid2conn,    \* manageServers: server -> connection
    conn,        \* the connections and what their peers have said
    view,        \* the local users each peer has been told of
    toServer, toClient,   \* the buffered channels
    job,         \* the hook goroutines
    loop,        \* "up"; manageServers "hung" or "crashed"; "down": a panic of manageClients
    quitters,    \* remote users who have quit; their ids are not used again
    late,        \* history: users added after their server had been unlinked
    back,        \* history: users to be deleted whose server, or id, is back
    ghosts,      \* history: servers signed on after their connection closed
    raced,       \* history: server and user for whom messages have crossed, see Crossed
    vanished     \* history: local users who closed their connection

tree == <<servMap, upstream, listed, downstream, mode>>
servers == <<tree, fields, registered>>
people == <<users, signed>>
links == <<sid2conn, conn, view>>
history == <<late, back, ghosts, raced, vanished>>
vars == <<servers, people, client, links, toServer, toClient, job, loop, quitters, history>>

Tree == INSTANCE ServerTree

NewJob(pc, from, link, id) ==
    [pc |-> pc, from |-> from, link |-> link, id |-> id, todo |-> {}, rec |-> "live"]
NoJob == NewJob("idle", NoSID, NoSID, NoUID)
NewConn == [pc |-> "new", sid |-> NoSID, lines |-> {}, greeted |-> FALSE, bye |-> FALSE, said |-> {}]
Msg(to, cmd, id) == [to |-> to, cmd |-> cmd, id |-> id]
ClientMsg(cmd, to, ids) == [cmd |-> cmd, to |-> to, ids |-> ids]  \* ids: who is deleted

Init ==
    /\ Tree!Init
    /\ fields = [s \in SID |-> {}] /\ registered = {}
    /\ users = {} /\ signed = {}
    /\ client = [u \in LocalUID |-> "off"]
    /\ sid2conn = [s \in SID |-> NoConn]
    /\ conn = [k \in Conn |-> NewConn]
    /\ view = [k \in Conn |-> {}]
    /\ toServer = <<>> /\ toClient = <<>>
    /\ job = [g \in Goroutine |-> NoJob]
    /\ loop = "up" /\ quitters = {}
    /\ late = {} /\ back = {} /\ ghosts = {} /\ raced = {} /\ vanished = {}

Running == loop \notin {"crashed", "down"} /\ mode # "crashed"
LoopRuns == Running /\ loop = "up"

-----------------------------------------------------------------------------
(* Helpers: the tables, the channels, the dispatch. *)

\* GetServer(id, true).
GetServer(s) ==
    IF s \in servMap THEN UNCHANGED <<tree, fields>>
    ELSE Tree!GetServer(s) /\ fields' = [fields EXCEPT ![s] = {}]

\* Delete, of several users.
Delete(uids) == users' = users \ uids /\ signed' = signed \ uids

\* A send on ToServer, on ToClient; and one that does not wait for room.
PostAlways(m) == toServer' = Append(toServer, m)
Post(m) == Len(toServer) < SendQ /\ toServer' = Append(toServer, m)
PostClient(m) == Len(toClient) < SendQ /\ toClient' = Append(toClient, m)

Become(g, j) == job' = [job EXCEPT ![g] = j]
Go(j) == \E g \in Goroutine : job[g].pc = "idle" /\ Become(g, j)

\* DispatchServer: the hooks of a registered server, or none.
Dispatch(s, j) == mode = "up" /\ (IF s \in registered THEN Go(j) ELSE UNCHANGED job)

Known(k) == conn[k].said \cup {conn[k].sid}

-----------------------------------------------------------------------------
(* manageIncoming and manageServers. *)

\* A connection that has sent PASS, CAPAB and SERVER gets the id that PASS
\* gives and is handed over; the commands follow in fromServer.
HandOver(sid, pc) == [NewConn EXCEPT !.pc = pc, !.sid = sid, !.lines = Line]

\* A new server: its entry replaces one that is there.  A connection that has
\* gone before SubscribeClose is "dead": no one is told.
Adopt(k, sid) ==
    /\ LoopRuns /\ mode = "up" /\ conn[k].pc = "new" /\ sid \in PeerIds[k]
    /\ sid2conn' = [sid2conn EXCEPT ![sid] = k]
    /\ GetServer(sid)
    /\ \E pc \in {"on"} \cup (IF k \in Leaver THEN {"dead"} ELSE {}) :
         conn' = [conn EXCEPT ![k] = HandOver(sid, pc)]
    /\ UNCHANGED <<registered, people, client, view, toServer, toClient, job, loop, quitters>>

PeerLeaves(k) ==
    /\ Running /\ k \in Leaver /\ conn[k].pc = "on"
    /\ conn' = [conn EXCEPT ![k].pc = "lost"]
    /\ UNCHANGED <<servers, people, client, sid2conn, view, toServer, toClient, job, loop, quitters>>

\* A server that is linked directly is split, if it is registered: SQUIT has
\* no hook for others.
SplitLocal(s) ==
    IF Tree!IsLocal(s) THEN Dispatch(s, NewJob("squit", s, NoSID, s)) ELSE UNCHANGED job

\* Faulty variant of LinkClosed: no SQUIT is made up.
LinkClosedQuietly(k) ==
    LET s == conn[k].sid IN
    /\ LoopRuns /\ conn[k].pc = "lost"
    /\ conn' = [conn EXCEPT ![k].pc = "closed"]
    /\ sid2conn' = [sid2conn EXCEPT ![s] = NilConn]
    /\ UNCHANGED <<servers, people, client, view, toServer, toClient, job, loop, quitters>>

\* serverClosing: the entry of the server becomes nil, whatever connection it
\* holds.
LinkClosed(k) ==
    LET s == conn[k].sid IN
    /\ LoopRuns /\ conn[k].pc = "lost"
    /\ conn' = [conn EXCEPT ![k].pc = "closed"]
    /\ sid2conn' = [sid2conn EXCEPT ![s] = NilConn]
    /\ SplitLocal(s)
    /\ UNCHANGED <<servers, people, client, view, toServer, toClient, loop, quitters>>

\* One of the registration commands: a hook if the server is not registered.
ReceiveLine(k, line) ==
    LET s == conn[k].sid IN
    /\ LoopRuns /\ mode = "up" /\ line \in conn[k].lines
    /\ conn' = [conn EXCEPT ![k].lines = @ \ {line}]
    /\ IF s \in servMap \ registered
       THEN Go(NewJob("line", s, NoSID, line)) ELSE UNCHANGED job
    /\ UNCHANGED <<servers, people, client, sid2conn, view, toServer, toClient, loop, quitters>>

\* ERROR: the connection of the entry is closed, and tells no one, unless its
\* reading goroutine is already sending on serverClosing and stays "lost"; the
\* server is split as in LinkClosed.
ReceiveError(k) ==
    LET s == conn[k].sid
        entry == sid2conn[s]
    IN
    /\ LoopRuns /\ k \in Leaver /\ conn[k].pc # "new" /\ ~conn[k].bye
    /\ IF entry = NilConn
       THEN /\ conn' = [conn EXCEPT ![k].bye = TRUE]
            /\ UNCHANGED <<sid2conn, job>>
       ELSE /\ \E pc \in {"closed"} \cup ({conn[entry].pc} \cap {"lost"}) :
                 conn' = [conn EXCEPT ![k].bye = TRUE, ![entry].pc = pc]
            /\ sid2conn' = [sid2conn EXCEPT ![s] = NilConn]
            /\ SplitLocal(s)
    /\ UNCHANGED <<servers, people, client, view, toServer, toClient, loop, quitters>>

\* What else a peer may send, and the goroutine that handles it.
MaySay(k, cmd) == LoopRuns /\ cmd \in Speaks[k] /\ conn[k].greeted /\ ~conn[k].bye

Says(k, said, bye, pc, link, id) ==
    /\ conn' = [conn EXCEPT ![k].said = said, ![k].bye = bye]
    /\ Dispatch(conn[k].sid, NewJob(pc, conn[k].sid, link, id))
    /\ UNCHANGED <<servers, people, client, sid2conn, view, toServer, toClient, loop>>

ReceiveSid(k, link, sid) ==
    /\ MaySay(k, "SID") /\ link \in Known(k) \cap SID /\ sid \notin Known(k)
    /\ Says(k, conn[k].said \cup {sid}, FALSE, "sid", link, sid)
    /\ UNCHANGED quitters

ReceiveUid(k, uid) ==
    /\ MaySay(k, "UID") /\ ServerOf[uid] \in Known(k) /\ uid \notin Known(k) \cup quitters
    /\ Says(k, conn[k].said \cup {uid}, FALSE, "uid", NoSID, uid)
    /\ UNCHANGED quitters

ReceiveQuit(k, uid) ==
    /\ MaySay(k, "QUIT") /\ uid \in conn[k].said \ quitters
    /\ Says(k, conn[k].said \ {uid}, FALSE, "quit", NoSID, uid)
    /\ quitters' = quitters \cup {uid}

\* Faulty variant of ReceiveSQuit: the link itself is split.
ReceiveSQuitOfLink(k, sid) ==
    /\ MaySay(k, "SQUIT") /\ sid \in conn[k].said
    /\ Says(k, conn[k].said \ ({sid} \cup {u \in RemoteUID : ServerOf[u] = sid}), FALSE,
            "squit", NoSID, conn[k].sid)
    /\ UNCHANGED quitters

\* A server behind the peer goes.
ReceiveSQuit(k, sid) ==
    /\ MaySay(k, "SQUIT") /\ sid \in conn[k].said
    /\ Says(k, conn[k].said \ ({sid} \cup {u \in RemoteUID : ServerOf[u] = sid}), FALSE,
            "squit", NoSID, sid)
    /\ UNCHANGED quitters

\* "If the target server is the receiving server or the local link this came
\* from, this is an announcement that the link is being closed."
ReceiveFarewell(k, target) ==
    /\ MaySay(k, "SQUIT") /\ target \in {Me, conn[k].sid}
    /\ Says(k, conn[k].said, TRUE, "squit", NoSID, conn[k].sid)
    /\ UNCHANGED quitters

\* For this server, or for one that is neither of the two.
ReceivePing(k, dest) ==
    /\ MaySay(k, "PING") /\ dest # conn[k].sid
    /\ Says(k, conn[k].said, FALSE, "ping", NoSID, dest)
    /\ UNCHANGED quitters

\* Where a message goes; faulty variant: a missing entry is taken for a nil one.
EntryUnchecked(to) ==
    IF to = NoSID THEN NoConn ELSE IF sid2conn[to] \in Conn THEN sid2conn[to] ELSE NilConn
Entry(to) == IF to = NoSID THEN NoConn ELSE sid2conn[to]

\* A message from ToServer.  A server without entry is passed over, a nil
\* entry is written to; a write that fails closes the connection, and the
\* loop waits for itself.
Write ==
    LET m == Head(toServer)
        entry == Entry(m.to)
    IN
    /\ LoopRuns /\ toServer # <<>>
    /\ toServer' = Tail(toServer)
    /\ \/ entry = NoConn /\ UNCHANGED <<conn, view, loop>>
       \/ entry = NilConn /\ loop' = "crashed" /\ UNCHANGED <<conn, view>>
       \/ /\ entry \in Conn
          /\ conn' = IF m.cmd = "SERVER" THEN [conn EXCEPT ![entry].greeted = TRUE] ELSE conn
          /\ view' = [view EXCEPT ![entry] = IF m.cmd = "UID" THEN @ \cup ({m.id} \cap LocalUID)
                                             ELSE IF m.cmd = "QUIT" THEN @ \ {m.id} ELSE @]
          /\ UNCHANGED loop
       \/ entry \in Conn /\ conn[entry].pc \in {"lost", "dead"} /\ loop' = "hung" /\ UNCHANGED <<conn, view>>
    /\ UNCHANGED <<servers, people, client, sid2conn, toClient, job, quitters>>

-----------------------------------------------------------------------------
(* The registration of a server: ConnReg, sendServerSignon, Burst. *)

\* The record of the sender, made if it is not there, takes the argument of the
\* command, or an ERROR goes back.  The code finds the record and sets it in two
\* steps.  One is enough: if the record leaves the table in between, only who
\* holds it sees what is set, as when it is set first and leaves then.
ConnRegLine(g) ==
    LET s == job[g].from
        line == job[g].id
    IN
    /\ Running /\ mode = "up" /\ job[g].pc = "line"
    /\ \/ /\ IF s \in servMap
             THEN UNCHANGED tree /\ fields' = [fields EXCEPT ![s] = @ \cup {line}]
             ELSE Tree!GetServer(s) /\ fields' = [fields EXCEPT ![s] = {line}]
          /\ Become(g, [job[g] EXCEPT !.pc = "info"])
       \/ line \in Refused /\ GetServer(s) /\ Become(g, [job[g] EXCEPT !.pc = "refuse"])
    /\ UNCHANGED <<registered, people, client, links, toServer, toClient, loop, quitters>>

\* Faulty variant of Complete: SERVER is taken for the last command.
CompleteByServer(g) == job[g].id = "SERVER" /\ fields[job[g].from] = Line

\* Info: all of the record is there.
Complete(g) ==
    \/ job[g].rec = "live" /\ fields[job[g].from] = Line
    \/ job[g].rec = "full"

\* Every link, the new one too, is then sent a SID, with the id of the link
\* itself as the new server's.
ConnRegInfo(g) ==
    /\ Running /\ job[g].pc = "info"
    /\ IF Complete(g)
       THEN mode = "up" /\ Become(g, [job[g] EXCEPT !.pc = "introduce", !.todo = Tree!ServerIter])
       ELSE Become(g, NoJob)
    /\ UNCHANGED <<servers, people, client, links, toServer, toClient, loop, quitters>>

\* SetType; it does not matter to a record that has left the table.
SignOn(g) ==
    /\ Running /\ job[g].pc = "introduce" /\ job[g].todo = {}
    /\ registered' = IF job[g].rec = "live" THEN registered \cup {job[g].from} ELSE registered
    /\ Become(g, [job[g] EXCEPT !.pc = "greet"])
    /\ UNCHANGED <<tree, fields, people, client, links, toServer, toClient, loop, quitters>>

\* PASS, CAPAB and SERVER, here one message.
Greet(g) ==
    /\ Running /\ job[g].pc = "greet"
    /\ Post(Msg(job[g].from, "SERVER", Me))
    /\ Become(g, [job[g] EXCEPT !.pc = "users"])
    /\ UNCHANGED <<servers, people, client, links, toClient, loop, quitters>>

\* Burst: the ids at one time,
BurstBegin(g) ==
    /\ Running /\ job[g].pc = "users"
    /\ Become(g, IF users = {} THEN NoJob ELSE [job[g] EXCEPT !.pc = "burst", !.todo = users])
    /\ UNCHANGED <<servers, people, client, links, toServer, toClient, loop, quitters>>

\* then each user in turn.  GetUser makes a record for one who has been deleted.
BurstUser(g, u) ==
    LET rest == [job[g] EXCEPT !.todo = @ \ {u}] IN
    /\ Running /\ job[g].pc = "burst" /\ u \in job[g].todo
    /\ users' = users \cup {u}
    /\ Become(g, IF u \in signed THEN [rest EXCEPT !.pc = "tell", !.id = u]
                 ELSE IF rest.todo = {} THEN NoJob ELSE rest)
    /\ UNCHANGED <<servers, signed, client, links, toServer, toClient, loop, quitters>>

BurstTell(g) ==
    /\ Running /\ job[g].pc = "tell"
    /\ Post(Msg(job[g].from, "UID", job[g].id))
    /\ Become(g, IF job[g].todo = {} THEN NoJob ELSE [job[g] EXCEPT !.pc = "burst"])
    /\ UNCHANGED <<servers, people, client, links, toClient, loop, quitters>>

-----------------------------------------------------------------------------
(* Sid, Uid, SPing, SQuit, Quit. *)

\* The server takes the name of its message; a message for the other links is
\* made and never sent.
Sid(g) ==
    LET sid == job[g].id IN
    /\ Running /\ mode = "up" /\ job[g].pc = "sid"
    /\ IF Tree!CanLink(job[g].link, sid)
       THEN /\ Tree!LinkServer(job[g].link, sid)
            /\ fields' = [fields EXCEPT ![sid] = Line \cap {"SERVER"}]
            /\ Become(g, NoJob)
       ELSE Become(g, [job[g] EXCEPT !.pc = "refuse"]) /\ UNCHANGED <<tree, fields>>
    /\ UNCHANGED <<registered, people, client, links, toServer, toClient, loop, quitters>>

\* Faulty variant of Import: who is known under the id is removed.
ImportReplaces(g) ==
    LET uid == job[g].id IN
    /\ Running /\ job[g].pc = "uid"
    /\ IF uid \notin users
       THEN users' = users \cup {uid} /\ signed' = signed \cup {uid} /\ Become(g, NoJob)
       ELSE Delete({uid}) /\ Become(g, [job[g] EXCEPT !.pc = "refuse"])
    /\ UNCHANGED <<servers, client, links, toServer, toClient, loop, quitters>>

\* Uid: Import knows the user from now on, unless id or nick are taken.  As in
\* Sid nothing goes to the other links.
Import(g) ==
    LET uid == job[g].id
        nickTaken == \E v \in signed \cap RemoteUID : NickOf[v] = NickOf[uid]
    IN
    /\ Running /\ job[g].pc = "uid"
    /\ IF uid \notin users /\ ~nickTaken
       THEN users' = users \cup {uid} /\ signed' = signed \cup {uid} /\ Become(g, NoJob)
       ELSE Become(g, [job[g] EXCEPT !.pc = "refuse"]) /\ UNCHANGED people
    /\ UNCHANGED <<servers, client, links, toServer, toClient, loop, quitters>>

\* The answer to a command, a SID or a UID that is not accepted.
Refuse(g) ==
    /\ Running /\ job[g].pc = "refuse"
    /\ Post(Msg(job[g].from, IF job[g].id \in Line THEN "ERROR" ELSE "SQUIT", NoUID))
    /\ Become(g, NoJob)
    /\ UNCHANGED <<servers, people, client, links, toClient, loop, quitters>>

\* PING: answered, or sent on by the link its destination is behind.
SPing(g) ==
    /\ Running /\ job[g].pc = "ping"
    /\ IF job[g].id = Me
       THEN Post(Msg(job[g].from, "PONG", NoUID)) /\ Become(g, NoJob)
       ELSE /\ mode = "up" /\ UNCHANGED toServer
            /\ LET out == Tree!RouteFor({job[g].id}, NoSID) IN
               Become(g, IF out = {} THEN NoJob ELSE [job[g] EXCEPT !.pc = "route", !.todo = out])
    /\ UNCHANGED <<servers, people, client, links, toClient, loop, quitters>>

\* SQUIT, QUIT and a sign-on begin with the links of the moment (ServerIter).
Begun == [squit |-> "forward", quit |-> "quitting", user |-> "announce"]

Begin(g) ==
    /\ Running /\ mode = "up" /\ job[g].pc \in DOMAIN Begun
    /\ Become(g, [job[g] EXCEPT !.pc = Begun[@], !.todo = Tree!ServerIter \ {job[g].from}])
    /\ UNCHANGED <<servers, people, client, links, toServer, toClient, loop, quitters>>

\* Then they are told one after the other.
Command == [introduce |-> "SID", forward |-> "SQUIT", quitting |-> "QUIT",
            announce |-> "UID", route |-> "PING"]

Spread(g) ==
    /\ Running /\ job[g].pc \in DOMAIN Command
    /\ \E s \in job[g].todo :
         /\ Post(Msg(s, Command[job[g].pc], IF job[g].pc \in {"quitting", "announce"}
                                            THEN job[g].id ELSE NoUID))
         /\ Become(g, IF job[g].pc = "route" THEN NoJob ELSE [job[g] EXCEPT !.todo = @ \ {s}])
    /\ UNCHANGED <<servers, people, client, links, toClient, loop, quitters>>

\* SQuit: a direct link would be told with an ERROR, which names no one.
SplitError(g) ==
    /\ Running /\ job[g].pc = "forward" /\ job[g].todo = {} /\ Tree!IsLocal(job[g].id)
    /\ Post(Msg(NoSID, "ERROR", NoUID))
    /\ Become(g, [job[g] EXCEPT !.pc = "unlink"])
    /\ UNCHANGED <<servers, people, client, links, toClient, loop, quitters>>

ToUnlink(g) ==
    \/ job[g].pc = "unlink"
    \/ job[g].pc = "forward" /\ job[g].todo = {} /\ ~Tree!IsLocal(job[g].id)

\* Faulty variant of Gone: the servers behind the split one stay.
GoneAlone(split) == {split} \cap servMap
Gone(split) == Tree!LinkedTo(split)

HoldsRecord(g) == job[g].pc \in {"info", "introduce"}

\* A record that leaves the table keeps its contents for those who hold it.
Unlink(g) ==
    LET gone == Gone(job[g].id)
        left(s) == IF fields[s] = Line THEN "full" ELSE "part"
    IN
    /\ Running /\ mode = "up" /\ ToUnlink(g)
    /\ IF gone = {} THEN UNCHANGED tree ELSE Tree!Unlink(job[g].id)
    /\ fields' = [s \in SID |-> IF s \in gone THEN {} ELSE fields[s]]
    /\ registered' = registered \ gone
    /\ job' = [h \in Goroutine |->
         IF h = g THEN IF gone = {} THEN NoJob ELSE [job[g] EXCEPT !.pc = "split", !.todo = gone]
         ELSE IF HoldsRecord(h) /\ job[h].rec = "live" /\ job[h].from \in gone
         THEN [job[h] EXCEPT !.rec = left(job[h].from)]
         ELSE job[h]]
    /\ UNCHANGED <<people, client, links, toServer, toClient, loop, quitters>>

\* Their users, at a later time; they are on no channels.
UserSplit(g) ==
    LET peers == {u \in users \cap RemoteUID : ServerOf[u] \in job[g].todo} IN
    /\ Running /\ job[g].pc = "split"
    /\ Become(g, IF peers = {} THEN NoJob ELSE [job[g] EXCEPT !.pc = "delete", !.todo = peers])
    /\ UNCHANGED <<servers, people, client, links, toServer, toClient, loop, quitters>>

\* The client loop is asked to delete them (INT_DELUSER), to close the connection
\* of one who has quit, or to welcome one (four numerics, here one message).
AskClientLoop(g) ==
    /\ Running
    /\ \/ job[g].pc = "delete" /\ PostClient(ClientMsg("DELUSER", NoUID, job[g].todo))
       \/ /\ job[g].pc = "quitting" /\ job[g].todo = {}
          /\ PostClient(ClientMsg("ERROR", job[g].id, {job[g].id}))
       \/ job[g].pc = "welcome" /\ PostClient(ClientMsg("WELCOME", job[g].id, {}))
    /\ Become(g, NoJob)
    /\ UNCHANGED <<servers, people, client, links, toServer, loop, quitters>>

-----------------------------------------------------------------------------
(* The client side. *)

\* Who holds the record of a local user keeps it, when it is deleted.
DropRecord(uids) ==
    job' = [g \in Goroutine |->
              IF job[g].pc \in {"user", "announce"} /\ job[g].id \in uids
              THEN [job[g] EXCEPT !.rec = "full"] ELSE job[g]]

\* manageClients: a message for a local user who is gone is written to the nil
\* entry.  Who is told goodbye is deleted, a local user disconnected too.  That a
\* write may fail is left to Sessions.
TakeClient ==
    LET m == Head(toClient) IN
    /\ Running /\ toClient # <<>>
    /\ toClient' = Tail(toClient)
    /\ IF m.to \in LocalUID /\ client[m.to] = "gone"
       THEN loop' = "down" /\ UNCHANGED <<people, client, job>>
       ELSE /\ Delete(m.ids) /\ DropRecord(m.ids)
            /\ client' = [u \in LocalUID |-> IF u \in m.ids THEN "gone" ELSE client[u]]
            /\ UNCHANGED loop
    /\ UNCHANGED <<servers, links, toServer, quitters>>

ClientConnects(u) ==
    /\ Running /\ client[u] = "off"
    /\ client' = [client EXCEPT ![u] = "on"]
    /\ users' = users \cup {u}
    /\ UNCHANGED <<servers, signed, links, toServer, toClient, job, loop, quitters>>

\* ConnReg, when nick and user name are there: each of the lines that came before
\* the sign-on has a goroutine, and any of them may find it so.
ClientSignsOn(u) ==
    /\ Running /\ client[u] = "on" /\ u \in users \ signed
    /\ Go(NewJob("user", NoSID, NoSID, u))
    /\ UNCHANGED <<servers, people, client, links, toServer, toClient, loop, quitters>>

\* The links have been told of the user; SetType.
UserSignOn(g) ==
    /\ Running /\ job[g].pc = "announce" /\ job[g].todo = {}
    /\ signed' = IF job[g].rec = "live" THEN signed \cup {job[g].id} ELSE signed
    /\ Become(g, [job[g] EXCEPT !.pc = "welcome"])
    /\ UNCHANGED <<servers, users, client, links, toServer, toClient, loop, quitters>>

\* Faulty variant of ClientQuits: no link is told.
ClientQuitsQuietly(u) ==
    /\ Running /\ client[u] = "on" /\ u \in signed
    /\ Go(NewJob("quitting", NoSID, NoSID, u))
    /\ UNCHANGED <<servers, people, client, links, toServer, toClient, loop, quitters>>

\* Every QUIT of a user who is registered starts a goroutine, the second one too.
ClientQuits(u) ==
    /\ Running /\ client[u] = "on" /\ u \in signed
    /\ Go(NewJob("quit", NoSID, NoSID, u))
    /\ UNCHANGED <<servers, people, client, links, toServer, toClient, loop, quitters>>

\* clientClosing: the record goes, and no link is told.
ClientClosed(u) ==
    /\ Running /\ client[u] = "on"
    /\ client' = [client EXCEPT ![u] = "gone"]
    /\ Delete({u}) /\ DropRecord({u})
    /\ UNCHANGED <<servers, links, toServer, toClient, loop, quitters>>

-----------------------------------------------------------------------------
(* What happens, and what of it is remembered. *)

Step ==
    \/ \E k \in Conn :
         \/ \E sid \in SID : Adopt(k, sid) \/ ReceiveSQuit(k, sid)
         \/ PeerLeaves(k) \/ LinkClosed(k) \/ ReceiveError(k)
         \/ \E line \in Line : ReceiveLine(k, line)
         \/ \E link, sid \in SID : ReceiveSid(k, link, sid)
         \/ \E uid \in RemoteUID : ReceiveUid(k, uid) \/ ReceiveQuit(k, uid)
         \/ \E target \in SID \cup {Me} : ReceiveFarewell(k, target) \/ ReceivePing(k, target)
    \/ Write
    \/ \E g \in Goroutine :
         \/ ConnRegLine(g) \/ ConnRegInfo(g) \/ SignOn(g) \/ Greet(g)
         \/ BurstBegin(g) \/ (\E u \in UID : BurstUser(g, u)) \/ BurstTell(g)
         \/ Sid(g) \/ Import(g) \/ Refuse(g) \/ SPing(g) \/ Begin(g) \/ Spread(g)
         \/ SplitError(g) \/ Unlink(g) \/ UserSplit(g) \/ AskClientLoop(g) \/ UserSignOn(g)
    \/ TakeClient
    \/ \E u \in LocalUID : ClientConnects(u) \/ ClientSignsOn(u) \/ ClientQuits(u) \/ ClientClosed(u)

\* A remote user is about to be deleted with its server.
Doomed(u) ==
    \/ \E g \in Goroutine :
         \/ (job[g].pc = "split" /\ ServerOf[u] \in job[g].todo)
         \/ (job[g].pc = "delete" /\ u \in job[g].todo)
    \/ \E i \in 1..Len(toClient) : u \in toClient[i].ids

\* A local user is being announced; or quits, and is not deleted yet.
Announced(u) == \E g \in Goroutine : job[g].pc = "announce" /\ job[g].id = u
Quitting(u) ==
    \/ \E g \in Goroutine : job[g].pc = "quitting" /\ job[g].id = u
    \/ \E i \in 1..Len(toClient) : u \in toClient[i].ids
Moving(u) == Announced(u) \/ Quitting(u)

\* The burst of g reads u, or is about to tell of it.
Bursting(g, u) ==
    \/ job[g].pc = "burst" /\ u \in job[g].todo \ job'[g].todo
    \/ job[g].pc = "tell" /\ job[g].id = u

\* s has been told of u on the connection it has, or is about to be.
ToldOf(s, u) ==
    \/ sid2conn[s] \in Conn /\ u \in view[sid2conn[s]]
    \/ \E i \in 1..Len(toServer) : toServer[i] = Msg(s, "UID", u)

\* A burst to s has crossed the sign-on or the quit of u; or the quit the sign-on; or
\* s was out of the table when u quit, but had kept its connection.
Crossed(s, u) ==
    \/ (\E g \in Goroutine : job[g].from = s /\ Bursting(g, u)) /\ (Moving(u) \/ Moving(u)')
    \/ Announced(u) /\ (Quitting(u) \/ client[u] = "gone")
    \/ Quitting(u) /\ s \notin Tree!ServerIter /\ ToldOf(s, u)

Remember ==
    /\ late' = {u \in users' \cap RemoteUID :
                  ServerOf[u] \notin servMap' /\ (u \in late \/ u \notin users)}
    /\ back' = {u \in users' \cap RemoteUID :
                  u \in back \/ (Doomed(u) /\ (u \notin users \/ ServerOf[u] \in servMap' \ servMap))}
    /\ ghosts' = {s \in registered' :
                  sid2conn'[s] = NilConn /\ (s \in ghosts \/ s \notin registered)}
    /\ vanished' = vanished \cup {u \in LocalUID :
                       client'[u] = "gone" /\ client[u] # "gone" /\ toClient' = toClient}
    /\ raced' = {p \in SID \X (LocalUID \ vanished') : p \in raced \/ Crossed(p[1], p[2])}

Next == Step /\ Remember

Spec == Init /\ [][Next]_vars

-----------------------------------------------------------------------------

JobPC == {"idle", "line", "info", "introduce", "greet", "users", "burst", "tell", "sid", "uid",
          "refuse", "ping", "route", "squit", "forward", "unlink", "split", "delete",
          "quit", "quitting", "user", "announce", "welcome"}
Job == [pc : JobPC, from : SID \cup {NoSID}, id : SID \cup UID \cup Line \cup {Me, NoUID},
        link : SID \cup {NoSID}, todo : SUBSET (SID \cup UID), rec : {"live", "full", "part"}]

\* Types; and an entry of sid2conn that is a connection is the server's own,
\* and its socket has not been closed here.
TypeOK ==
    /\ Tree!TypeOK
    /\ fields \in [SID -> SUBSET Line] /\ registered \subseteq servMap
    /\ users \subseteq UID /\ signed \subseteq users
    /\ client \in [LocalUID -> {"off", "on", "gone"}]
    /\ sid2conn \in [SID -> Conn \cup {NoConn, NilConn}]
    /\ conn \in [Conn -> [pc : {"new", "on", "lost", "dead", "closed"}, sid : SID \cup {NoSID},
                          lines : SUBSET Line, greeted : BOOLEAN, bye : BOOLEAN,
                          said : SUBSET (SID \cup RemoteUID)]]
    /\ \A s \in SID : sid2conn[s] \in Conn =>
         conn[sid2conn[s]].sid = s /\ conn[sid2conn[s]].pc \in {"on", "lost", "dead"}
    /\ view \in [Conn -> SUBSET LocalUID]
    /\ Len(toServer) \in 0..SendQ /\ Len(toClient) \in 0..SendQ
    /\ job \in [Goroutine -> Job]
    /\ loop \in {"up", "hung", "crashed", "down"}
    /\ late \cup back \subseteq users \cap RemoteUID /\ quitters \subseteq RemoteUID
    /\ ghosts \subseteq servMap
    /\ raced \subseteq SID \X LocalUID /\ vanished \subseteq LocalUID

\* Nothing is being handled, and no connection is about to be found lost.
Quiet ==
    /\ Running /\ mode = "up" /\ loop = "up"
    /\ \A g \in Goroutine : job[g].pc = "idle"
    /\ toServer = <<>> /\ toClient = <<>>
    /\ \A k \in Conn : conn[k].pc # "lost" /\ conn[k].lines = {}

\* "Removes the target server and all servers and users behind it from the
\* network" (doc/IRC-TS6.txt): a remote user's server is known, or the user is
\* about to be deleted.  The one exception is a UID that is handled after its
\* server was unlinked.
UsersHaveServers ==
    \A u \in (users \cap RemoteUID) \ late : ServerOf[u] \in servMap \/ Doomed(u)

\* No remote user is deleted but for a QUIT or the loss of its server; or a
\* loss before the server, or the user, came back, since the deletion of the
\* users is only queued.
NoUserLost ==
    [][\A u \in (users \ users') \cap RemoteUID :
         u \in quitters \/ ServerOf[u] \notin servMap \/ u \in back]_vars

\* A registered server without upstream entry, whose connection has closed, does
\* not stay in the table, unless it closed while its registration was being handled.
\* (One whose upstream entry is left from an earlier place is taken to be behind
\* another: it gets no SQUIT and stays.)
ClosedIsSplit ==
    Quiet => \A s \in registered :
        (upstream[s] = NoSID /\ sid2conn[s] = NilConn) => s \in ghosts

\* When all of PASS, CAPAB and SERVER have been handled and accepted, the server
\* is registered: the goroutine that comes last finds the record complete.
RegisteredWhenComplete ==
    Quiet => \A s \in servMap : fields[s] = Line => s \in registered

\* The server loop stops only after a connection of a server is gone: messages for
\* a server that never was, or is not connected, are passed over.
LoopEndsOnLoss ==
    loop \in {"hung", "crashed"} => \E k \in Conn : conn[k].pc \in {"lost", "dead", "closed"}

\* A server whose connection is open does not leave the table but by a goodbye, by
\* a SQUIT of another server for it, or since an earlier connection of it has
\* closed: the SQUIT for that one, which waits in its goroutine, takes the server
\* that has come back.
NoneCutOff ==
    [][\A s \in servMap \ servMap' :
         (sid2conn[s] \in Conn /\ upstream[s] = NoSID) =>
             \/ \E k \in Conn : conn[k].sid = s /\ (conn[k].pc = "closed" \/ conn[k].bye)
             \/ \E g \in Goroutine : ToUnlink(g) /\ job[g].id = s /\ job[g].from # s]_vars

\* A connection that this server has signed on to, or the only one its server has had.
Answered(k) == conn[k].greeted \/ \A l \in Conn \ {k} : conn[l].sid # conn[k].sid

\* Every link has been told of exactly the registered local users, in whatever
\* order bursts, sign-ons and quits are handled; but for users whose sign-on or
\* quit the burst has crossed, or who closed their connection.  A connection that
\* takes the place of another while its server is registered is never signed on to.
ViewsAgree ==
    Quiet => \A s \in registered \cap Tree!ServerIter :
        (sid2conn[s] \in Conn /\ Answered(sid2conn[s])) =>
            \A u \in LocalUID \ vanished : <<s, u>> \notin raced =>
                (u \in view[sid2conn[s]] <=> u \in signed)

=============================================================================
