------------------------------ MODULE Sessions ------------------------------
(***************************************************************************)
(* The life of client connections: the reading goroutine of a Conn         *)
(* (src/ircd/conn.go), the goroutine that collects its registration and    *)
(* hands it over (manageIncoming, src/ircd/ircd.go), the loop that owns    *)
(* the registered connections (manageClients) and the hook goroutines it   *)
(* starts (ConnReg, Quit, Ping, Privmsg), over the user table of           *)
(* UserRegistry.                                                           *)
(*                                                                         *)
(* A client stands for its connection and for its user id.  The four       *)
(* messages of sendSignon are one; no servers are linked, so nothing goes  *)
(* to ToServer; no channels exist, no hook makes one.  A connection that   *)
(* sends PASS, CAPAB and SERVER is a server's (see ServerLinks); a client  *)
(* may send some of them.                                                  *)
(***************************************************************************)
EXTENDS Integers, Sequences

CONSTANTS
    Client,       \* connections, and the ids NextUserID gave them
    Goroutine,    \* hook goroutines that can be at work at the same time
    Nick, UserName, Ptr, NoUser, NoID, NoPtr,   \* see UserRegistry
    NoArg,        \* a command without its argument
    Leaver,       \* the clients whose peer may go away
    Script,       \* for each client, the lines it may send first, second, ...
    SendQ         \* the capacity of ToClient and of fromClient

\* The lines of a script; the argument of NICK is a nick, that of PRIVMSG and NOTICE
\* the names between its commas, and so on, if it is there.
Name == Nick \cup Client
OfServers == {"PASS", "CAPAB", "SERVER"}
Line == [cmd : {"NICK"}, arg : {NoArg} \cup Nick]
            \cup [cmd : {"USER"}, arg : {NoArg, NoUser} \cup UserName]
            \cup [cmd : {"PRIVMSG", "NOTICE"}, arg : {NoArg} \cup Seq(Name)]
            \cup [cmd : OfServers \cup {"PING", "QUIT", "ERROR", ""}, arg : {NoArg} \cup UserName]

ASSUME SessionsAssumption ==
    /\ SendQ \in Nat \ {0}
    /\ Script \in [Client -> Seq(SUBSET Line)]
    /\ \A c \in Client : \E cmd \in OfServers : \A i \in DOMAIN Script[c] :
         \A line \in Script[c][i] : line.cmd # cmd
    /\ Nick \subseteq Seq(Nat) /\ <<42>> \notin Nick     \* GetUser's * is no nick
    /\ NoUser \notin UserName /\ NoID \notin Client /\ NoPtr \notin Ptr

VARIABLES
    heap, userMap, userNicks, held, setting, staleRename,  \* the user table
    conn,        \* what a Conn knows: subscribers, onclose, open; and its peer
    reader,      \* readthread: what it does, and the message it delivers
    lines,       \* lines read from each client
    manage,      \* the goroutine of manageIncoming that looks after it
    uid2conn,    \* manageClients: "none", "conn", or "nil" for a nil entry
    fromClient, toClient,   \* the buffered channels
    handled,     \* history: the lines manageClients has taken, in order
    job,         \* the hook goroutines
    mode         \* "up"; "adopting": manageClients between two calls; "hung": it is
                 \* blocked; "crashed": a panic

registry == <<heap, userMap, userNicks, held, setting, staleRename>>
vars == <<registry, conn, reader, lines, manage, uid2conn, fromClient, toClient,
          handled, job, mode>>

Users == INSTANCE UserRegistry WITH LocalID <- Client, RemoteID <- {}

Running == mode # "crashed"
NoMsg == [from |-> NoID, cmd |-> "", arg |-> NoArg, n |-> 0, via |-> "none"]
Idle == [pc |-> "idle", msg |-> NoMsg, local |-> <<>>]
\* Faulty variant of LoopRuns: the hook is called without go, so that the loop
\* waits for its end (hooks.go:90).
LoopRunsInline == mode = "up" /\ \A g \in Goroutine : job[g] = Idle

LoopRuns == mode = "up"
ReaderAt(pc) == [pc |-> pc, msg |-> NoMsg]

Init ==
    /\ Users!Init
    /\ conn = [c \in Client |-> [subscribers |-> {}, onclose |-> {},
                                 open |-> TRUE, peer |-> TRUE]]
    /\ reader = [c \in Client |-> ReaderAt("off")]
    /\ lines = [c \in Client |-> 0]
    /\ manage = [c \in Client |-> [pc |-> "off", queued |-> <<>>]]
    /\ uid2conn = [c \in Client |-> "none"]
    /\ fromClient = <<>> /\ toClient = <<>>
    /\ handled = [c \in Client |-> <<>>]
    /\ job = [g \in Goroutine |-> Idle]
    /\ mode = "up"

-----------------------------------------------------------------------------
(* The reading goroutine and the peer. *)

PeerLeaves(c) ==
    /\ Running /\ c \in Leaver /\ reader[c].pc # "off" /\ conn[c].peer
    /\ conn' = [conn EXCEPT ![c].peer = FALSE]
    /\ UNCHANGED <<registry, reader, lines, manage, uid2conn, fromClient, toClient,
                   handled, job, mode>>

\* readthread: a message goes to the channel that is subscribed at that time,
\* or nowhere.  Lines in the buffer of the reader are read after a Close, too.
\* ParseMessage has no message for a blank line, and SenderID is assigned before
\* that is checked.
ReadLine(c) ==
    /\ Running /\ reader[c].pc = "reading"
    /\ lines[c] < Len(Script[c])
    /\ lines' = [lines EXCEPT ![c] = @ + 1]
    /\ \E line \in Script[c][lines[c] + 1] :
         IF line.cmd = "" THEN mode' = "crashed" /\ UNCHANGED reader
         ELSE /\ UNCHANGED mode
              /\ reader' = [reader EXCEPT ![c] =
                   IF conn[c].subscribers = {} THEN @
                   ELSE [pc |-> CHOOSE ch \in conn[c].subscribers : TRUE,
                         msg |-> [from |-> c, cmd |-> line.cmd, arg |-> line.arg,
                                  n |-> lines[c] + 1, via |-> "reader"]]]
    /\ UNCHANGED <<registry, conn, manage, uid2conn, fromClient, toClient, handled, job>>

\* The read fails: Close tells the channel in onclose, then closes the socket.
ReadError(c) ==
    /\ Running /\ reader[c].pc = "reading" /\ ~(conn[c].open /\ conn[c].peer)
    /\ IF conn[c].onclose = {}
       THEN /\ reader' = [reader EXCEPT ![c] = ReaderAt("done")]
            /\ conn' = [conn EXCEPT ![c].open = FALSE]
       ELSE /\ reader' = [reader EXCEPT ![c] = ReaderAt(CHOOSE ch \in conn[c].onclose : TRUE)]
            /\ UNCHANGED conn
    /\ UNCHANGED <<registry, lines, manage, uid2conn, fromClient, toClient, handled, job, mode>>

\* A message for manageClients, once there is room.
SendDirect(c) ==
    /\ Running /\ reader[c].pc = "fromClient" /\ Len(fromClient) < SendQ
    /\ fromClient' = Append(fromClient, reader[c].msg)
    /\ reader' = [reader EXCEPT ![c] = ReaderAt("reading")]
    /\ UNCHANGED <<registry, conn, lines, manage, uid2conn, toClient, handled, job, mode>>

-----------------------------------------------------------------------------
(* manageIncoming: one goroutine per connection until it registers. *)

\* Subscribe starts the reading goroutine; SubscribeClose is the next call.
Accept(c) ==
    /\ Running /\ manage[c].pc = "off"
    /\ manage' = [manage EXCEPT ![c].pc = "subscribing"]
    /\ reader' = [reader EXCEPT ![c].pc = "reading"]
    /\ conn' = [conn EXCEPT ![c].subscribers = {"inc"}]
    /\ UNCHANGED <<registry, lines, uid2conn, fromClient, toClient, handled, job, mode>>

SubscribeStop(c) ==
    /\ Running /\ manage[c].pc = "subscribing"
    /\ manage' = [manage EXCEPT ![c].pc = "collecting"]
    /\ conn' = [conn EXCEPT ![c].onclose = {"stop"}]
    /\ UNCHANGED <<registry, reader, lines, uid2conn, fromClient, toClient, handled, job, mode>>

Seen(queued) == {queued[i].cmd : i \in DOMAIN queued}

\* <-inc: the message is queued; NICK and USER together end the collection.
Collect(c) ==
    LET queued == Append(manage[c].queued, [reader[c].msg EXCEPT !.via = "queue"]) IN
    /\ Running /\ manage[c].pc = "collecting" /\ reader[c].pc = "inc"
    /\ reader' = [reader EXCEPT ![c] = ReaderAt("reading")]
    /\ manage' = [manage EXCEPT ![c] =
                    [pc |-> IF {"NICK", "USER"} \subseteq Seen(queued)
                            THEN "leaving" ELSE "collecting",
                     queued |-> queued]]
    /\ UNCHANGED <<registry, conn, lines, uid2conn, fromClient, toClient, handled, job, mode>>

\* <-stop: the connection closed before it was registered.
Stop(c) ==
    /\ Running /\ manage[c].pc = "collecting" /\ reader[c].pc = "stop"
    /\ reader' = [reader EXCEPT ![c] = ReaderAt("done")]
    /\ conn' = [conn EXCEPT ![c].open = FALSE]
    /\ manage' = [manage EXCEPT ![c] = [pc |-> "done", queued |-> <<>>]]
    /\ UNCHANGED <<registry, lines, uid2conn, fromClient, toClient, handled, job, mode>>

\* Unsubscribe and UnsubscribeClose; a reader already sending stays where it is.
Leave(c) ==
    /\ Running /\ manage[c].pc = "leaving"
    /\ manage' = [manage EXCEPT ![c].pc = "offering"]
    /\ conn' = [conn EXCEPT ![c].subscribers = {}, ![c].onclose = {}]
    /\ UNCHANGED <<registry, reader, lines, uid2conn, fromClient, toClient, handled, job, mode>>

\* Faulty variant of Flush: the message sent stays in the queue.
FlushAgain(c) ==
    /\ Running /\ manage[c].pc = "flushing" /\ Len(fromClient) < SendQ
    /\ fromClient' = Append(fromClient, Head(manage[c].queued))
    /\ UNCHANGED <<registry, conn, reader, lines, manage, uid2conn, toClient, handled, job, mode>>

\* The queued messages follow the connection, one at a time.
Flush(c) ==
    LET rest == Tail(manage[c].queued) IN
    /\ Running /\ manage[c].pc = "flushing" /\ Len(fromClient) < SendQ
    /\ fromClient' = Append(fromClient, Head(manage[c].queued))
    /\ manage' = [manage EXCEPT ![c] = [pc |-> IF rest = <<>> THEN "done" ELSE "flushing",
                                        queued |-> rest]]
    /\ UNCHANGED <<registry, conn, reader, lines, uid2conn, toClient, handled, job, mode>>

-----------------------------------------------------------------------------
(* manageClients: one case of the select at a time. *)

\* GetUser for its effect on the table, and Delete, which may find nothing.
GetUser(c) == Users!TouchUser(c)
Delete(c) == IF Users!Live(c) THEN Users!Delete(c) ELSE UNCHANGED registry

\* Faulty variant of Release: the entry of the connection stays.
ReleaseKeepsEntry(c) ==
    /\ UNCHANGED uid2conn
    /\ conn' = [conn EXCEPT ![c].onclose = @ \ {"clientClosing"}, ![c].open = FALSE]

\* The loop lets a connection go: UnsubscribeClose, then Close, whose other
\* listener has left by then.
Release(c) ==
    /\ uid2conn' = [uid2conn EXCEPT ![c] = "nil"]
    /\ conn' = [conn EXCEPT ![c].onclose = @ \ {"clientClosing"}, ![c].open = FALSE]

\* <-newClient, the other half of the rendezvous with the goroutine above:
\* Subscribe ...
Adopt(c) ==
    /\ LoopRuns /\ manage[c].pc = "offering"
    /\ manage' = [manage EXCEPT ![c].pc = "flushing"]
    /\ uid2conn' = [uid2conn EXCEPT ![c] = "conn"]
    /\ GetUser(c)
    /\ conn' = [conn EXCEPT ![c].subscribers = @ \cup {"fromClient"}]
    /\ mode' = "adopting"
    /\ UNCHANGED <<reader, lines, fromClient, toClient, handled, job>>

\* ... and SubscribeClose.  A read that fails between the two tells nobody.
AdoptClose(c) ==
    /\ mode = "adopting"
    /\ uid2conn[c] = "conn" /\ "clientClosing" \notin conn[c].onclose
    /\ conn' = [conn EXCEPT ![c].onclose = @ \cup {"clientClosing"}]
    /\ mode' = "up"
    /\ UNCHANGED <<registry, reader, lines, manage, uid2conn, fromClient, toClient,
                   handled, job>>

\* The hooks registered for a command, by the sender's type.
HasHook(cmd, registered) ==
    cmd \in (IF registered THEN {"QUIT", "PING", "PRIVMSG", "NOTICE"}
             ELSE {"NICK", "USER"} \cup OfServers)

\* <-fromClient: the record of the sender, made when there is none, decides
\* which hook runs, as a goroutine of its own.
Dispatch ==
    LET m == Head(fromClient)
        registered == Users!Live(m.from) /\ heap[userMap[m.from]].registered
    IN
    /\ LoopRuns /\ fromClient # <<>> /\ m.cmd # "ERROR"
    /\ fromClient' = Tail(fromClient)
    /\ handled' = [handled EXCEPT ![m.from] = Append(@, [n |-> m.n, via |-> m.via])]
    /\ GetUser(m.from)
    /\ IF HasHook(m.cmd, registered)
       THEN \E g \in Goroutine :
              /\ job[g] = Idle
              /\ job' = [job EXCEPT ![g] = [pc |-> IF registered THEN "run" ELSE "get",
                                                msg |-> m, local |-> <<>>]]
       ELSE UNCHANGED job
    /\ UNCHANGED <<conn, reader, lines, manage, uid2conn, toClient, mode>>

\* An ERROR from a client ends its connection.
RemoteError ==
    LET m == Head(fromClient) IN
    /\ LoopRuns /\ fromClient # <<>> /\ m.cmd = "ERROR"
    /\ fromClient' = Tail(fromClient)
    /\ handled' = [handled EXCEPT ![m.from] = Append(@, [n |-> m.n, via |-> m.via])]
    /\ Delete(m.from)
    /\ IF uid2conn[m.from] = "conn" THEN Release(m.from) ELSE UNCHANGED <<uid2conn, conn>>
    /\ UNCHANGED <<reader, lines, manage, toClient, job, mode>>

\* WriteMessage can fail once either side has gone, and does after our Close.
WriteMayFail(c) == ~(conn[c].open /\ conn[c].peer)

Writable(c) == uid2conn[c] = "conn" /\ conn[c].open
Reaches(m, i) == i \in DOMAIN m.to /\ \A k \in 1..i - 1 : Writable(m.to[k])

\* <-ToClient: the message is written to one client after the other; an ERROR,
\* which is for one, is the last.  No message is for a client without an entry:
\* it had one before its first hook ran.
Write ==
    LET m == Head(toClient) IN
    /\ LoopRuns /\ toClient # <<>>
    /\ \A i \in DOMAIN m.to : Writable(m.to[i])
    /\ toClient' = Tail(toClient)
    /\ IF m.kind = "ERROR"
       THEN Delete(m.to[1]) /\ Release(m.to[1])
       ELSE UNCHANGED <<registry, uid2conn, conn>>
    /\ UNCHANGED <<reader, lines, manage, fromClient, handled, job, mode>>

\* WriteMessage fails and calls Close, which offers the id to clientClosing:
\* the goroutine that would receive it is this one.
WriteFails ==
    LET m == Head(toClient) IN
    /\ LoopRuns /\ toClient # <<>>
    /\ \E i \in DOMAIN m.to :
         Reaches(m, i) /\ uid2conn[m.to[i]] = "conn" /\ WriteMayFail(m.to[i])
    /\ mode' = "hung"
    /\ UNCHANGED <<registry, conn, reader, lines, manage, uid2conn, fromClient, toClient,
                   handled, job>>

\* The entry of a closed connection is nil but present: WriteMessage on nil.
WriteToNil ==
    LET m == Head(toClient) IN
    /\ LoopRuns /\ toClient # <<>>
    /\ \E i \in DOMAIN m.to : Reaches(m, i) /\ uid2conn[m.to[i]] = "nil"
    /\ mode' = "crashed"
    /\ UNCHANGED <<registry, conn, reader, lines, manage, uid2conn, fromClient, toClient,
                   handled, job>>

\* Faulty variant of Closing: the entry of the connection stays.
ClosingKeepsEntry(c) ==
    /\ LoopRuns /\ reader[c].pc = "clientClosing"
    /\ Delete(c)
    /\ reader' = [reader EXCEPT ![c] = ReaderAt("done")]
    /\ conn' = [conn EXCEPT ![c].open = FALSE]
    /\ UNCHANGED <<uid2conn, lines, manage, fromClient, toClient, handled, job, mode>>

\* <-clientClosing, offered by the reading goroutine.
Closing(c) ==
    /\ LoopRuns /\ reader[c].pc = "clientClosing"
    /\ Delete(c)
    /\ uid2conn' = [uid2conn EXCEPT ![c] = "nil"]
    /\ reader' = [reader EXCEPT ![c] = ReaderAt("done")]
    /\ conn' = [conn EXCEPT ![c].open = FALSE]
    /\ UNCHANGED <<lines, manage, fromClient, toClient, handled, job, mode>>

-----------------------------------------------------------------------------
(* Hook goroutines. *)

At(g, pc, cmds) == Running /\ job[g].pc = pc /\ job[g].msg.cmd \in cmds
Goto(g, pc) == job' = [job EXCEPT ![g].pc = pc]
\* Faulty variant of Post: the channel takes any number of messages.
PostAlways(to, kind) == toClient' = Append(toClient, [to |-> to, kind |-> kind])
Post(to, kind) ==
    /\ Len(toClient) < SendQ
    /\ toClient' = Append(toClient, [to |-> to, kind |-> kind])
Rest == UNCHANGED <<conn, reader, lines, manage, uid2conn, fromClient, handled>>

\* Handlers index msg.Args without looking at its length; nothing checks the
\* constraints they were registered with.
ArgsPanic(g) ==
    /\ Running /\ job[g].pc \in {"run", "set"}
    /\ job[g].msg.arg = NoArg /\ job[g].msg.cmd # "QUIT"
    /\ mode' = "crashed"
    /\ UNCHANGED <<registry, toClient, job>> /\ Rest

HasArg(g) == job[g].msg.arg # NoArg

\* ConnReg: GetUser first.  What only servers have is not set for a user, and
\* Info follows all the same.
ConnRegGet(g) ==
    /\ At(g, "get", {"NICK", "USER"} \cup OfServers)
    /\ Users!BeginConnReg(g, job[g].msg.from)
    /\ Goto(g, IF job[g].msg.cmd \in OfServers THEN "info" ELSE "set")
    /\ UNCHANGED <<toClient, mode>> /\ Rest

ConnRegNick(g) ==
    /\ At(g, "set", {"NICK"}) /\ HasArg(g)
    /\ LET result == Users!SetNickResult(held[g], job[g].msg.arg) IN
       \/ /\ result = "renamed" /\ Users!SetNick(g, job[g].msg.arg)
          /\ Goto(g, "info")
       \/ /\ result = "ok" /\ UNCHANGED registry /\ Goto(g, "info")
       \/ /\ result \notin {"renamed", "ok"} /\ UNCHANGED registry /\ Goto(g, "error")
    /\ UNCHANGED <<toClient, mode>> /\ Rest

\* SetUser: the checks, then, under the lock, the assignment.  NoUser stands for
\* a user name, or a real name, that is refused.
ConnRegUser(g) ==
    /\ At(g, "set", {"USER"}) /\ HasArg(g)
    /\ IF heap[held[g]].user = NoUser /\ job[g].msg.arg # NoUser
       THEN Users!CheckUser(g, job[g].msg.arg) /\ Goto(g, "store")
       ELSE UNCHANGED registry /\ Goto(g, "error")
    /\ UNCHANGED <<toClient, mode>> /\ Rest

ConnRegStore(g) ==
    /\ At(g, "store", {"USER"})
    /\ Users!StoreUser(g)
    /\ Goto(g, "info")
    /\ UNCHANGED <<toClient, mode>> /\ Rest

\* Faulty variant of ConnRegInfo: USER is taken for the last line.
ConnRegInfoOfUser(g) ==
    LET u == heap[held[g]] IN
    /\ Running /\ job[g].pc = "info"
    /\ IF u.nick # Users!Star /\ u.user # NoUser /\ job[g].msg.cmd = "USER"
       THEN /\ Goto(g, "signon")
            /\ IF u.registered THEN UNCHANGED registry ELSE Users!SetType(g)
       ELSE /\ job' = [job EXCEPT ![g] = Idle]
            /\ Users!EndConnReg(g)
    /\ UNCHANGED <<toClient, mode>> /\ Rest

\* Info: a user with a nick and a user name is signed on.
ConnRegInfo(g) ==
    LET u == heap[held[g]] IN
    /\ Running /\ job[g].pc = "info"
    /\ IF u.nick # Users!Star /\ u.user # NoUser
       THEN /\ Goto(g, "signon")
            /\ IF u.registered THEN UNCHANGED registry ELSE Users!SetType(g)
       ELSE /\ job' = [job EXCEPT ![g] = Idle]
            /\ Users!EndConnReg(g)
    /\ UNCHANGED <<toClient, mode>> /\ Rest

\* Faulty variant of Answer: QUIT is not answered.
AnswerQuitQuietly(g) ==
    /\ At(g, "run", {"QUIT"})
    /\ job' = [job EXCEPT ![g] = Idle]
    /\ UNCHANGED <<registry, toClient, mode>> /\ Rest

\* The last message of ConnReg: the welcome or the numeric of the error.
ConnRegReply(g) ==
    /\ Running
    /\ \/ job[g].pc = "signon" /\ Post(<<job[g].msg.from>>, "WELCOME")
       \/ job[g].pc = "error" /\ Post(<<job[g].msg.from>>, "NUMERIC")
    /\ job' = [job EXCEPT ![g] = Idle]
    /\ Users!EndConnReg(g)
    /\ UNCHANGED mode /\ Rest

\* GetID: a user can be named by id as well as by nick.
Recipient(name) ==
    IF name \in Client THEN (IF Users!Live(name) THEN name ELSE NoID)
    ELSE Users!GetID(name)

\* Quit (no channel to leave) and Ping send one message each.
Answer(g) ==
    LET m == job[g].msg IN
    /\ \/ At(g, "run", {"QUIT"}) /\ Post(<<m.from>>, "ERROR")
       \/ At(g, "run", {"PING"}) /\ HasArg(g) /\ Post(<<m.from>>, "PONG")
    /\ job' = [job EXCEPT ![g] = Idle]
    /\ UNCHANGED <<registry, mode>> /\ Rest

\* Privmsg looks the names up one after the other; PRIVMSG answers for each that
\* leads to no one, NOTICE for none.
PrivmsgName(g) ==
    LET m == job[g].msg
        id == Recipient(Head(m.arg))
    IN
    /\ At(g, "run", {"PRIVMSG", "NOTICE"}) /\ HasArg(g) /\ m.arg # <<>>
    /\ IF id = NoID /\ m.cmd = "PRIVMSG" THEN Post(<<m.from>>, "NUMERIC") ELSE UNCHANGED toClient
    /\ job' = [job EXCEPT ![g] =
                 [pc |-> "run", msg |-> [m EXCEPT !.arg = Tail(@)],
                  local |-> IF id = NoID THEN job[g].local ELSE Append(job[g].local, id)]]
    /\ UNCHANGED <<registry, mode>> /\ Rest

\* One message goes to all who have been found.
PrivmsgSend(g) ==
    /\ At(g, "run", {"PRIVMSG", "NOTICE"}) /\ HasArg(g) /\ job[g].msg.arg = <<>>
    /\ IF job[g].local # <<>> THEN Post(job[g].local, "PRIVMSG") ELSE UNCHANGED toClient
    /\ job' = [job EXCEPT ![g] = Idle]
    /\ UNCHANGED <<registry, mode>> /\ Rest

-----------------------------------------------------------------------------

Loop == Dispatch \/ RemoteError \/ Write \/ WriteFails \/ WriteToNil

Hook(g) ==
    \/ ArgsPanic(g) \/ Answer(g) \/ PrivmsgName(g) \/ PrivmsgSend(g)
    \/ ConnRegGet(g) \/ ConnRegNick(g) \/ ConnRegUser(g) \/ ConnRegStore(g)
    \/ ConnRegInfo(g) \/ ConnRegReply(g)

Incoming(c) == Accept(c) \/ SubscribeStop(c) \/ Collect(c) \/ Stop(c) \/ Leave(c) \/ Flush(c)

Next ==
    \/ \E c \in Client :
         PeerLeaves(c) \/ ReadLine(c) \/ ReadError(c) \/ SendDirect(c)
           \/ Incoming(c) \/ Adopt(c) \/ AdoptClose(c) \/ Closing(c)
    \/ Loop
    \/ \E g \in Goroutine : Hook(g)

Spec == Init /\ [][Next]_vars

\* The scheduler runs every goroutine that can run, the select of manageClients
\* takes every case that stays ready, and a read on a dead socket returns.
\* Nothing makes a client send its next line, or leave.
Fairness ==
    /\ WF_vars(Loop)
    /\ WF_vars(Write \/ WriteFails \/ WriteToNil) /\ WF_vars(Dispatch \/ RemoteError)
    /\ \A c \in Client :
         /\ WF_vars(Incoming(c)) /\ WF_vars(Adopt(c)) /\ WF_vars(AdoptClose(c))
         /\ WF_vars(Closing(c))
         /\ WF_vars(SendDirect(c)) /\ WF_vars(ReadError(c))
    /\ \A g \in Goroutine : WF_vars(Hook(g))

LiveSpec == Spec /\ Fairness

-----------------------------------------------------------------------------

TypeOK ==
    /\ Users!TypeOK
    /\ \A c \in Client :
         /\ conn[c].subscribers \subseteq {"inc", "fromClient"}
         /\ conn[c].onclose \subseteq {"stop", "clientClosing"}
         /\ reader[c].pc \in {"off", "reading", "inc", "fromClient", "stop",
                              "clientClosing", "done"}
         /\ manage[c].pc \in {"off", "subscribing", "collecting", "leaving", "offering",
                              "flushing", "done"}
    /\ uid2conn \in [Client -> {"none", "conn", "nil"}]
    /\ Len(fromClient) <= SendQ /\ Len(toClient) <= SendQ
    /\ \A i \in DOMAIN toClient : toClient[i].to \in Seq(Client) \ {<<>>}
    /\ mode \in {"up", "adopting", "hung", "crashed"}

\* Whichever of the hooks for NICK, USER and the rest is the last to set
\* something finds the user complete and signs it on (registration.go:88-112):
\* no one is left with a nick and a user name, and not registered, unless a
\* hook that holds the record is about to look.
SignedOnWhenComplete ==
    \A c \in Client :
        LET u == heap[userMap[c]] IN
        (Users!Live(c) /\ u.nick # Users!Star /\ u.user # NoUser /\ ~u.registered) =>
            \E g \in Goroutine : held[g] = userMap[c] /\ job[g].pc = "info"

\* manageClients gives up record and connection together (ircd.go:134-141,
\* 249-252, 269-270): who can be written to has a record, whose nick replaces
\* the * of a message.
ConnectedHasRecord == \A c \in Client : uid2conn[c] = "conn" => Users!Live(c)

\* The lines of a client on their way, each with the place it has got to.
Way(c) ==
    {[stage |-> 1, i |-> i, n |-> handled[c][i].n, via |-> handled[c][i].via] : i \in DOMAIN handled[c]}
    \cup {[stage |-> 2, i |-> i, n |-> fromClient[i].n, via |-> fromClient[i].via] :
             i \in {j \in DOMAIN fromClient : fromClient[j].from = c}}
    \cup {[stage |-> 3, i |-> i, n |-> manage[c].queued[i].n, via |-> manage[c].queued[i].via] :
             i \in DOMAIN manage[c].queued}
    \cup {[stage |-> 4, i |-> 1, n |-> m.n, via |-> m.via] :
             m \in IF reader[c].pc \in {"inc", "fromClient"} THEN {reader[c].msg} ELSE {}}
Ahead(x, y) == x.stage < y.stage \/ (x.stage = y.stage /\ x.i < y.i)

\* The hand-over (ircd.go:319-327) may lose lines and may let a later line
\* overtake the queued ones, but no line is handled twice, and neither path
\* changes the order of the lines that take it.
EachLineOnce ==
    \A c \in Client : \A x, y \in Way(c) : Ahead(x, y) =>
        x.n # y.n /\ (x.via = y.via => x.n < y.n)

\* manageClients blocks on itself (conn.go:72) only when a peer has gone away:
\* a connection the daemon closed of its own accord is never written to.
HangsOnlyOnLoss == mode = "hung" => \E c \in Client : ~conn[c].peer

\* A hook goroutine comes to its end as long as manageClients runs, with
\* ToClient full or not.
Stopped == mode \in {"hung", "crashed"}
HooksEnd == \A g \in Goroutine : job[g] # Idle ~> (job[g] = Idle \/ Stopped)

\* QUIT closes the connection (ircd.go:247-253), unless manageClients stops.
QuitCloses ==
    \A c \in Client :
        (\E g \in Goroutine : job[g].pc = "run" /\ job[g].msg.cmd = "QUIT" /\ job[g].msg.from = c)
        ~> (~conn[c].open \/ Stopped)

=============================================================================
