--------------------------- MODULE SessionsProofs ---------------------------
(***************************************************************************)
(* Proofs about Sessions, for any clients, lines, hook goroutines and      *)
(* addresses, and channels of any size.                                    *)
(***************************************************************************)
EXTENDS Sessions, TLAPS

\* UserRegistry again, with what is proved of it.
Facts == INSTANCE UserRegistryProofs WITH LocalID <- Client, RemoteID <- {}

Command == {"NICK", "USER", "PRIVMSG", "NOTICE", "PING", "QUIT", "ERROR"} \cup OfServers
Msg == [from : Client, cmd : Command, arg : Nick \cup Seq(Name) \cup UserName \cup {NoUser, NoArg},
        n : Nat, via : {"reader", "queue"}]

\* The argument is one that the command may have.
Fits(m) ==
    /\ m.cmd = "NICK" => m.arg \in Nick \cup {NoArg}
    /\ m.cmd = "USER" => m.arg \in UserName \cup {NoUser, NoArg}
    /\ m.cmd \in {"PRIVMSG", "NOTICE"} => m.arg \in Seq(Name) \cup {NoArg}

ConnRec == [subscribers : SUBSET {"inc", "fromClient"}, onclose : SUBSET {"stop", "clientClosing"},
            open : BOOLEAN, peer : BOOLEAN]
ReaderRec == [pc : {"off", "reading", "inc", "fromClient", "stop", "clientClosing", "done"},
              msg : Msg \cup {NoMsg}]
ManageRec == [pc : {"off", "subscribing", "collecting", "leaving", "offering", "flushing", "done"},
              queued : Seq(Msg)]
JobRec == [pc : {"idle", "get", "set", "store", "info", "signon", "error", "run"},
           msg : Msg \cup {NoMsg}, local : Seq(Client)]
Reply == [to : Seq(Client) \ {<<>>}, kind : {"ERROR", "PONG", "PRIVMSG", "NUMERIC", "WELCOME"}]

Sending(c) == reader[c].pc \in {"inc", "fromClient"}

ReadersOK ==
    /\ conn \in [Client -> ConnRec] /\ reader \in [Client -> ReaderRec]
    /\ lines \in [Client -> Nat] /\ uid2conn \in [Client -> {"none", "conn", "nil"}]
    /\ \A c \in Client : Sending(c) =>
         reader[c].msg \in Msg /\ Fits(reader[c].msg) /\ reader[c].msg.from = c

\* The queue of a registration holds the messages of its client.
QueuedOK(c) ==
    /\ \A i \in 1..Len(manage[c].queued) : Fits(manage[c].queued[i]) /\ manage[c].queued[i].from = c
    /\ manage[c].pc \in {"leaving", "offering", "flushing"} => manage[c].queued # <<>>
ManageOK == manage \in [Client -> ManageRec] /\ \A c \in Client : QueuedOK(c)

QueuesOK ==
    /\ fromClient \in Seq(Msg) /\ Len(fromClient) <= SendQ
    /\ \A i \in 1..Len(fromClient) : Fits(fromClient[i])
    /\ toClient \in Seq(Reply) /\ Len(toClient) <= SendQ
    /\ handled \in [Client -> Seq([n : Nat, via : {"reader", "queue"}])]

\* What a goroutine works on, and what it holds of the user table, at each
\* point of its hook.
JobShape(g) ==
    /\ job[g].pc # "idle" => job[g].msg \in Msg /\ Fits(job[g].msg)
    /\ job[g].pc \in {"idle", "get", "run"} => held[g] = NoPtr /\ setting[g] = NoUser
    /\ job[g].pc \in {"set", "info", "signon", "error"} => held[g] # NoPtr /\ setting[g] = NoUser
    /\ job[g].pc = "store" => setting[g] # NoUser
    /\ job[g].pc \in {"get", "set", "store", "info", "signon", "error"} =>
         job[g].msg.cmd \in {"NICK", "USER"} \cup OfServers
JobsOK == job \in [Goroutine -> JobRec] /\ \A g \in Goroutine : JobShape(g)

TInv == /\ Facts!NInv /\ ReadersOK /\ ManageOK /\ QueuesOK /\ JobsOK
        /\ mode \in {"up", "adopting", "hung", "crashed"}

-----------------------------------------------------------------------------
(* The two names of the user table. *)

LEMMA SameFolding ==
    /\ \A n : Users!ToLower(n) = Facts!ToLower(n)
    /\ \A n : Users!StringsToLower(n) = Facts!StringsToLower(n)
    /\ \A n : Users!ValidNick(n) <=> Facts!ValidNick(n)
    /\ Users!Key = Facts!Key
<1>1. \A n : Users!ToLower(n) = Facts!ToLower(n)
  BY Zenon DEF Users!ToLower, Facts!ToLower, Users!LowerRune, Facts!LowerRune
<1>2. \A n : Users!StringsToLower(n) = Facts!StringsToLower(n)
  BY Zenon DEF Users!StringsToLower, Facts!StringsToLower, Users!StringsLowerRune, Facts!StringsLowerRune
<1>3. \A n : Users!ValidNick(n) <=> Facts!ValidNick(n)
  BY Zenon DEF Users!ValidNick, Facts!ValidNick, Users!NameRune, Facts!NameRune, Users!isdigit,
               Facts!isdigit, Users!isletter, Facts!isletter, Users!isspecial, Facts!isspecial
<1>4. Users!Key = Facts!Key
  BY <1>1 DEF Users!Key, Facts!Key
<1> QED
  BY <1>1, <1>2, <1>3, <1>4

LEMMA SameRecords ==
    /\ Users!UID = Client /\ Facts!UID = Client
    /\ Users!NewUser = Facts!NewUser
    /\ Users!Star = <<42>> /\ Facts!Star = <<42>>
    /\ \A m, h : Users!Collected(m, h) = Facts!Collected(m, h)
    /\ \A p : Users!Garbage(p) <=> Facts!Garbage(p)
    /\ \A id : Users!Live(id) <=> Facts!Live(id)
    /\ Users!UserRecord = Facts!UserRecord
<1>1. Users!UID = Client /\ Facts!UID = Client
  BY DEF Users!UID, Facts!UID
<1>2. Users!Star = <<42>> /\ Facts!Star = <<42>>
  BY DEF Users!Star, Facts!Star
<1>3. Users!NewUser = Facts!NewUser
  BY <1>2 DEF Users!NewUser, Facts!NewUser
<1>4. \A m, h, p : Users!Unreferenced(p, m, h) <=> Facts!Unreferenced(p, m, h)
  BY <1>1, Zenon DEF Users!Unreferenced, Facts!Unreferenced
<1>5. \A m, h : Users!Collected(m, h) = Facts!Collected(m, h)
  BY <1>3, <1>4 DEF Users!Collected, Facts!Collected
<1>6. \A p : Users!Garbage(p) <=> Facts!Garbage(p)
  BY <1>4, Zenon DEF Users!Garbage, Facts!Garbage
<1>7. \A id : Users!Live(id) <=> Facts!Live(id)
  BY Zenon DEF Users!Live, Facts!Live
<1>8. Users!UserRecord = Facts!UserRecord
  BY <1>1, <1>2, Zenon DEF Users!UserRecord, Facts!UserRecord
<1> QED
  BY <1>1, <1>2, <1>3, <1>5, <1>6, <1>7, <1>8

LEMMA SameRegistry == [Users!Next]_registry => [Facts!Next]_(Facts!vars)
<1> USE SameFolding, SameRecords
<1>1. \A nicks, k : Users!Forget(nicks, k) = Facts!Forget(nicks, k)
  BY Zenon DEF Users!Forget, Facts!Forget
<1>2. \A p, nick : Users!SetNickResult(p, nick) = Facts!SetNickResult(p, nick)
  BY Zenon DEF Users!SetNickResult, Facts!SetNickResult
<1>3. \A id, p : Users!GetUser(id, p) <=> Facts!GetUser(id, p)
  BY Zenon DEF Users!GetUser, Facts!GetUser
<1>4. \A p : Users!InMap(p) <=> Facts!InMap(p)
  BY Zenon DEF Users!InMap, Facts!InMap
<1>5. ASSUME NEW id \in Client, Users!TouchUser(id) \/ Users!Delete(id)
      PROVE  Facts!TouchUser(id) \/ Facts!Delete(id)
  BY <1>1, <1>3, <1>5, Zenon DEF Users!TouchUser, Facts!TouchUser, Users!Delete, Facts!Delete
<1>6. ASSUME NEW g \in Goroutine, NEW id \in Client, Users!BeginConnReg(g, id)
      PROVE  Facts!BeginConnReg(g, id)
  BY <1>3, <1>6, Zenon DEF Users!BeginConnReg, Facts!BeginConnReg
<1>7. ASSUME NEW g \in Goroutine, NEW nick \in Nick, Users!SetNick(g, nick)
      PROVE  Facts!SetNick(g, nick)
  BY <1>1, <1>2, <1>4, <1>7, Zenon DEF Users!SetNick, Facts!SetNick
<1>8. ASSUME NEW g \in Goroutine, NEW user \in UserName, Users!CheckUser(g, user)
      PROVE  Facts!CheckUser(g, user)
  BY <1>8, Zenon DEF Users!CheckUser, Facts!CheckUser
<1>9. ASSUME NEW g \in Goroutine, Users!StoreUser(g) \/ Users!SetType(g) \/ Users!EndConnReg(g)
      PROVE  Facts!StoreUser(g) \/ Facts!SetType(g) \/ Facts!EndConnReg(g)
  BY <1>9, Zenon DEF Users!StoreUser, Facts!StoreUser, Users!SetType, Facts!SetType,
                     Users!EndConnReg, Facts!EndConnReg
<1>10. CASE UNCHANGED registry
  BY <1>10, Zenon DEF registry, Facts!vars
<1> QED
  BY <1>5, <1>6, <1>7, <1>8, <1>9, <1>10, Zenon DEF Users!Next, Facts!Next

-----------------------------------------------------------------------------
(* The user table is used as UserRegistry says. *)

LEMMA TableTypes ==
    ASSUME Facts!NInv
    PROVE  /\ heap \in [Ptr -> Users!UserRecord] /\ userMap \in [Client -> Ptr \cup {NoPtr}]
           /\ userNicks \in [Users!Key -> Client \cup {NoID}]
           /\ held \in [Goroutine -> Ptr \cup {NoPtr}]
           /\ setting \in [Goroutine -> UserName \cup {NoUser}] /\ staleRename \in BOOLEAN
           /\ \A c \in Client : Users!Live(c) => heap[userMap[c]].id = c
           /\ \A g \in Goroutine : setting[g] # NoUser => held[g] # NoPtr
BY SameFolding, SameRecords, Zenon DEF Facts!NInv, Facts!IInv, Facts!Types, Facts!IdMatches,
   Facts!SetterHolds

LEMMA HeadMsg ==
    ASSUME QueuesOK, fromClient # <<>>
    PROVE  Head(fromClient) \in Msg /\ Fits(Head(fromClient)) /\ Head(fromClient).from \in Client
<1>1. /\ fromClient \in Seq(Msg) /\ Head(fromClient) = fromClient[1]
      /\ \A i \in 1..Len(fromClient) : Fits(fromClient[i])
  BY DEF QueuesOK
<1>2. 1 \in 1..Len(fromClient)
  BY <1>1
<1>3. Head(fromClient) \in Msg
  BY <1>1
<1> QED
  BY <1>1, <1>2, <1>3, Zenon DEF Msg

LEMMA HeadReply ==
    ASSUME QueuesOK, toClient # <<>>
    PROVE  /\ Head(toClient).to \in Seq(Client) /\ Head(toClient).to # <<>>
           /\ \A i \in DOMAIN Head(toClient).to : Head(toClient).to[i] \in Client
           /\ Head(toClient).to[1] \in Client /\ 1 \in DOMAIN Head(toClient).to
<1>1. Head(toClient) \in Reply
  BY DEF QueuesOK
<1>2. Head(toClient).to \in Seq(Client) /\ Head(toClient).to # <<>>
  BY <1>1 DEF Reply
<1> QED
  BY <1>2

\* The argument of a message is what its handler takes it for.
LEMMA JobArg ==
    ASSUME JobsOK, NEW g \in Goroutine, HasArg(g), job[g].pc # "idle"
    PROVE  /\ job[g].msg.from \in Client
           /\ job[g].msg.cmd = "NICK" => job[g].msg.arg \in Nick
           /\ job[g].msg.cmd = "USER" => job[g].msg.arg \in UserName \cup {NoUser}
           /\ job[g].msg.cmd \in {"PRIVMSG", "NOTICE"} => job[g].msg.arg \in Seq(Name)
BY DEF JobsOK, JobShape, HasArg, Fits, Msg

LEMMA DeleteMoves ==
    ASSUME NEW c \in Client, Delete(c)
    PROVE  [Users!Next]_registry
BY SameRecords, Zenon DEF Delete, Users!Next

LEMMA RegistryMoves ==
    ASSUME QueuesOK, JobsOK, Next
    PROVE  [Users!Next]_registry
<1>1. ASSUME NEW c \in Client, PeerLeaves(c) \/ ReadLine(c) \/ ReadError(c) \/ SendDirect(c)
                               \/ Incoming(c) \/ AdoptClose(c)
      PROVE  UNCHANGED registry
  BY <1>1, Zenon DEF PeerLeaves, AdoptClose, ReadLine, ReadError, SendDirect, Incoming, Accept, SubscribeStop,
                     Collect, Stop, Leave, Flush
<1>2. ASSUME NEW c \in Client, Adopt(c)
      PROVE  [Users!Next]_registry
  BY <1>2, SameRecords, Zenon DEF Adopt, GetUser, Users!Next
<1>3. ASSUME NEW c \in Client, Closing(c)
      PROVE  [Users!Next]_registry
  BY <1>3, DeleteMoves, Zenon DEF Closing
<1>4. ASSUME Dispatch
      PROVE  [Users!Next]_registry
  BY <1>4, HeadMsg, SameRecords, Zenon DEF Dispatch, GetUser, Users!Next
<1>5. ASSUME RemoteError
      PROVE  [Users!Next]_registry
  BY <1>5, HeadMsg, DeleteMoves, Zenon DEF RemoteError
<1>6. ASSUME Write
      PROVE  [Users!Next]_registry
  BY <1>6, HeadReply, DeleteMoves, Zenon DEF Write
<1>7. ASSUME WriteFails \/ WriteToNil
      PROVE  UNCHANGED registry
  BY <1>7, Zenon DEF WriteFails, WriteToNil
<1>8. ASSUME NEW g \in Goroutine, ArgsPanic(g) \/ Answer(g) \/ PrivmsgName(g) \/ PrivmsgSend(g)
      PROVE  UNCHANGED registry
  BY <1>8, Zenon DEF ArgsPanic, Answer, PrivmsgName, PrivmsgSend
<1>9. ASSUME NEW g \in Goroutine, ConnRegGet(g)
      PROVE  [Users!Next]_registry
  <2>1. job[g].msg.from \in Client
    BY <1>9 DEF ConnRegGet, At, JobsOK, JobShape, Msg
  <2> QED
    BY <1>9, <2>1, Zenon DEF ConnRegGet, Users!Next
<1>10. ASSUME NEW g \in Goroutine, ConnRegNick(g)
       PROVE  [Users!Next]_registry
  <2>1. job[g].msg.arg \in Nick
    BY <1>10, JobArg DEF ConnRegNick, At
  <2> QED
    BY <1>10, <2>1, Zenon DEF ConnRegNick, Users!Next
<1>11. ASSUME NEW g \in Goroutine, ConnRegUser(g)
       PROVE  [Users!Next]_registry
  <2>1. job[g].msg.arg \in UserName \cup {NoUser}
    BY <1>11, JobArg DEF ConnRegUser, At
  <2> QED
    BY <1>11, <2>1, Zenon DEF ConnRegUser, Users!Next
<1>12. ASSUME NEW g \in Goroutine, ConnRegStore(g) \/ ConnRegInfo(g) \/ ConnRegReply(g)
       PROVE  [Users!Next]_registry
  BY <1>12, Zenon DEF ConnRegStore, ConnRegInfo, ConnRegReply, Users!Next
<1> QED
  BY <1>1, <1>2, <1>3, <1>4, <1>5, <1>6, <1>7, <1>8, <1>9, <1>10, <1>11, <1>12, Zenon
     DEF Next, Loop, Hook

LEMMA RegistryStep ==
    ASSUME TInv, Next
    PROVE  Facts!NInv'
<1>1. Facts!NInv /\ [Facts!Next]_(Facts!vars) => Facts!NInv'
  BY SessionsAssumption, SameRecords, Facts!NextNInv DEF Facts!RegistryAssumption
<1> QED
  BY <1>1, SameRegistry, RegistryMoves DEF TInv

-----------------------------------------------------------------------------
(* Connections and their readers, registrations, channels and goroutines. *)

readers == <<conn, reader, lines, uid2conn>>

LEMMA ReadersMove ==
    ASSUME Next
    PROVE  \/ \E c \in Client :
                \/ PeerLeaves(c) \/ ReadLine(c) \/ ReadError(c) \/ SendDirect(c) \/ Accept(c)
                \/ SubscribeStop(c) \/ Collect(c) \/ Stop(c) \/ Leave(c) \/ Adopt(c) \/ AdoptClose(c)
                \/ Closing(c)
           \/ RemoteError \/ Write
           \/ UNCHANGED readers
<1>1. ASSUME NEW c \in Client, Flush(c)
      PROVE  UNCHANGED readers
  BY <1>1, Zenon DEF Flush, readers
<1>2. ASSUME Dispatch \/ WriteFails \/ WriteToNil
      PROVE  UNCHANGED readers
  BY <1>2, Zenon DEF Dispatch, WriteFails, WriteToNil, readers
<1>3. ASSUME NEW g \in Goroutine, Hook(g)
      PROVE  UNCHANGED readers
  BY <1>3, Zenon DEF Hook, ArgsPanic, Answer, PrivmsgName, PrivmsgSend, ConnRegGet, ConnRegNick,
                     ConnRegUser, ConnRegStore, ConnRegInfo, ConnRegReply, Rest, readers
<1> QED
  BY <1>1, <1>2, <1>3, Zenon DEF Next, Loop, Incoming

\* What a script says is a message of its client.
LEMMA LineIsMsg ==
    ASSUME NEW c \in Client, NEW line \in Line, line.cmd # "", NEW n \in Nat
    PROVE  /\ [from |-> c, cmd |-> line.cmd, arg |-> line.arg, n |-> n, via |-> "reader"] \in Msg
           /\ Fits([from |-> c, cmd |-> line.cmd, arg |-> line.arg, n |-> n, via |-> "reader"])
<1> DEFINE m == [from |-> c, cmd |-> line.cmd, arg |-> line.arg, n |-> n, via |-> "reader"]
<1>1. /\ line.cmd \in Command
      /\ line.arg \in Nick \cup Seq(Name) \cup UserName \cup {NoUser, NoArg}
  BY DEF Line, Command
<1>2. /\ line.cmd = "NICK" => line.arg \in Nick \cup {NoArg}
      /\ line.cmd = "USER" => line.arg \in UserName \cup {NoUser, NoArg}
      /\ line.cmd \in {"PRIVMSG", "NOTICE"} => line.arg \in Seq(Name) \cup {NoArg}
  BY DEF Line, OfServers
<1>3. m \in Msg
  BY <1>1 DEF Msg
<1>4. Fits(m)
  BY <1>2 DEF Fits
<1> QED
  BY <1>3, <1>4

LEMMA Choice == \A S : S # {} => (CHOOSE x \in S : TRUE) \in S
BY Zenon

\* The next line of a script, and what becomes of it.
LEMMA NextLine ==
    ASSUME ReadersOK, NEW c \in Client, ReadLine(c)
    PROVE  /\ lines' = [lines EXCEPT ![c] = @ + 1] /\ UNCHANGED <<conn, uid2conn>>
           /\ reader[c].pc = "reading"
           /\ \/ UNCHANGED reader
              \/ \E pc \in {"inc", "fromClient"}, m \in Msg :
                   /\ reader' = [reader EXCEPT ![c] = [pc |-> pc, msg |-> m]]
                   /\ pc \in conn[c].subscribers
                   /\ Fits(m) /\ m.from = c /\ m.n = lines[c] + 1 /\ m.via = "reader"
<1>1. /\ lines[c] \in Nat /\ Script[c] \in Seq(SUBSET Line) /\ lines[c] < Len(Script[c])
      /\ conn[c].subscribers \in SUBSET {"inc", "fromClient"}
  BY SessionsAssumption DEF ReadersOK, ReadLine, ConnRec
<1>2. Script[c][lines[c] + 1] \subseteq Line
  BY <1>1
<1>3. PICK line \in Script[c][lines[c] + 1] :
         IF line.cmd = "" THEN UNCHANGED reader
         ELSE reader' = [reader EXCEPT ![c] =
                IF conn[c].subscribers = {} THEN @
                ELSE [pc |-> CHOOSE ch \in conn[c].subscribers : TRUE,
                      msg |-> [from |-> c, cmd |-> line.cmd, arg |-> line.arg,
                               n |-> lines[c] + 1, via |-> "reader"]]]
  BY Zenon DEF ReadLine
<1> DEFINE pc == CHOOSE ch \in conn[c].subscribers : TRUE
           m == [from |-> c, cmd |-> line.cmd, arg |-> line.arg, n |-> lines[c] + 1, via |-> "reader"]
<1>4. CASE line.cmd = "" \/ conn[c].subscribers = {}
  <2>1. UNCHANGED reader
    BY <1>3, <1>4 DEF ReadersOK
  <2> QED
    BY <2>1, Zenon DEF ReadLine
<1>5. CASE line.cmd # "" /\ conn[c].subscribers # {}
  <2>1. pc \in conn[c].subscribers /\ pc \in {"inc", "fromClient"}
    BY <1>1, <1>5, Choice
  <2>2. lines[c] + 1 \in Nat
    BY <1>1
  <2>3. m \in Msg /\ Fits(m) /\ m.from = c /\ m.n = lines[c] + 1 /\ m.via = "reader"
    BY <1>2, <1>5, <2>2, LineIsMsg, Zenon
  <2>4. reader' = [reader EXCEPT ![c] = [pc |-> pc, msg |-> m]]
    BY <1>3, <1>5
  <2> HIDE DEF pc, m
  <2> QED
    BY <2>1, <2>3, <2>4, Zenon DEF ReadLine
<1> QED
  BY <1>4, <1>5

\* What may be done to a connection.
ConnMoves(c) ==
    \/ UNCHANGED conn
    \/ conn' = [conn EXCEPT ![c].peer = FALSE]
    \/ conn' = [conn EXCEPT ![c].open = FALSE]
    \/ conn' = [conn EXCEPT ![c].subscribers = {"inc"}]
    \/ conn' = [conn EXCEPT ![c].onclose = {"stop"}]
    \/ conn' = [conn EXCEPT ![c].subscribers = {}, ![c].onclose = {}]
    \/ conn' = [conn EXCEPT ![c].subscribers = @ \cup {"fromClient"}]
    \/ conn' = [conn EXCEPT ![c].onclose = @ \cup {"clientClosing"}]
    \/ conn' = [conn EXCEPT ![c].onclose = @ \ {"clientClosing"}, ![c].open = FALSE]

LEMMA ConnMove ==
    ASSUME NEW c \in Client,
           \/ PeerLeaves(c) \/ ReadLine(c) \/ ReadError(c) \/ SendDirect(c) \/ Accept(c)
           \/ SubscribeStop(c) \/ Collect(c) \/ Stop(c) \/ Leave(c) \/ Adopt(c) \/ AdoptClose(c)
           \/ Closing(c) \/ Release(c)
    PROVE  ConnMoves(c)
BY Zenon DEF ConnMoves, PeerLeaves, ReadLine, ReadError, SendDirect, Accept, SubscribeStop, Collect,
   Stop, Leave, Adopt, AdoptClose, Closing, Release

\* A connection and its peer do not come back.
LEMMA ConnSet ==
    ASSUME conn \in [Client -> ConnRec], NEW c \in Client, ConnMoves(c)
    PROVE  /\ conn' \in [Client -> ConnRec]
           /\ \A d \in Client : (conn'[d].open => conn[d].open) /\ (conn'[d].peer => conn[d].peer)
<1>1. CASE UNCHANGED conn
  BY <1>1
<1>2. CASE conn' = [conn EXCEPT ![c].peer = FALSE]
  BY <1>2 DEF ConnRec
<1>3. CASE conn' = [conn EXCEPT ![c].open = FALSE]
  BY <1>3 DEF ConnRec
<1>4. CASE conn' = [conn EXCEPT ![c].subscribers = {"inc"}]
  BY <1>4 DEF ConnRec
<1>5. CASE conn' = [conn EXCEPT ![c].onclose = {"stop"}]
  BY <1>5 DEF ConnRec
<1>6. CASE conn' = [conn EXCEPT ![c].subscribers = {}, ![c].onclose = {}]
  BY <1>6, ZenonT(40) DEF ConnRec
<1>7. CASE conn' = [conn EXCEPT ![c].subscribers = @ \cup {"fromClient"}]
  BY <1>7, ZenonT(40) DEF ConnRec
<1>9. CASE conn' = [conn EXCEPT ![c].onclose = @ \cup {"clientClosing"}]
  BY <1>9, ZenonT(40) DEF ConnRec
<1>8. CASE conn' = [conn EXCEPT ![c].onclose = @ \ {"clientClosing"}, ![c].open = FALSE]
  BY <1>8, ZenonT(40) DEF ConnRec
<1> QED
  BY <1>1, <1>2, <1>3, <1>4, <1>5, <1>6, <1>7, <1>8, <1>9 DEF ConnMoves

LEMMA ReadersStep ==
    ASSUME ReadersOK, QueuesOK, Next
    PROVE  ReadersOK'
<1> USE DEF ReadersOK, Sending
<1>0. ASSUME NEW c \in Client,
             \/ PeerLeaves(c) \/ ReadLine(c) \/ ReadError(c) \/ SendDirect(c) \/ Accept(c)
             \/ SubscribeStop(c) \/ Collect(c) \/ Stop(c) \/ Leave(c) \/ Adopt(c) \/ AdoptClose(c)
             \/ Closing(c) \/ Release(c)
      PROVE  conn' \in [Client -> ConnRec] /\ uid2conn' \in [Client -> {"none", "conn", "nil"}]
  <2>1. \/ UNCHANGED uid2conn
        \/ \E v \in {"conn", "nil"} : uid2conn' = [uid2conn EXCEPT ![c] = v]
    BY <1>0, Zenon DEF PeerLeaves, ReadLine, ReadError, SendDirect, Accept, SubscribeStop, Collect, Stop,
                       Leave, Adopt, AdoptClose, Closing, Release
  <2>2. uid2conn' \in [Client -> {"none", "conn", "nil"}]
    BY <2>1
  <2> QED
    BY <1>0, <2>2, ConnMove, ConnSet
<1>1. ASSUME NEW c \in Client, ReadLine(c)
      PROVE  ReadersOK'
  <2>1. lines' \in [Client -> Nat]
    BY <1>1, NextLine
  <2>2. CASE UNCHANGED reader
    BY <1>0, <1>1, <2>1, <2>2
  <2>3. ASSUME NEW pc \in {"inc", "fromClient"}, NEW m \in Msg, Fits(m), m.from = c,
               reader' = [reader EXCEPT ![c] = [pc |-> pc, msg |-> m]]
        PROVE  ReadersOK'
    <3>1. [pc |-> pc, msg |-> m] \in ReaderRec
      BY DEF ReaderRec
    <3> QED
      BY <1>0, <1>1, <2>1, <2>3, <3>1
  <2> QED
    BY <1>1, <2>2, <2>3, NextLine
<1>2. ASSUME NEW c \in Client,
             PeerLeaves(c) \/ SubscribeStop(c) \/ Leave(c) \/ Adopt(c) \/ AdoptClose(c)
      PROVE  ReadersOK'
  <2>1. UNCHANGED <<reader, lines>>
    BY <1>2, Zenon DEF PeerLeaves, SubscribeStop, Leave, Adopt, AdoptClose
  <2> QED
    BY <1>0, <1>2, <2>1
<1>3. ASSUME NEW c \in Client, NEW r \in ReaderRec, r.pc \notin {"inc", "fromClient"},
             reader' = [reader EXCEPT ![c] = r],
             conn' \in [Client -> ConnRec], uid2conn' \in [Client -> {"none", "conn", "nil"}],
             UNCHANGED lines
      PROVE  ReadersOK'
  BY <1>3
<1>4. \A pc \in {"off", "reading", "inc", "fromClient", "stop", "clientClosing", "done"} :
         ReaderAt(pc) \in ReaderRec /\ ReaderAt(pc).pc = pc
  BY DEF ReaderAt, ReaderRec
<1>5. ASSUME NEW c \in Client, SendDirect(c) \/ Collect(c) \/ Stop(c) \/ Closing(c)
      PROVE  ReadersOK'
  <2>1. /\ \E pc \in {"reading", "done"} : reader' = [reader EXCEPT ![c] = ReaderAt(pc)]
        /\ UNCHANGED lines
    BY <1>5, Zenon DEF SendDirect, Collect, Stop, Closing
  <2> QED
    BY <1>0, <1>3, <1>4, <1>5, <2>1
<1>6. ASSUME NEW c \in Client, ReadError(c)
      PROVE  ReadersOK'
  <2>1. conn[c].onclose \in SUBSET {"stop", "clientClosing"}
    BY DEF ConnRec
  <2>2. conn[c].onclose # {} => (CHOOSE ch \in conn[c].onclose : TRUE) \in {"stop", "clientClosing"}
    BY <2>1, Choice
  <2>3. /\ \E pc \in {"done", "stop", "clientClosing"} : reader' = [reader EXCEPT ![c] = ReaderAt(pc)]
        /\ UNCHANGED lines
    BY <1>6, <2>2, Zenon DEF ReadError
  <2> QED
    BY <1>0, <1>3, <1>4, <1>6, <2>3
<1>7. ASSUME NEW c \in Client, Accept(c)
      PROVE  ReadersOK'
  <2>1. reader' = [reader EXCEPT ![c].pc = "reading"] /\ UNCHANGED lines
    BY <1>7, Zenon DEF Accept
  <2>2. reader' \in [Client -> ReaderRec] /\ \A d \in Client : reader'[d] = reader[d] \/ ~Sending(d)'
    BY <2>1 DEF ReaderRec
  <2> QED
    BY <1>0, <1>7, <2>1, <2>2
<1>8. ASSUME RemoteError \/ Write
      PROVE  ReadersOK'
  <2>1. UNCHANGED <<reader, lines>>
    BY <1>8, Zenon DEF RemoteError, Write
  <2>2. UNCHANGED <<conn, uid2conn>> \/ \E c \in Client : Release(c)
    BY <1>8, HeadMsg, HeadReply, Zenon DEF RemoteError, Write
  <2>3. conn' \in [Client -> ConnRec] /\ uid2conn' \in [Client -> {"none", "conn", "nil"}]
    BY <1>0, <2>2
  <2> QED
    BY <2>1, <2>3
<1>9. CASE UNCHANGED readers
  BY <1>9 DEF readers
<1> QED
  BY <1>1, <1>2, <1>5, <1>6, <1>7, <1>8, <1>9, ReadersMove

LEMMA ManageMoves ==
    ASSUME Next
    PROVE  (\E c \in Client : Incoming(c) \/ Adopt(c)) \/ UNCHANGED manage
<1>1. ASSUME NEW c \in Client,
             PeerLeaves(c) \/ ReadLine(c) \/ ReadError(c) \/ SendDirect(c) \/ AdoptClose(c) \/ Closing(c)
      PROVE  UNCHANGED manage
  BY <1>1, Zenon DEF PeerLeaves, AdoptClose, ReadLine, ReadError, SendDirect, Closing
<1>2. ASSUME Loop
      PROVE  UNCHANGED manage
  BY <1>2, Zenon DEF Loop, Dispatch, RemoteError, Write, WriteFails, WriteToNil
<1>3. ASSUME NEW g \in Goroutine, Hook(g)
      PROVE  UNCHANGED manage
  BY <1>3, Zenon DEF Hook, ArgsPanic, Answer, PrivmsgName, PrivmsgSend, ConnRegGet, ConnRegNick,
                     ConnRegUser, ConnRegStore, ConnRegInfo, ConnRegReply, Rest
<1> QED
  BY <1>1, <1>2, <1>3, Zenon DEF Next

LEMMA ManageStep ==
    ASSUME ReadersOK, ManageOK, Next
    PROVE  ManageOK'
<1> USE DEF ManageOK
<1>1. ASSUME NEW c \in Client, NEW r \in ManageRec, manage' = [manage EXCEPT ![c] = r],
             \A i \in 1..Len(r.queued) : Fits(r.queued[i]) /\ r.queued[i].from = c,
             r.pc \in {"leaving", "offering", "flushing"} => r.queued # <<>>
      PROVE  ManageOK'
  BY <1>1 DEF QueuedOK
<1>2. ASSUME NEW c \in Client, Accept(c) \/ SubscribeStop(c) \/ Leave(c) \/ Adopt(c)
      PROVE  ManageOK'
  <2>1. PICK pc \in {"subscribing", "collecting", "offering", "flushing"} :
           /\ manage' = [manage EXCEPT ![c].pc = pc]
           /\ pc \in {"offering", "flushing"} => manage[c].pc \in {"leaving", "offering"}
    BY <1>2 DEF Accept, SubscribeStop, Leave, Adopt
  <2>2. manage[c] \in ManageRec /\ QueuedOK(c)
    OBVIOUS
  <2>3. [manage[c] EXCEPT !.pc = pc] \in ManageRec
    BY <2>2 DEF ManageRec
  <2>4. manage' = [manage EXCEPT ![c] = [manage[c] EXCEPT !.pc = pc]]
    BY <2>1
  <2>5. [manage[c] EXCEPT !.pc = pc].pc = pc /\ [manage[c] EXCEPT !.pc = pc].queued = manage[c].queued
    BY <2>2 DEF ManageRec
  <2> QED
    BY <1>1, <2>1, <2>2, <2>3, <2>4, <2>5 DEF QueuedOK
<1>3. ASSUME NEW c \in Client, Collect(c)
      PROVE  ManageOK'
  <2> DEFINE m == [reader[c].msg EXCEPT !.via = "queue"]
             queued == Append(manage[c].queued, m)
  <2>1. reader[c].msg \in Msg /\ Fits(reader[c].msg) /\ reader[c].msg.from = c
    BY <1>3 DEF Collect, ReadersOK, Sending
  <2>2. m \in Msg /\ Fits(m) /\ m.from = c
    BY <2>1 DEF Msg, Fits
  <2>3. manage[c].queued \in Seq(Msg) /\ QueuedOK(c)
    BY DEF ManageRec
  <2> HIDE DEF m
  <2>4. queued \in Seq(Msg) /\ queued # <<>>
    <3>1. Len(queued) = Len(manage[c].queued) + 1 /\ Len(manage[c].queued) \in Nat
      BY <2>2, <2>3
    <3> QED
      BY <2>2, <2>3, <3>1
  <2>5. \A i \in 1..Len(queued) : Fits(queued[i]) /\ queued[i].from = c
    BY <2>2, <2>3 DEF QueuedOK
  <2>6. PICK pc \in {"leaving", "collecting"} : manage' = [manage EXCEPT ![c] = [pc |-> pc, queued |-> queued]]
    BY <1>3, Zenon DEF Collect, m
  <2> HIDE DEF queued
  <2>7. [pc |-> pc, queued |-> queued] \in ManageRec
    BY <2>4 DEF ManageRec
  <2> QED
    BY <1>1, <2>4, <2>5, <2>6, <2>7
<1>4. ASSUME NEW c \in Client, Stop(c)
      PROVE  ManageOK'
  <2> DEFINE r == [pc |-> "done", queued |-> <<>>]
  <2>1. r \in ManageRec /\ r.pc = "done" /\ r.queued = <<>> /\ Len(<<>>) = 0
    BY DEF ManageRec
  <2>2. manage' = [manage EXCEPT ![c] = r]
    BY <1>4, Zenon DEF Stop
  <2> HIDE DEF r
  <2>3. \A i \in 1..Len(r.queued) : Fits(r.queued[i]) /\ r.queued[i].from = c
    BY <2>1
  <2> QED
    BY <1>1, <2>1, <2>2, <2>3
<1>5. ASSUME NEW c \in Client, Flush(c)
      PROVE  ManageOK'
  <2> DEFINE queued == manage[c].queued
  <2>1. queued \in Seq(Msg) /\ QueuedOK(c) /\ queued # <<>>
    BY <1>5 DEF ManageRec, QueuedOK, Flush
  <2>2. /\ Tail(queued) \in Seq(Msg)
        /\ \A i \in 1..Len(Tail(queued)) : i + 1 \in 1..Len(queued) /\ Tail(queued)[i] = queued[i + 1]
    BY <2>1
  <2>3. PICK pc \in {"done", "flushing"} :
           /\ manage' = [manage EXCEPT ![c] = [pc |-> pc, queued |-> Tail(queued)]]
           /\ pc = "flushing" => Tail(queued) # <<>>
    BY <1>5, Zenon DEF Flush
  <2>4. [pc |-> pc, queued |-> Tail(queued)] \in ManageRec
    BY <2>2 DEF ManageRec
  <2> QED
    BY <1>1, <2>1, <2>2, <2>3, <2>4 DEF QueuedOK
<1>6. CASE UNCHANGED manage
  BY <1>6 DEF QueuedOK
<1> QED
  BY <1>2, <1>3, <1>4, <1>5, <1>6, ManageMoves DEF Incoming

LEMMA QueuesMove ==
    ASSUME Next
    PROVE  \/ \E c \in Client : SendDirect(c) \/ Flush(c)
           \/ Dispatch \/ RemoteError \/ Write
           \/ \E g \in Goroutine : Answer(g) \/ PrivmsgName(g) \/ PrivmsgSend(g) \/ ConnRegReply(g)
           \/ UNCHANGED <<fromClient, toClient, handled>>
<1>1. ASSUME NEW c \in Client,
             \/ PeerLeaves(c) \/ ReadLine(c) \/ ReadError(c) \/ Closing(c) \/ Adopt(c)
             \/ AdoptClose(c) \/ Accept(c) \/ SubscribeStop(c) \/ Collect(c) \/ Stop(c) \/ Leave(c)
      PROVE  UNCHANGED <<fromClient, toClient, handled>>
  BY <1>1, Zenon DEF PeerLeaves, ReadLine, ReadError, Closing, Adopt, AdoptClose, Accept,
                     SubscribeStop, Collect, Stop, Leave
<1>2. ASSUME WriteFails \/ WriteToNil
      PROVE  UNCHANGED <<fromClient, toClient, handled>>
  BY <1>2, Zenon DEF WriteFails, WriteToNil
<1>3. ASSUME NEW g \in Goroutine,
             \/ ArgsPanic(g) \/ ConnRegGet(g) \/ ConnRegNick(g) \/ ConnRegUser(g)
             \/ ConnRegStore(g) \/ ConnRegInfo(g)
      PROVE  UNCHANGED <<fromClient, toClient, handled>>
  BY <1>3, Zenon DEF ArgsPanic, ConnRegGet, ConnRegNick, ConnRegUser, ConnRegStore, ConnRegInfo, Rest
<1> QED
  BY <1>1, <1>2, <1>3, Zenon DEF Next, Loop, Hook, Incoming

\* One message taken from the front, or one put at the end.
LEMMA TakeMsg ==
    ASSUME QueuesOK, fromClient # <<>>, fromClient' = Tail(fromClient), UNCHANGED toClient,
           NEW m \in Msg, handled' = [handled EXCEPT ![m.from] = Append(@, [n |-> m.n, via |-> m.via])]
    PROVE  QueuesOK'
<1>1. /\ Tail(fromClient) \in Seq(Msg) /\ Len(Tail(fromClient)) = Len(fromClient) - 1
      /\ \A i \in 1..Len(Tail(fromClient)) : i + 1 \in 1..Len(fromClient) /\ Tail(fromClient)[i] = fromClient[i + 1]
  BY DEF QueuesOK
<1>2. m.from \in Client /\ [n |-> m.n, via |-> m.via] \in [n : Nat, via : {"reader", "queue"}]
  BY DEF Msg
<1> DEFINE T == [n : Nat, via : {"reader", "queue"}]
           e == [n |-> m.n, via |-> m.via]
<1>3. handled' \in [Client -> Seq(T)]
  <2>1. handled \in [Client -> Seq(T)] /\ e \in T
    BY <1>2 DEF QueuesOK
  <2> HIDE DEF T, e
  <2>2. handled' = [handled EXCEPT ![m.from] = Append(handled[m.from], e)]
    BY <2>1, <1>2 DEF e
  <2>3. Append(handled[m.from], e) \in Seq(T)
    BY <1>2, <2>1
  <2> QED
    BY <2>1, <2>2, <2>3
<1> HIDE DEF T
<1>4. fromClient' \in Seq(Msg) /\ Len(fromClient') <= SendQ /\ \A i \in 1..Len(fromClient') : Fits(fromClient'[i])
  BY <1>1, SessionsAssumption DEF QueuesOK
<1> QED
  BY <1>3, <1>4 DEF QueuesOK, T

LEMMA PutMsg ==
    ASSUME QueuesOK, NEW m \in Msg, Fits(m), Len(fromClient) < SendQ,
           fromClient' = Append(fromClient, m), UNCHANGED <<toClient, handled>>
    PROVE  QueuesOK'
<1>1. /\ Append(fromClient, m) \in Seq(Msg) /\ Len(Append(fromClient, m)) = Len(fromClient) + 1
      /\ \A i \in 1..Len(Append(fromClient, m)) :
           Append(fromClient, m)[i] = m \/ (i \in 1..Len(fromClient) /\ Append(fromClient, m)[i] = fromClient[i])
  BY DEF QueuesOK
<1>2. Len(fromClient) \in Nat /\ SendQ \in Nat
  BY SessionsAssumption DEF QueuesOK
<1> QED
  BY <1>1, <1>2 DEF QueuesOK

LEMMA PutReply ==
    ASSUME QueuesOK, NEW to \in Seq(Client), to # <<>>,
           NEW kind \in {"ERROR", "PONG", "PRIVMSG", "NUMERIC", "WELCOME"},
           Post(to, kind), UNCHANGED <<fromClient, handled>>
    PROVE  QueuesOK'
<1> DEFINE r == [to |-> to, kind |-> kind]
<1>1. r \in Reply
  BY DEF Reply
<1>2. toClient' = Append(toClient, r) /\ Len(toClient) < SendQ
  BY DEF Post
<1> HIDE DEF r
<1>3. Append(toClient, r) \in Seq(Reply) /\ Len(Append(toClient, r)) = Len(toClient) + 1
  BY <1>1 DEF QueuesOK
<1>4. Len(toClient) \in Nat /\ SendQ \in Nat
  BY SessionsAssumption DEF QueuesOK
<1> QED
  BY <1>2, <1>3, <1>4 DEF QueuesOK

LEMMA FoundRecipient ==
    ASSUME Facts!NInv, NEW name \in Name, Recipient(name) # NoID
    PROVE  Recipient(name) \in Client
<1>1. CASE name \in Client
  BY <1>1 DEF Recipient
<1>2. CASE name \notin Client
  <2>1. name \in Nick
    BY <1>2 DEF Name
  <2>2. Users!ToLower(name) \in Users!Key
    BY <2>1 DEF Users!Key
  <2>3. userNicks[Users!ToLower(name)] \in Client \cup {NoID}
    BY <2>2, TableTypes, Zenon
  <2> QED
    BY <1>2, <2>3 DEF Recipient, Users!GetID
<1> QED
  BY <1>1, <1>2

LEMMA OneRecipient == \A c \in Client : <<c>> \in Seq(Client) /\ <<c>> # <<>>
OBVIOUS

LEMMA QueuesStep ==
    ASSUME TInv, Next
    PROVE  QueuesOK'
<1>0. ReadersOK /\ ManageOK /\ QueuesOK /\ JobsOK /\ Facts!NInv
  BY DEF TInv
<1>1. ASSUME NEW c \in Client, SendDirect(c)
      PROVE  QueuesOK'
  <2>1. reader[c].msg \in Msg /\ Fits(reader[c].msg)
    BY <1>0, <1>1 DEF ReadersOK, Sending, SendDirect
  <2>2. Len(fromClient) < SendQ /\ fromClient' = Append(fromClient, reader[c].msg) /\ UNCHANGED <<toClient, handled>>
    BY <1>1, Zenon DEF SendDirect
  <2> QED
    BY <1>0, <2>1, <2>2, PutMsg
<1>2. ASSUME NEW c \in Client, Flush(c)
      PROVE  QueuesOK'
  <2>1. manage[c].queued \in Seq(Msg) /\ QueuedOK(c) /\ manage[c].queued # <<>>
    BY <1>0, <1>2 DEF ManageOK, ManageRec, QueuedOK, Flush
  <2>2. Head(manage[c].queued) \in Msg /\ Fits(Head(manage[c].queued))
    BY <2>1 DEF QueuedOK
  <2>3. Len(fromClient) < SendQ /\ fromClient' = Append(fromClient, Head(manage[c].queued)) /\ UNCHANGED <<toClient, handled>>
    BY <1>2, Zenon DEF Flush
  <2> QED
    BY <1>0, <2>2, <2>3, PutMsg
<1>3. ASSUME Dispatch \/ RemoteError
      PROVE  QueuesOK'
  <2> DEFINE m == Head(fromClient)
  <2>1. /\ fromClient # <<>> /\ fromClient' = Tail(fromClient) /\ UNCHANGED toClient
        /\ handled' = [handled EXCEPT ![m.from] = Append(@, [n |-> m.n, via |-> m.via])]
    BY <1>3, Zenon DEF Dispatch, RemoteError
  <2>2. m \in Msg
    BY <1>0, <2>1, HeadMsg
  <2> QED
    BY <1>0, <2>1, <2>2, TakeMsg
<1>4. ASSUME Write
      PROVE  QueuesOK'
  <2>1. toClient # <<>> /\ toClient' = Tail(toClient) /\ UNCHANGED <<fromClient, handled>>
    BY <1>4, Zenon DEF Write
  <2>2. Tail(toClient) \in Seq(Reply) /\ Len(Tail(toClient)) <= SendQ
    BY <1>0, <2>1, SessionsAssumption DEF QueuesOK
  <2> QED
    BY <1>0, <2>1, <2>2 DEF QueuesOK
<1>5. ASSUME NEW g \in Goroutine, Answer(g)
      PROVE  QueuesOK'
  <2>1. \E kind \in {"ERROR", "PONG"} : Post(<<job[g].msg.from>>, kind)
    BY <1>5, Zenon DEF Answer
  <2>2. job[g].pc = "run" /\ UNCHANGED <<fromClient, handled>>
    BY <1>5, Zenon DEF Answer, At, Rest
  <2>3. job[g].msg.from \in Client
    BY <1>0, <2>2 DEF JobsOK, JobShape, Msg
  <2> QED
    BY <1>0, <2>1, <2>2, <2>3, OneRecipient, PutReply
<1>8. ASSUME NEW g \in Goroutine, PrivmsgName(g)
      PROVE  QueuesOK'
  <2>1. Post(<<job[g].msg.from>>, "NUMERIC") \/ UNCHANGED toClient
    BY <1>8, Zenon DEF PrivmsgName
  <2>2. job[g].pc = "run" /\ UNCHANGED <<fromClient, handled>>
    BY <1>8, Zenon DEF PrivmsgName, At, Rest
  <2>3. job[g].msg.from \in Client
    BY <1>0, <2>2 DEF JobsOK, JobShape, Msg
  <2>4. CASE UNCHANGED toClient
    BY <1>0, <2>2, <2>4 DEF QueuesOK
  <2> QED
    BY <1>0, <2>1, <2>2, <2>3, <2>4, OneRecipient, PutReply
<1>9. ASSUME NEW g \in Goroutine, PrivmsgSend(g)
      PROVE  QueuesOK'
  <2>1. (job[g].local # <<>> /\ Post(job[g].local, "PRIVMSG")) \/ UNCHANGED toClient
    BY <1>9, Zenon DEF PrivmsgSend
  <2>2. job[g].pc = "run" /\ UNCHANGED <<fromClient, handled>>
    BY <1>9, Zenon DEF PrivmsgSend, At, Rest
  <2>3. job[g].local \in Seq(Client)
    BY <1>0 DEF JobsOK, JobRec
  <2>4. CASE UNCHANGED toClient
    BY <1>0, <2>2, <2>4 DEF QueuesOK
  <2> QED
    BY <1>0, <2>1, <2>2, <2>3, <2>4, PutReply
<1>6. ASSUME NEW g \in Goroutine, ConnRegReply(g)
      PROVE  QueuesOK'
  <2>1. \E kind \in {"WELCOME", "NUMERIC"} : Post(<<job[g].msg.from>>, kind)
    BY <1>6, Zenon DEF ConnRegReply
  <2>2. job[g].pc \in {"signon", "error"} /\ UNCHANGED <<fromClient, handled>>
    BY <1>6, Zenon DEF ConnRegReply, Rest
  <2>3. job[g].msg.from \in Client
    BY <1>0, <2>2 DEF JobsOK, JobShape, Msg
  <2> QED
    BY <1>0, <2>1, <2>2, <2>3, OneRecipient, PutReply
<1>7. CASE UNCHANGED <<fromClient, toClient, handled>>
  BY <1>0, <1>7 DEF QueuesOK
<1> QED
  BY <1>1, <1>2, <1>3, <1>4, <1>5, <1>6, <1>7, <1>8, <1>9, QueuesMove

LEMMA JobsMove ==
    ASSUME Next
    PROVE  Dispatch \/ (\E g \in Goroutine : Hook(g)) \/ UNCHANGED <<job, held, setting>>
<1>1. ASSUME NEW c \in Client, Delete(c) \/ GetUser(c)
      PROVE  UNCHANGED <<held, setting>>
  BY <1>1, Zenon DEF Delete, GetUser, Users!Delete, Users!TouchUser, registry
<1>2. ASSUME NEW c \in Client,
             \/ PeerLeaves(c) \/ ReadLine(c) \/ ReadError(c) \/ SendDirect(c) \/ Incoming(c)
             \/ AdoptClose(c)
      PROVE  UNCHANGED <<job, held, setting>>
  BY <1>2, Zenon DEF PeerLeaves, AdoptClose, ReadLine, ReadError, SendDirect, Incoming, Accept, SubscribeStop,
                     Collect, Stop, Leave, Flush, registry
<1>3. ASSUME NEW c \in Client, Adopt(c) \/ Closing(c)
      PROVE  UNCHANGED <<job, held, setting>>
  BY <1>1, <1>3, Zenon DEF Adopt, Closing
<1>4. ASSUME NEW c, Delete(c)
      PROVE  UNCHANGED <<held, setting>>
  BY <1>4, Zenon DEF Delete, Users!Delete, registry
<1>5. ASSUME RemoteError \/ Write \/ WriteFails \/ WriteToNil
      PROVE  UNCHANGED <<job, held, setting>>
  BY <1>4, <1>5, Zenon DEF RemoteError, Write, WriteFails, WriteToNil, registry
<1> QED
  BY <1>2, <1>3, <1>5, Zenon DEF Next, Loop

\* A goroutine goes to r; what the others hold stays.
LEMMA JobSet ==
    ASSUME JobsOK, NEW g \in Goroutine, NEW r \in JobRec, job' = [job EXCEPT ![g] = r],
           held \in [Goroutine -> Ptr \cup {NoPtr}], setting \in [Goroutine -> UserName \cup {NoUser}],
           \A h \in Goroutine : h # g => held'[h] = held[h] /\ setting'[h] = setting[h],
           r.pc # "idle" => r.msg \in Msg /\ Fits(r.msg),
           r.pc \in {"idle", "get", "run"} => held'[g] = NoPtr /\ setting'[g] = NoUser,
           r.pc \in {"set", "info", "signon", "error"} => held'[g] # NoPtr /\ setting'[g] = NoUser,
           r.pc = "store" => setting'[g] # NoUser,
           r.pc \in {"get", "set", "store", "info", "signon", "error"} =>
             r.msg.cmd \in {"NICK", "USER"} \cup OfServers
    PROVE  JobsOK'
<1>1. job' \in [Goroutine -> JobRec]
  BY DEF JobsOK
<1>2. JobShape(g)'
  BY DEF JobsOK, JobShape
<1>3. \A h \in Goroutine : h # g => JobShape(h)'
  BY DEF JobsOK, JobShape
<1> QED
  BY <1>1, <1>2, <1>3 DEF JobsOK

LEMMA IdleIsJob == Idle \in JobRec /\ Idle.pc = "idle"
BY DEF Idle, JobRec, NoMsg

\* A goroutine goes on with its hook, or ends it.
LEMMA JobGoes ==
    ASSUME JobsOK, NEW g \in Goroutine, job[g].pc # "idle",
           NEW pc \in {"set", "store", "info", "signon", "error"},
           Goto(g, pc), job[g].msg.cmd \in {"NICK", "USER"} \cup OfServers,
           held \in [Goroutine -> Ptr \cup {NoPtr}], setting \in [Goroutine -> UserName \cup {NoUser}],
           \A h \in Goroutine : h # g => held'[h] = held[h] /\ setting'[h] = setting[h],
           pc # "store" => held'[g] # NoPtr /\ setting'[g] = NoUser,
           pc = "store" => setting'[g] # NoUser
    PROVE  JobsOK'
<1> DEFINE r == [pc |-> pc, msg |-> job[g].msg, local |-> job[g].local]
<1>1. job[g] \in JobRec /\ job[g].msg \in Msg /\ Fits(job[g].msg)
  BY DEF JobsOK, JobShape
<1>2. r \in JobRec /\ r.pc = pc /\ r.msg = job[g].msg
  BY <1>1 DEF JobRec
<1>3. [job[g] EXCEPT !.pc = pc] = r
  BY <1>1 DEF JobRec
<1>4. job' = [job EXCEPT ![g] = r]
  BY <1>3 DEF Goto, JobsOK
<1> HIDE DEF r
<1> QED
  BY <1>1, <1>2, <1>4, JobSet

LEMMA JobEnds ==
    ASSUME JobsOK, NEW g \in Goroutine, job' = [job EXCEPT ![g] = Idle],
           held \in [Goroutine -> Ptr \cup {NoPtr}], setting \in [Goroutine -> UserName \cup {NoUser}],
           \A h \in Goroutine : h # g => held'[h] = held[h] /\ setting'[h] = setting[h],
           held'[g] = NoPtr, setting'[g] = NoUser
    PROVE  JobsOK'
BY IdleIsJob, JobSet

LEMMA JobsStep ==
    ASSUME TInv, Next
    PROVE  JobsOK'
<1>0. QueuesOK /\ JobsOK /\ Facts!NInv
  BY DEF TInv
<1>1. /\ held \in [Goroutine -> Ptr \cup {NoPtr}]
      /\ setting \in [Goroutine -> UserName \cup {NoUser}]
      /\ \A g \in Goroutine : setting[g] # NoUser => held[g] # NoPtr
  BY <1>0, TableTypes, Zenon
<1>2. NoPtr \notin Ptr /\ NoUser \notin UserName
  BY SessionsAssumption
<1>3. ASSUME Dispatch
      PROVE  JobsOK'
  <2> DEFINE m == Head(fromClient)
             registered == Users!Live(m.from) /\ heap[userMap[m.from]].registered
             r == [pc |-> IF registered THEN "run" ELSE "get", msg |-> m, local |-> <<>>]
  <2>1. UNCHANGED <<held, setting>>
    BY <1>3, Zenon DEF Dispatch, GetUser, Users!TouchUser
  <2>2. m \in Msg /\ Fits(m)
    BY <1>0, <1>3, HeadMsg DEF Dispatch
  <2>3. CASE UNCHANGED job
    BY <1>0, <2>1, <2>3 DEF JobsOK, JobShape
  <2>4. CASE ~UNCHANGED job
    <3>1. HasHook(m.cmd, registered) /\ \E g \in Goroutine : job[g] = Idle /\ job' = [job EXCEPT ![g] = r]
      BY <1>3, <2>4, Zenon DEF Dispatch
    <3>2. PICK g \in Goroutine : job[g] = Idle /\ job' = [job EXCEPT ![g] = r]
      BY <3>1
    <3>3. ~registered => m.cmd \in {"NICK", "USER"} \cup OfServers
      BY <3>1 DEF HasHook
    <3> HIDE DEF m, registered
    <3>4. held[g] = NoPtr /\ setting[g] = NoUser
      BY <1>0, <3>2, IdleIsJob DEF JobsOK, JobShape
    <3>5. r \in JobRec /\ r.msg = m /\ r.pc \in {"run", "get"} /\ (r.pc = "get" => ~registered)
      BY <2>2 DEF JobRec
    <3> HIDE DEF r
    <3> QED
      BY <1>0, <1>1, <2>1, <2>2, <3>2, <3>3, <3>4, <3>5, JobSet
  <2> QED
    BY <2>3, <2>4
<1>4. ASSUME NEW g \in Goroutine, ArgsPanic(g)
      PROVE  JobsOK'
  <2>1. UNCHANGED <<job, held, setting>>
    BY <1>4, Zenon DEF ArgsPanic, registry
  <2> QED
    BY <1>0, <2>1 DEF JobsOK, JobShape
<1>5. ASSUME NEW g \in Goroutine, Answer(g)
      PROVE  JobsOK'
  <2>1. job' = [job EXCEPT ![g] = Idle] /\ UNCHANGED <<held, setting>> /\ job[g].pc = "run"
    BY <1>5, Zenon DEF Answer, At, registry
  <2>2. held[g] = NoPtr /\ setting[g] = NoUser
    BY <1>0, <2>1 DEF JobsOK, JobShape
  <2> QED
    BY <1>0, <1>1, <2>1, <2>2, JobEnds
<1>6. ASSUME NEW g \in Goroutine, ConnRegGet(g)
      PROVE  JobsOK'
  <2>1. /\ \E pc \in {"set", "info"} : Goto(g, pc)
        /\ job[g].pc = "get" /\ job[g].msg.cmd \in {"NICK", "USER"} \cup OfServers /\ UNCHANGED setting
    BY <1>6, Zenon DEF ConnRegGet, At, Users!BeginConnReg
  <2>2. PICK p \in Ptr : held' = [held EXCEPT ![g] = p]
    BY <1>6, Zenon DEF ConnRegGet, Users!BeginConnReg
  <2>3. setting[g] = NoUser
    BY <1>0, <2>1 DEF JobsOK, JobShape
  <2> QED
    BY <1>0, <1>1, <1>2, <2>1, <2>2, <2>3, JobGoes
<1>7. ASSUME NEW g \in Goroutine, ConnRegNick(g)
      PROVE  JobsOK'
  <2>1. /\ \E pc \in {"info", "error"} : Goto(g, pc)
        /\ job[g].pc = "set" /\ job[g].msg.cmd \in {"NICK"} /\ UNCHANGED <<held, setting>>
    BY <1>7, Zenon DEF ConnRegNick, At, Users!SetNick, registry
  <2>2. held[g] # NoPtr /\ setting[g] = NoUser
    BY <1>0, <2>1 DEF JobsOK, JobShape
  <2> QED
    BY <1>0, <1>1, <2>1, <2>2, JobGoes
<1>8. ASSUME NEW g \in Goroutine, ConnRegUser(g)
      PROVE  JobsOK'
  <2>1. job[g].pc = "set" /\ job[g].msg.cmd \in {"USER"} /\ HasArg(g)
    BY <1>8, Zenon DEF ConnRegUser, At
  <2>2. held[g] # NoPtr /\ setting[g] = NoUser
    BY <1>0, <2>1 DEF JobsOK, JobShape
  <2>3. CASE heap[held[g]].user = NoUser /\ job[g].msg.arg # NoUser
    <3>1. setting' = [setting EXCEPT ![g] = job[g].msg.arg] /\ UNCHANGED held /\ Goto(g, "store")
      BY <1>8, <2>3, Zenon DEF ConnRegUser, Users!CheckUser
    <3> QED
      BY <1>0, <1>1, <2>1, <2>2, <2>3, <3>1, JobGoes
  <2>4. CASE ~(heap[held[g]].user = NoUser /\ job[g].msg.arg # NoUser)
    <3>1. UNCHANGED <<held, setting>> /\ Goto(g, "error")
      BY <1>8, <2>4, Zenon DEF ConnRegUser, registry
    <3> QED
      BY <1>0, <1>1, <2>1, <2>2, <3>1, JobGoes
  <2> QED
    BY <2>3, <2>4
<1>9. ASSUME NEW g \in Goroutine, ConnRegStore(g)
      PROVE  JobsOK'
  <2>1. /\ job[g].pc = "store" /\ job[g].msg.cmd \in {"USER"} /\ Goto(g, "info")
        /\ setting[g] # NoUser /\ setting' = [setting EXCEPT ![g] = NoUser] /\ UNCHANGED held
    BY <1>9, Zenon DEF ConnRegStore, At, Users!StoreUser
  <2> QED
    BY <1>0, <1>1, <2>1, JobGoes
<1>10. ASSUME NEW g \in Goroutine, Users!EndConnReg(g), job' = [job EXCEPT ![g] = Idle]
       PROVE  JobsOK'
  <2>1. setting[g] = NoUser /\ held' = [held EXCEPT ![g] = NoPtr] /\ UNCHANGED setting
    BY <1>10, Zenon DEF Users!EndConnReg
  <2> QED
    BY <1>0, <1>1, <1>10, <2>1, JobEnds
<1>11. ASSUME NEW g \in Goroutine, ConnRegInfo(g)
       PROVE  JobsOK'
  <2>1. job[g].pc = "info" /\ job[g].msg.cmd \in {"NICK", "USER"} \cup OfServers
    BY <1>0, <1>11 DEF ConnRegInfo, JobsOK, JobShape
  <2>2. \/ Goto(g, "signon") /\ UNCHANGED <<held, setting>>
        \/ job' = [job EXCEPT ![g] = Idle] /\ Users!EndConnReg(g)
    BY <1>11, Zenon DEF ConnRegInfo, Users!SetType, registry
  <2>3. held[g] # NoPtr /\ setting[g] = NoUser
    BY <1>0, <2>1 DEF JobsOK, JobShape
  <2>4. CASE Goto(g, "signon") /\ UNCHANGED <<held, setting>>
    BY <1>0, <1>1, <2>1, <2>3, <2>4, JobGoes
  <2> QED
    BY <1>10, <2>2, <2>4
<1>12. ASSUME NEW g \in Goroutine, ConnRegReply(g)
       PROVE  JobsOK'
  BY <1>10, <1>12, Zenon DEF ConnRegReply
<1>14. ASSUME NEW g \in Goroutine, PrivmsgName(g)
       PROVE  JobsOK'
  <2> DEFINE m == job[g].msg
             id == Recipient(Head(m.arg))
             r == [pc |-> "run", msg |-> [m EXCEPT !.arg = Tail(@)],
                   local |-> IF id = NoID THEN job[g].local ELSE Append(job[g].local, id)]
  <2>1. /\ job[g].pc = "run" /\ m.cmd \in {"PRIVMSG", "NOTICE"} /\ HasArg(g) /\ m.arg # <<>>
        /\ UNCHANGED <<held, setting>>
        /\ job' = [job EXCEPT ![g] = r]
    BY <1>14, Zenon DEF PrivmsgName, At, registry
  <2>2. held[g] = NoPtr /\ setting[g] = NoUser /\ job[g] \in JobRec /\ m \in Msg /\ Fits(m)
    BY <1>0, <2>1 DEF JobsOK, JobShape
  <2>3. m.arg \in Seq(Name)
    BY <2>1, <2>2 DEF Fits, HasArg
  <2>4. Head(m.arg) \in Name /\ Tail(m.arg) \in Seq(Name)
    BY <2>1, <2>3
  <2>5. [m EXCEPT !.arg = Tail(@)] \in Msg /\ Fits([m EXCEPT !.arg = Tail(@)])
    BY <2>1, <2>2, <2>4 DEF Msg, Fits
  <2>6. r.local \in Seq(Client)
    <3>1. job[g].local \in Seq(Client)
      BY <2>2 DEF JobRec
    <3>2. id # NoID => id \in Client
      BY <1>0, <2>4, FoundRecipient
    <3> HIDE DEF id
    <3> QED
      BY <3>1, <3>2
  <2>7. r \in JobRec /\ r.pc = "run" /\ r.msg \in Msg /\ Fits(r.msg)
    BY <2>5, <2>6 DEF JobRec
  <2> HIDE DEF r, m
  <2> QED
    BY <1>0, <1>1, <2>1, <2>2, <2>7, JobSet
<1>15. ASSUME NEW g \in Goroutine, PrivmsgSend(g)
       PROVE  JobsOK'
  <2>1. job' = [job EXCEPT ![g] = Idle] /\ UNCHANGED <<held, setting>> /\ job[g].pc = "run"
    BY <1>15, Zenon DEF PrivmsgSend, At, registry
  <2>2. held[g] = NoPtr /\ setting[g] = NoUser
    BY <1>0, <2>1 DEF JobsOK, JobShape
  <2> QED
    BY <1>0, <1>1, <2>1, <2>2, JobEnds
<1>13. CASE UNCHANGED <<job, held, setting>>
  BY <1>0, <1>13 DEF JobsOK, JobShape
<1> QED
  BY <1>3, <1>4, <1>5, <1>6, <1>7, <1>8, <1>9, <1>11, <1>12, <1>13, <1>14, <1>15,
     JobsMove DEF Hook

-----------------------------------------------------------------------------

LEMMA InitTInv == Init => TInv
<1> SUFFICES ASSUME Init PROVE TInv
  OBVIOUS
<1>1. Facts!NInv
  <2>1. Users!Init => Facts!Init
    BY SameFolding, SameRecords, Zenon DEF Users!Init, Facts!Init
  <2> QED
    BY <2>1, SessionsAssumption, SameRecords, Facts!InitNInv DEF Facts!RegistryAssumption, Init
<1>2. held = [g \in Goroutine |-> NoPtr] /\ setting = [g \in Goroutine |-> NoUser]
  BY Zenon DEF Init, Users!Init
<1>3. ReadersOK
  BY DEF Init, ReadersOK, ConnRec, ReaderRec, ReaderAt, Sending
<1>4. ManageOK
  BY DEF Init, ManageOK, ManageRec, QueuedOK
<1>5. QueuesOK
  BY SessionsAssumption DEF Init, QueuesOK
<1>6. JobsOK
  BY <1>2, IdleIsJob DEF Init, JobsOK, JobShape
<1>7. mode \in {"up", "adopting", "hung", "crashed"}
  BY DEF Init
<1> QED
  BY <1>1, <1>3, <1>4, <1>5, <1>6, <1>7 DEF TInv

LEMMA ModeStep ==
    ASSUME Next
    PROVE  mode' \in {mode, "up", "adopting", "hung", "crashed"}
<1>1. ASSUME NEW c \in Client,
             \/ PeerLeaves(c) \/ ReadError(c) \/ SendDirect(c) \/ Incoming(c) \/ Closing(c)
      PROVE  UNCHANGED mode
  BY <1>1, Zenon DEF PeerLeaves, ReadError, SendDirect, Incoming, Accept, SubscribeStop, Collect, Stop,
                     Leave, Flush, Closing
<1>2. ASSUME NEW c \in Client, ReadLine(c) \/ Adopt(c) \/ AdoptClose(c)
      PROVE  mode' \in {mode, "up", "adopting", "crashed"}
  BY <1>2, Zenon DEF ReadLine, Adopt, AdoptClose
<1>3. ASSUME Loop
      PROVE  mode' \in {mode, "hung", "crashed"}
  BY <1>3, Zenon DEF Loop, Dispatch, RemoteError, Write, WriteFails, WriteToNil
<1>4. ASSUME NEW g \in Goroutine, Hook(g)
      PROVE  mode' \in {mode, "crashed"}
  BY <1>4, Zenon DEF Hook, ArgsPanic, Answer, PrivmsgName, PrivmsgSend, ConnRegGet, ConnRegNick,
                     ConnRegUser, ConnRegStore, ConnRegInfo, ConnRegReply
<1> QED
  BY <1>1, <1>2, <1>3, <1>4, Zenon DEF Next

LEMMA NextTInv == TInv /\ [Next]_vars => TInv'
<1> SUFFICES ASSUME TInv, [Next]_vars PROVE TInv'
  OBVIOUS
<1>1. CASE Next
  <2>1. Facts!NInv'
    BY <1>1, RegistryStep
  <2>2. ReadersOK' /\ ManageOK'
    BY <1>1, ReadersStep, ManageStep DEF TInv
  <2>3. QueuesOK' /\ JobsOK'
    BY <1>1, QueuesStep, JobsStep
  <2>4. mode' \in {"up", "adopting", "hung", "crashed"}
    BY <1>1, ModeStep DEF TInv
  <2> QED
    BY <2>1, <2>2, <2>3, <2>4 DEF TInv
<1>2. CASE UNCHANGED vars
  <2>1. Facts!NInv'
    BY <1>2, SessionsAssumption, SameRecords, Facts!NextNInv
       DEF TInv, Facts!RegistryAssumption, vars, registry, Facts!vars
  <2>2. UNCHANGED <<conn, reader, lines, uid2conn, manage, fromClient, toClient, handled, job, held, setting, mode>>
    BY <1>2, Zenon DEF vars, registry
  <2>3. ReadersOK' /\ ManageOK' /\ QueuesOK' /\ JobsOK'
    BY <2>2 DEF TInv, ReadersOK, Sending, ManageOK, QueuedOK, QueuesOK, JobsOK, JobShape
  <2> QED
    BY <2>1, <2>2, <2>3 DEF TInv
<1> QED
  BY <1>1, <1>2

LEMMA Invariance == Spec => []TInv
<1>1. Init => TInv
  BY InitTInv
<1>2. TInv /\ [Next]_vars => TInv'
  BY NextTInv
<1> QED
  BY <1>1, <1>2, PTL DEF Spec

\* Type correctness, the capacities of the channels included; and a record that is
\* signed on is complete.
THEOREM TypeCorrect == Spec => []TypeOK
<1>1. TInv /\ Users!SignedOnNamed => TypeOK
  <2> SUFFICES ASSUME TInv, Users!SignedOnNamed PROVE TypeOK
    OBVIOUS
  <2>1. Users!TypeOK
    BY TableTypes, SameRecords DEF TInv, Users!Types, Users!TypeOK
  <2>2. /\ \A c \in Client :
             /\ conn[c].subscribers \subseteq {"inc", "fromClient"}
             /\ conn[c].onclose \subseteq {"stop", "clientClosing"}
             /\ reader[c].pc \in {"off", "reading", "inc", "fromClient", "stop", "clientClosing", "done"}
        /\ uid2conn \in [Client -> {"none", "conn", "nil"}]
    BY DEF TInv, ReadersOK, ConnRec, ReaderRec
  <2>3. \A c \in Client : manage[c].pc \in {"off", "subscribing", "collecting", "leaving",
                                              "offering", "flushing", "done"}
    BY DEF TInv, ManageOK, ManageRec
  <2>4. /\ Len(fromClient) <= SendQ /\ Len(toClient) <= SendQ
        /\ \A i \in DOMAIN toClient : toClient[i].to \in Seq(Client) \ {<<>>}
    <3>1. toClient \in Seq(Reply) /\ Len(fromClient) <= SendQ /\ Len(toClient) <= SendQ
      BY DEF TInv, QueuesOK
    <3>2. \A i \in DOMAIN toClient : toClient[i] \in Reply
      BY <3>1
    <3> QED
      BY <3>1, <3>2 DEF Reply
  <2>5. mode \in {"up", "adopting", "hung", "crashed"}
    BY DEF TInv
  <2> QED
    BY <2>1, <2>2, <2>3, <2>4, <2>5 DEF TypeOK
<1>2. Init => Users!SignedOnNamed
  BY SameRecords DEF Init, Users!Init, Users!SignedOnNamed, Users!NewUser
<1>3. TInv /\ Users!SignedOnNamed /\ [Next]_vars => Users!SignedOnNamed'
  <2> SUFFICES ASSUME TInv, Users!SignedOnNamed, [Next]_vars PROVE Users!SignedOnNamed'
    OBVIOUS
  <2>1. Users!SignedOnNamed <=> Facts!SignedOnNamed
    BY SameRecords DEF Users!SignedOnNamed, Facts!SignedOnNamed
  <2>2. Users!SignedOnNamed' <=> Facts!SignedOnNamed'
    BY SameRecords DEF Users!SignedOnNamed, Facts!SignedOnNamed
  <2>3. [Facts!Next]_(Facts!vars)
    BY RegistryMoves, SameRegistry, Zenon DEF TInv, vars, registry, Facts!vars
  <2>4. Facts!IInv
    BY DEF TInv, Facts!NInv
  <2> QED
    BY <2>1, <2>2, <2>3, <2>4, SessionsAssumption, SameRecords, Facts!SignedOnNamedStep
       DEF Facts!RegistryAssumption
<1> QED
  BY <1>1, <1>2, <1>3, Invariance, PTL DEF Spec

-----------------------------------------------------------------------------
(* Records and connections go together. *)

\* A record goes with Delete only, and GetUser leaves one.
LEMMA RecordKept ==
    ASSUME TInv, Next, NEW c \in Client, Users!Live(c)
    PROVE  \/ Users!Live(c)'
           \/ Closing(c) /\ uid2conn' = [uid2conn EXCEPT ![c] = "nil"]
           \/ RemoteError /\ Head(fromClient).from = c
           \/ Write /\ Head(toClient).to[1] = c /\ Release(c)
<1>0. QueuesOK /\ Facts!NInv /\ userMap \in [Client -> Ptr \cup {NoPtr}] /\ NoPtr \notin Ptr
  BY TableTypes, SessionsAssumption DEF TInv
<1>1. ASSUME NEW d \in Client, NEW p \in Ptr, Users!GetUser(d, p)
      PROVE  Users!Live(c)' /\ Users!Live(d)'
  <2>1. (UNCHANGED userMap /\ p = userMap[d]) \/ userMap' = [userMap EXCEPT ![d] = p]
    BY <1>1, Zenon DEF Users!GetUser
  <2> QED
    BY <1>0, <2>1 DEF Users!Live
<1>2. ASSUME UNCHANGED userMap
      PROVE  Users!Live(c)'
  BY <1>2 DEF Users!Live
<1>3. ASSUME NEW d \in Client, Delete(d), d # c
      PROVE  Users!Live(c)'
  <2>1. UNCHANGED userMap \/ userMap' = [userMap EXCEPT ![d] = NoPtr]
    BY <1>3, Zenon DEF Delete, Users!Delete, registry
  <2> QED
    BY <1>0, <1>3, <2>1 DEF Users!Live
<1>4. ASSUME NEW d \in Client, PeerLeaves(d) \/ ReadLine(d) \/ ReadError(d) \/ SendDirect(d) \/ Incoming(d)
                               \/ AdoptClose(d)
      PROVE  UNCHANGED userMap
  BY <1>4, Zenon DEF PeerLeaves, AdoptClose, ReadLine, ReadError, SendDirect, Incoming, Accept, SubscribeStop,
                     Collect, Stop, Leave, Flush, registry
<1>5. ASSUME NEW d \in Client, Adopt(d)
      PROVE  Users!Live(c)'
  BY <1>1, <1>5, Zenon DEF Adopt, GetUser, Users!TouchUser
<1>6. ASSUME NEW d \in Client, Closing(d)
      PROVE  Users!Live(c)' \/ (d = c /\ Closing(c) /\ uid2conn' = [uid2conn EXCEPT ![c] = "nil"])
  BY <1>3, <1>6, Zenon DEF Closing
<1>7. ASSUME Dispatch
      PROVE  Users!Live(c)'
  BY <1>0, <1>1, <1>7, HeadMsg, Zenon DEF Dispatch, GetUser, Users!TouchUser
<1>8. ASSUME RemoteError, Head(fromClient).from # c
      PROVE  Users!Live(c)'
  BY <1>0, <1>3, <1>8, HeadMsg, Zenon DEF RemoteError
<1>9. ASSUME Write
      PROVE  Users!Live(c)' \/ (Head(toClient).to[1] = c /\ Release(c))
  <2>1. /\ toClient # <<>>
        /\ \/ Delete(Head(toClient).to[1]) /\ Release(Head(toClient).to[1])
           \/ UNCHANGED userMap
    BY <1>9, Zenon DEF Write, registry
  <2> QED
    BY <1>0, <1>2, <1>3, <2>1, HeadReply, Zenon
<1>10. ASSUME WriteFails \/ WriteToNil
       PROVE  UNCHANGED userMap
  BY <1>10, Zenon DEF WriteFails, WriteToNil, registry
<1>11. ASSUME NEW g \in Goroutine, ConnRegGet(g)
       PROVE  Users!Live(c)'
  <2>1. job[g].msg.from \in Client
    BY <1>11 DEF ConnRegGet, At, TInv, JobsOK, JobShape, Msg
  <2> QED
    BY <1>1, <1>11, <2>1, Zenon DEF ConnRegGet, Users!BeginConnReg
<1>12. ASSUME NEW g \in Goroutine, Hook(g)
       PROVE  ConnRegGet(g) \/ UNCHANGED userMap
  BY <1>12, Zenon DEF Hook, ArgsPanic, Answer, PrivmsgName, PrivmsgSend, ConnRegNick, ConnRegUser, ConnRegStore, ConnRegInfo,
                      ConnRegReply, registry, Users!SetNick, Users!CheckUser, Users!StoreUser,
                      Users!SetType, Users!EndConnReg
<1> QED
  BY <1>2, <1>4, <1>5, <1>6, <1>7, <1>8, <1>9, <1>10, <1>11, <1>12, Zenon DEF Next, Loop

LEMMA ConnectedStep ==
    ASSUME TInv, ConnectedHasRecord, Next
    PROVE  ConnectedHasRecord'
<1>0. ReadersOK /\ QueuesOK /\ uid2conn \in [Client -> {"none", "conn", "nil"}]
  BY DEF TInv, ReadersOK
<1>1. SUFFICES ASSUME NEW c \in Client, uid2conn'[c] = "conn"
               PROVE  Users!Live(c)'
  BY DEF ConnectedHasRecord
<1>2. CASE uid2conn[c] # "conn"
  <2>1. ASSUME NEW d \in Client, Release(d) \/ Closing(d)
        PROVE  uid2conn' = [uid2conn EXCEPT ![d] = "nil"]
    BY <2>1, Zenon DEF Release, Closing
  <2>2. ASSUME NEW d \in Client, Release(d) \/ Closing(d)
        PROVE  uid2conn'[c] # "conn"
    BY <1>0, <1>2, <2>1, <2>2
  <2>3. ~UNCHANGED uid2conn
    BY <1>1, <1>2
  <2>4. ASSUME NEW d \in Client, Adopt(d)
        PROVE  Users!Live(c)'
    <3>1. uid2conn' = [uid2conn EXCEPT ![d] = "conn"]
      BY <2>4, Zenon DEF Adopt
    <3>2. c = d
      BY <1>0, <1>1, <1>2, <3>1
    <3>3. PICK p \in Ptr : Users!GetUser(c, p)
      BY <2>4, <3>2, Zenon DEF Adopt, GetUser, Users!TouchUser
    <3>4. (p = userMap[c] /\ UNCHANGED userMap) \/ userMap' = [userMap EXCEPT ![c] = p]
      BY <3>3, Zenon DEF Users!GetUser
    <3>5. userMap \in [Client -> Ptr \cup {NoPtr}] /\ NoPtr \notin Ptr
      BY TableTypes, SessionsAssumption DEF TInv
    <3> QED
      BY <3>4, <3>5 DEF Users!Live
  <2>5. ASSUME NEW d \in Client,
               \/ PeerLeaves(d) \/ ReadLine(d) \/ ReadError(d) \/ SendDirect(d) \/ Accept(d)
               \/ SubscribeStop(d) \/ Collect(d) \/ Stop(d) \/ Leave(d) \/ AdoptClose(d)
        PROVE  UNCHANGED uid2conn
    BY <2>5, Zenon DEF PeerLeaves, ReadLine, ReadError, SendDirect, Accept, SubscribeStop, Collect,
                       Stop, Leave, AdoptClose
  <2>6. ASSUME RemoteError \/ Write
        PROVE  UNCHANGED uid2conn \/ \E d \in Client : Release(d)
    BY <1>0, <2>6, HeadMsg, HeadReply, Zenon DEF RemoteError, Write
  <2>7. UNCHANGED readers => UNCHANGED uid2conn
    BY Zenon DEF readers
  <2>8. CASE RemoteError \/ Write
    BY <2>2, <2>3, <2>6, <2>8, <1>1
  <2>9. CASE \E d \in Client : Adopt(d) \/ Closing(d)
    BY <1>1, <2>2, <2>4, <2>9
  <2> QED
    BY <2>3, <2>5, <2>7, <2>8, <2>9, ReadersMove, Zenon
<1>3. CASE uid2conn[c] = "conn"
  <2>1. Users!Live(c)
    BY <1>3 DEF ConnectedHasRecord
  <2>2. uid2conn' # [uid2conn EXCEPT ![c] = "nil"]
    BY <1>0, <1>1
  <2>3. ~Release(c)
    BY <2>2, Zenon DEF Release
  <2>4. ~(RemoteError /\ Head(fromClient).from = c)
    BY <1>3, <2>3, Zenon DEF RemoteError
  <2> QED
    BY <2>1, <2>2, <2>3, <2>4, RecordKept
<1> QED
  BY <1>2, <1>3

\* Who can be written to has a record: manageClients gives up both together.
THEOREM ConnectedHasRecordCorrect == Spec => []ConnectedHasRecord
<1>1. Init => ConnectedHasRecord
  BY DEF Init, ConnectedHasRecord
<1>2. TInv /\ ConnectedHasRecord /\ [Next]_vars => ConnectedHasRecord'
  <2>1. UNCHANGED vars /\ ConnectedHasRecord => ConnectedHasRecord'
    BY DEF vars, registry, ConnectedHasRecord, Users!Live
  <2> QED
    BY <2>1, ConnectedStep
<1> QED
  BY <1>1, <1>2, Invariance, PTL DEF Spec

-----------------------------------------------------------------------------
(* What manageClients can hang on. *)

\* Before the rendezvous with manageClients a connection has no entry, and
\* nobody tells clientClosing of it.
Unknown(c) ==
    manage[c].pc \in {"off", "subscribing", "collecting", "leaving", "offering"} =>
        /\ uid2conn[c] = "none"
        /\ "clientClosing" \notin conn[c].onclose /\ reader[c].pc # "clientClosing"

\* A socket this side has closed had lost its peer, or the loop has let it go,
\* or it was never handed over.
Closed(c) ==
    /\ ~conn[c].open => ~conn[c].peer \/ uid2conn[c] = "nil"
    /\ reader[c].pc = "stop" => ~(conn[c].open /\ conn[c].peer)

LossOK == (\A c \in Client : Unknown(c) /\ Closed(c)) /\ HangsOnlyOnLoss

LEMMA LossStep ==
    ASSUME TInv, LossOK, Next, NEW c \in Client
    PROVE  (Unknown(c) /\ Closed(c))'
<1>0. /\ conn \in [Client -> ConnRec] /\ reader \in [Client -> ReaderRec]
      /\ manage \in [Client -> ManageRec] /\ uid2conn \in [Client -> {"none", "conn", "nil"}]
      /\ \A d \in Client : Unknown(d) /\ Closed(d)
  BY DEF TInv, ReadersOK, ManageOK, LossOK
<1>1. CASE UNCHANGED <<conn, reader, manage, uid2conn>>
  BY <1>0, <1>1 DEF Unknown, Closed
<1>2. ASSUME NEW d \in Client, PeerLeaves(d)
      PROVE  (Unknown(c) /\ Closed(c))'
  <2>1. /\ conn' = [conn EXCEPT ![d].peer = FALSE]
        /\ UNCHANGED <<reader, uid2conn, manage>>
    BY <1>2, Zenon DEF PeerLeaves
  <2> QED
    BY <1>0, <2>1 DEF Unknown, Closed, ConnRec, ReaderRec, ManageRec, ReaderAt
<1>3. ASSUME NEW d \in Client, SendDirect(d)
      PROVE  (Unknown(c) /\ Closed(c))'
  <2>1. /\ reader' = [reader EXCEPT ![d] = ReaderAt("reading")]
        /\ UNCHANGED <<conn, uid2conn, manage>>
    BY <1>3, Zenon DEF SendDirect
  <2> QED
    BY <1>0, <2>1 DEF Unknown, Closed, ConnRec, ReaderRec, ManageRec, ReaderAt
<1>4. ASSUME NEW d \in Client, Accept(d)
      PROVE  (Unknown(c) /\ Closed(c))'
  <2>1. /\ conn' = [conn EXCEPT ![d].subscribers = {"inc"}]
        /\ reader' = [reader EXCEPT ![d].pc = "reading"]
        /\ manage' = [manage EXCEPT ![d].pc = "subscribing"]
        /\ manage[d].pc = "off"
        /\ UNCHANGED uid2conn
    BY <1>4, Zenon DEF Accept
  <2> QED
    BY <1>0, <2>1 DEF Unknown, Closed, ConnRec, ReaderRec, ManageRec, ReaderAt
<1>5. ASSUME NEW d \in Client, SubscribeStop(d)
      PROVE  (Unknown(c) /\ Closed(c))'
  <2>1. /\ conn' = [conn EXCEPT ![d].onclose = {"stop"}]
        /\ manage' = [manage EXCEPT ![d].pc = "collecting"]
        /\ manage[d].pc = "subscribing"
        /\ UNCHANGED <<reader, uid2conn>>
    BY <1>5, Zenon DEF SubscribeStop
  <2> QED
    BY <1>0, <2>1 DEF Unknown, Closed, ConnRec, ReaderRec, ManageRec, ReaderAt
<1>6. ASSUME NEW d \in Client, Stop(d)
      PROVE  (Unknown(c) /\ Closed(c))'
  <2>1. /\ conn' = [conn EXCEPT ![d].open = FALSE]
        /\ reader' = [reader EXCEPT ![d] = ReaderAt("done")]
        /\ manage' = [manage EXCEPT ![d] = [pc |-> "done", queued |-> <<>>]]
        /\ reader[d].pc = "stop"
        /\ UNCHANGED uid2conn
    BY <1>6, Zenon DEF Stop
  <2> QED
    BY <1>0, <2>1 DEF Unknown, Closed, ConnRec, ReaderRec, ManageRec, ReaderAt
<1>7. ASSUME NEW d \in Client, Leave(d)
      PROVE  (Unknown(c) /\ Closed(c))'
  <2>1. /\ conn' = [conn EXCEPT ![d].subscribers = {}, ![d].onclose = {}]
        /\ manage' = [manage EXCEPT ![d].pc = "offering"]
        /\ manage[d].pc = "leaving"
        /\ UNCHANGED <<reader, uid2conn>>
    BY <1>7, Zenon DEF Leave
  <2> QED
    BY <1>0, <2>1 DEF Unknown, Closed, ConnRec, ReaderRec, ManageRec, ReaderAt
<1>8. ASSUME NEW d \in Client, Adopt(d)
      PROVE  (Unknown(c) /\ Closed(c))'
  <2>1. /\ conn' = [conn EXCEPT ![d].subscribers = @ \cup {"fromClient"}]
        /\ manage' = [manage EXCEPT ![d].pc = "flushing"]
        /\ manage[d].pc = "offering"
        /\ uid2conn' = [uid2conn EXCEPT ![d] = "conn"]
        /\ UNCHANGED reader
    BY <1>8, Zenon DEF Adopt
  <2> QED
    BY <1>0, <2>1 DEF Unknown, Closed, ConnRec, ReaderRec, ManageRec, ReaderAt
<1>9. ASSUME NEW d \in Client, Closing(d)
      PROVE  (Unknown(c) /\ Closed(c))'
  <2>1. /\ conn' = [conn EXCEPT ![d].open = FALSE]
        /\ reader' = [reader EXCEPT ![d] = ReaderAt("done")]
        /\ uid2conn' = [uid2conn EXCEPT ![d] = "nil"]
        /\ reader[d].pc = "clientClosing"
        /\ UNCHANGED manage
    BY <1>9, Zenon DEF Closing
  <2> QED
    BY <1>0, <2>1 DEF Unknown, Closed, ConnRec, ReaderRec, ManageRec, ReaderAt
<1>10. ASSUME NEW d \in Client, Collect(d)
      PROVE  (Unknown(c) /\ Closed(c))'
  <2>1. /\ \E q : \E pc \in {"collecting", "leaving"} : manage' = [manage EXCEPT ![d] = [pc |-> pc, queued |-> q]]
        /\ reader' = [reader EXCEPT ![d] = ReaderAt("reading")]
        /\ manage[d].pc = "collecting" /\ UNCHANGED <<conn, uid2conn>>
    BY <1>10, Zenon DEF Collect
  <2> QED
    BY <1>0, <2>1 DEF Unknown, Closed, ReaderRec, ManageRec, ReaderAt
<1>11. ASSUME NEW d \in Client, Flush(d)
      PROVE  (Unknown(c) /\ Closed(c))'
  <2>1. /\ \E q : \E pc \in {"done", "flushing"} : manage' = [manage EXCEPT ![d] = [pc |-> pc, queued |-> q]]
        /\ manage[d].pc = "flushing" /\ UNCHANGED <<conn, reader, uid2conn>>
    BY <1>11, Zenon DEF Flush
  <2> QED
    BY <1>0, <2>1 DEF Unknown, Closed, ManageRec
<1>12. ASSUME NEW d \in Client, ReadLine(d)
      PROVE  (Unknown(c) /\ Closed(c))'
  <2>1. UNCHANGED <<conn, uid2conn, manage>>
    BY <1>12, Zenon DEF ReadLine
  <2>2. UNCHANGED reader \/ \E pc \in {"inc", "fromClient"}, m \in Msg : reader' = [reader EXCEPT ![d] = [pc |-> pc, msg |-> m]]
    BY <1>12, NextLine DEF TInv
  <2> QED
    BY <1>0, <2>1, <2>2 DEF Unknown, Closed, ReaderRec
<1>13. ASSUME NEW d \in Client, ReadError(d)
      PROVE  (Unknown(c) /\ Closed(c))'
  <2>1. UNCHANGED <<uid2conn, manage>> /\ ~(conn[d].open /\ conn[d].peer)
    BY <1>13, Zenon DEF ReadError
  <2>2. CASE conn[d].onclose = {}
    <3>1. reader' = [reader EXCEPT ![d] = ReaderAt("done")] /\ conn' = [conn EXCEPT ![d].open = FALSE]
      BY <1>13, <2>2, Zenon DEF ReadError
    <3> QED
      BY <1>0, <2>1, <3>1 DEF Unknown, Closed, ConnRec, ReaderRec, ReaderAt
  <2>3. CASE conn[d].onclose # {}
    <3>1. (CHOOSE ch \in conn[d].onclose : TRUE) \in conn[d].onclose
      BY <2>3, Choice
    <3>2. PICK ch \in conn[d].onclose : reader' = [reader EXCEPT ![d] = ReaderAt(ch)] /\ UNCHANGED conn
      BY <1>13, <2>3, <3>1, Zenon DEF ReadError
    <3> QED
      BY <1>0, <2>1, <3>2 DEF Unknown, Closed, ConnRec, ReaderRec, ReaderAt
  <2> QED
    BY <2>2, <2>3
<1>14. ASSUME RemoteError \/ Write, ~UNCHANGED <<conn, uid2conn>>
      PROVE  (Unknown(c) /\ Closed(c))'
  <2>1. PICK d \in Client : Release(d) /\ uid2conn[d] = "conn"
    BY <1>14, HeadMsg, HeadReply, Zenon DEF RemoteError, Write, Writable, TInv
  <2>2. /\ uid2conn' = [uid2conn EXCEPT ![d] = "nil"]
        /\ conn' = [conn EXCEPT ![d].onclose = @ \ {"clientClosing"}, ![d].open = FALSE]
    BY <2>1, Zenon DEF Release
  <2>3. UNCHANGED <<reader, manage>>
    BY <1>14, Zenon DEF RemoteError, Write
  <2> QED
    BY <1>0, <2>1, <2>2, <2>3 DEF Unknown, Closed, ConnRec
<1>18. ASSUME NEW d \in Client, AdoptClose(d)
      PROVE  (Unknown(c) /\ Closed(c))'
  <2>1. /\ conn' = [conn EXCEPT ![d].onclose = @ \cup {"clientClosing"}]
        /\ uid2conn[d] = "conn"
        /\ UNCHANGED <<reader, manage, uid2conn>>
    BY <1>18, Zenon DEF AdoptClose
  <2> QED
    BY <1>0, <2>1 DEF Unknown, Closed, ConnRec, ReaderRec, ManageRec, ReaderAt
<1>15. ASSUME RemoteError \/ Write, UNCHANGED <<conn, uid2conn>>
      PROVE  UNCHANGED <<conn, reader, manage, uid2conn>>
  BY <1>15, Zenon DEF RemoteError, Write
<1>16. ASSUME Dispatch \/ WriteFails \/ WriteToNil
      PROVE  UNCHANGED <<conn, reader, manage, uid2conn>>
  BY <1>16, Zenon DEF Dispatch, WriteFails, WriteToNil
<1>17. ASSUME NEW g \in Goroutine, Hook(g)
      PROVE  UNCHANGED <<conn, reader, manage, uid2conn>>
  BY <1>17, Zenon DEF Hook, ArgsPanic, Answer, PrivmsgName, PrivmsgSend, ConnRegGet, ConnRegNick,
                     ConnRegUser, ConnRegStore, ConnRegInfo, ConnRegReply, Rest
<1> QED
  BY <1>1, <1>2, <1>3, <1>4, <1>5, <1>6, <1>7, <1>8, <1>9, <1>10, <1>11, <1>12, <1>13, <1>14, <1>15, <1>16, <1>17, <1>18, Zenon
     DEF Next, Loop, Incoming

LEMMA HangStep ==
    ASSUME TInv, LossOK, Next
    PROVE  HangsOnlyOnLoss'
<1>1. \A c \in Client : ~conn[c].peer => ~conn'[c].peer
  <2>1. conn \in [Client -> ConnRec]
    BY DEF TInv, ReadersOK
  <2>2. (\E c \in Client : ConnMoves(c)) \/ UNCHANGED conn
    <3>1. RemoteError \/ Write => UNCHANGED conn \/ \E d \in Client : Release(d)
      BY HeadMsg, HeadReply, Zenon DEF RemoteError, Write, TInv
    <3>2. UNCHANGED readers => UNCHANGED conn
      BY Zenon DEF readers
    <3> QED
      BY <3>1, <3>2, ConnMove, ReadersMove, Zenon
  <2> QED
    BY <2>1, <2>2, ConnSet
<1>2. CASE mode = "hung"
  <2>1. \E c \in Client : ~conn[c].peer
    BY <1>2 DEF LossOK, HangsOnlyOnLoss
  <2> QED
    BY <1>1, <2>1 DEF HangsOnlyOnLoss
<1>3. CASE mode # "hung"
  <2>1. mode' = "hung" => WriteFails
    <3>1. ASSUME NEW c \in Client,
                 \/ PeerLeaves(c) \/ ReadError(c) \/ SendDirect(c) \/ Incoming(c) \/ Closing(c)
          PROVE  UNCHANGED mode
      BY <3>1, Zenon DEF PeerLeaves, ReadError, SendDirect, Incoming, Accept, SubscribeStop, Collect,
                         Stop, Leave, Flush, Closing
    <3>2. ASSUME NEW c \in Client, ReadLine(c) \/ Adopt(c) \/ AdoptClose(c)
          PROVE  mode' \in {mode, "adopting", "up", "crashed"}
      BY <3>2, Zenon DEF ReadLine, Adopt, AdoptClose
    <3>3. ASSUME Dispatch \/ RemoteError \/ Write \/ WriteToNil
          PROVE  mode' \in {mode, "crashed"}
      BY <3>3, Zenon DEF Dispatch, RemoteError, Write, WriteToNil
    <3>4. ASSUME NEW g \in Goroutine, Hook(g)
          PROVE  mode' \in {mode, "crashed"}
      BY <3>4, Zenon DEF Hook, ArgsPanic, Answer, PrivmsgName, PrivmsgSend, ConnRegGet, ConnRegNick,
                         ConnRegUser, ConnRegStore, ConnRegInfo, ConnRegReply
    <3> QED
      BY <1>3, <3>1, <3>2, <3>3, <3>4 DEF Next, Loop
  <2>2. ASSUME WriteFails
        PROVE  \E c \in Client : ~conn'[c].peer
    <3>0. PICK i \in DOMAIN Head(toClient).to :
             /\ toClient # <<>> /\ uid2conn[Head(toClient).to[i]] = "conn"
             /\ WriteMayFail(Head(toClient).to[i]) /\ UNCHANGED conn
      BY <2>2, Zenon DEF WriteFails
    <3> DEFINE c == Head(toClient).to[i]
    <3>1. uid2conn[c] = "conn" /\ WriteMayFail(c) /\ UNCHANGED conn
      BY <3>0
    <3>2. c \in Client
      BY <3>0, HeadReply DEF TInv
    <3> HIDE DEF c
    <3>3. Closed(c)
      BY <3>2 DEF LossOK
    <3>4. ~conn[c].peer
      BY <3>1, <3>3 DEF Closed, WriteMayFail
    <3> QED
      BY <3>1, <3>2, <3>4
  <2> QED
    BY <2>1, <2>2 DEF HangsOnlyOnLoss
<1> QED
  BY <1>2, <1>3

\* manageClients blocks on itself only when some peer has gone away.
THEOREM HangsOnlyOnLossCorrect == Spec => []HangsOnlyOnLoss
<1>1. Init => LossOK
  BY DEF Init, LossOK, Unknown, Closed, ReaderAt, HangsOnlyOnLoss
<1>2. TInv /\ LossOK /\ [Next]_vars => LossOK'
  <2>1. TInv /\ LossOK /\ Next => LossOK'
    BY LossStep, HangStep DEF LossOK
  <2>2. LossOK /\ UNCHANGED vars => LossOK'
    BY DEF LossOK, Unknown, Closed, HangsOnlyOnLoss, vars
  <2> QED
    BY <2>1, <2>2
<1>3. LossOK => HangsOnlyOnLoss
  BY DEF LossOK
<1> QED
  BY <1>1, <1>2, <1>3, Invariance, PTL DEF Spec

-----------------------------------------------------------------------------
(* Whom a reply can be for. *)

Entered(c) == uid2conn[c] # "none"

\* Every id that a message, a goroutine or the user table knows is the id of
\* a connection that manageClients has, or had.
TableKnown ==
    /\ \A c \in Client : Users!Live(c) => Entered(c)
    /\ \A p \in Ptr : heap[p].id # NoID => Entered(heap[p].id)
    /\ \A k \in Users!Key : userNicks[k] # NoID => Entered(userNicks[k])
KnownIDs ==
    /\ \A c \in Client :
         /\ manage[c].pc = "flushing" => Entered(c)
         /\ "fromClient" \in conn[c].subscribers => Entered(c)
         /\ reader[c].pc = "fromClient" => Entered(c)
    /\ \A i \in 1..Len(fromClient) : Entered(fromClient[i].from)
    /\ \A g \in Goroutine : job[g].pc # "idle" => Entered(job[g].msg.from)
    /\ \A g \in Goroutine : \A k \in 1..Len(job[g].local) : Entered(job[g].local[k])
    /\ TableKnown

RepliesFindEntry ==
    \A i \in 1..Len(toClient) : \A k \in 1..Len(toClient[i].to) : Entered(toClient[i].to[k])

LEMMA EnteredStays ==
    ASSUME TInv, Next, NEW c \in Client
    PROVE  (Entered(c) => Entered(c)') /\ (Adopt(c) => Entered(c)')
<1>0. uid2conn \in [Client -> {"none", "conn", "nil"}]
  BY DEF TInv, ReadersOK
<1>1. \/ UNCHANGED uid2conn
      \/ \E d \in Client, v \in {"conn", "nil"} : uid2conn' = [uid2conn EXCEPT ![d] = v]
  <2>1. ASSUME NEW d \in Client,
               \/ PeerLeaves(d) \/ ReadLine(d) \/ ReadError(d) \/ SendDirect(d) \/ Accept(d)
               \/ SubscribeStop(d) \/ Collect(d) \/ Stop(d) \/ Leave(d) \/ AdoptClose(d)
        PROVE  UNCHANGED uid2conn
    BY <2>1, Zenon DEF PeerLeaves, ReadLine, ReadError, SendDirect, Accept, SubscribeStop, Collect,
                       Stop, Leave, AdoptClose
  <2>2. ASSUME NEW d \in Client, Adopt(d)
        PROVE  uid2conn' = [uid2conn EXCEPT ![d] = "conn"]
    BY <2>2, Zenon DEF Adopt
  <2>3. ASSUME NEW d \in Client, Closing(d) \/ Release(d)
        PROVE  uid2conn' = [uid2conn EXCEPT ![d] = "nil"]
    BY <2>3, Zenon DEF Closing, Release
  <2>4. RemoteError \/ Write => UNCHANGED uid2conn \/ \E d \in Client : Release(d)
    BY HeadMsg, HeadReply, Zenon DEF RemoteError, Write, TInv
  <2>5. UNCHANGED readers => UNCHANGED uid2conn
    BY Zenon DEF readers
  <2> QED
    BY <2>1, <2>2, <2>3, <2>4, <2>5, ReadersMove
<1>2. Adopt(c) => uid2conn' = [uid2conn EXCEPT ![c] = "conn"]
  BY Zenon DEF Adopt
<1> QED
  BY <1>0, <1>1, <1>2 DEF Entered

LEMMA KnownConns ==
    ASSUME TInv, KnownIDs, Next, NEW c \in Client
    PROVE  /\ manage'[c].pc = "flushing" => Entered(c)'
           /\ "fromClient" \in conn'[c].subscribers => Entered(c)'
           /\ reader'[c].pc = "fromClient" => Entered(c)'
<1>0. /\ conn \in [Client -> ConnRec] /\ reader \in [Client -> ReaderRec]
      /\ manage \in [Client -> ManageRec]
      /\ Entered(c) => Entered(c)'
      /\ Adopt(c) => Entered(c)'
  BY EnteredStays DEF TInv, ReadersOK, ManageOK
<1>1. manage'[c].pc = "flushing" => manage[c].pc = "flushing" \/ Adopt(c)
  <2>1. ASSUME NEW d \in Client, Accept(d) \/ SubscribeStop(d) \/ Leave(d)
        PROVE  \E pc \in {"subscribing", "collecting", "offering"} : manage' = [manage EXCEPT ![d].pc = pc]
    BY <2>1, Zenon DEF Accept, SubscribeStop, Leave
  <2>2. ASSUME NEW d \in Client, Collect(d) \/ Stop(d)
        PROVE  \E q : \E pc \in {"collecting", "leaving", "done"} : manage' = [manage EXCEPT ![d] = [pc |-> pc, queued |-> q]]
    BY <2>2, Zenon DEF Collect, Stop
  <2>3. ASSUME NEW d \in Client, Flush(d)
        PROVE  manage[d].pc = "flushing" /\ \E r : manage' = [manage EXCEPT ![d] = r]
    BY <2>3, Zenon DEF Flush
  <2>4. ASSUME NEW d \in Client, Adopt(d)
        PROVE  manage' = [manage EXCEPT ![d].pc = "flushing"]
    BY <2>4, Zenon DEF Adopt
  <2>5. CASE \E d \in Client : Accept(d) \/ SubscribeStop(d) \/ Leave(d)
    BY <1>0, <2>1, <2>5, ZenonT(40) DEF ManageRec
  <2>6. CASE \E d \in Client : Collect(d) \/ Stop(d)
    <3>1. PICK d \in Client : Collect(d) \/ Stop(d)
      BY <2>6
    <3>2. PICK q : \E pc \in {"collecting", "leaving", "done"} :
                      manage' = [manage EXCEPT ![d] = [pc |-> pc, queued |-> q]]
      BY <2>2, <3>1
    <3> QED
      BY <1>0, <3>2
  <2>7. CASE \E d \in Client : Flush(d)
    BY <1>0, <2>3, <2>7 DEF ManageRec
  <2>8. CASE \E d \in Client : Adopt(d)
    BY <1>0, <2>4, <2>8 DEF ManageRec
  <2> QED
    BY <2>5, <2>6, <2>7, <2>8, ManageMoves DEF Incoming
<1>2. "fromClient" \in conn'[c].subscribers => "fromClient" \in conn[c].subscribers \/ Adopt(c)
  <2>2. ASSUME NEW d \in Client,
               \/ PeerLeaves(d) \/ ReadLine(d) \/ ReadError(d) \/ SendDirect(d) \/ Accept(d)
               \/ SubscribeStop(d) \/ Collect(d) \/ Stop(d) \/ Leave(d) \/ Closing(d) \/ Release(d)
               \/ AdoptClose(d)
        PROVE  "fromClient" \in conn'[c].subscribers => "fromClient" \in conn[c].subscribers
    <3>1. conn[d] \in ConnRec
      BY <1>0
    <3>2. \/ UNCHANGED conn
          \/ conn' = [conn EXCEPT ![d].peer = FALSE]
          \/ conn' = [conn EXCEPT ![d].open = FALSE]
          \/ conn' = [conn EXCEPT ![d].subscribers = {"inc"}]
          \/ conn' = [conn EXCEPT ![d].onclose = {"stop"}]
          \/ conn' = [conn EXCEPT ![d].subscribers = {}, ![d].onclose = {}]
          \/ conn' = [conn EXCEPT ![d].onclose = @ \ {"clientClosing"}, ![d].open = FALSE]
          \/ conn' = [conn EXCEPT ![d].onclose = @ \cup {"clientClosing"}]
      BY <2>2, Zenon DEF PeerLeaves, ReadLine, ReadError, SendDirect, Accept, SubscribeStop, Collect,
                         Stop, Leave, Closing, Release, AdoptClose
    <3>3. CASE UNCHANGED conn
      BY <3>3
    <3>4. CASE \/ conn' = [conn EXCEPT ![d].peer = FALSE]
               \/ conn' = [conn EXCEPT ![d].open = FALSE]
      BY <1>0, <3>1, <3>4 DEF ConnRec
    <3>5. CASE \/ conn' = [conn EXCEPT ![d].subscribers = {"inc"}]
               \/ conn' = [conn EXCEPT ![d].onclose = {"stop"}]
      BY <1>0, <3>1, <3>5 DEF ConnRec
    <3>6. CASE conn' = [conn EXCEPT ![d].subscribers = {}, ![d].onclose = {}]
      BY <1>0, <3>1, <3>6 DEF ConnRec
    <3>7. CASE conn' = [conn EXCEPT ![d].onclose = @ \ {"clientClosing"}, ![d].open = FALSE]
      BY <1>0, <3>1, <3>7 DEF ConnRec
    <3>8. CASE conn' = [conn EXCEPT ![d].onclose = @ \cup {"clientClosing"}]
      BY <1>0, <3>1, <3>8 DEF ConnRec
    <3> QED
      BY <3>2, <3>3, <3>4, <3>5, <3>6, <3>7, <3>8
  <2>3. ASSUME NEW d \in Client, Adopt(d)
        PROVE  conn' = [conn EXCEPT ![d].subscribers = @ \cup {"fromClient"}]
    BY <2>3, Zenon DEF Adopt
  <2>4. ASSUME NEW d \in Client, Adopt(d), d # c
        PROVE  conn'[c] = conn[c]
    BY <1>0, <2>3, <2>4
  <2>5. RemoteError \/ Write => UNCHANGED conn \/ \E d \in Client : Release(d)
    BY HeadMsg, HeadReply, Zenon DEF RemoteError, Write, TInv
  <2>6. UNCHANGED readers => UNCHANGED conn
    BY Zenon DEF readers
  <2>7. CASE UNCHANGED conn
    BY <2>7
  <2>8. CASE \E d \in Client : Adopt(d)
    BY <2>4, <2>8
  <2> QED
    BY <2>2, <2>5, <2>6, <2>7, <2>8, ReadersMove, Zenon
<1>3. reader'[c].pc = "fromClient" => reader[c].pc = "fromClient" \/ "fromClient" \in conn[c].subscribers
  <2>1. ASSUME NEW d \in Client, SendDirect(d) \/ Collect(d) \/ Stop(d) \/ Closing(d)
        PROVE  \E pc \in {"reading", "done"} : reader' = [reader EXCEPT ![d] = ReaderAt(pc)]
    BY <2>1, Zenon DEF SendDirect, Collect, Stop, Closing
  <2>2. CASE \E d \in Client : SendDirect(d) \/ Collect(d) \/ Stop(d) \/ Closing(d)
    BY <1>0, <2>1, <2>2 DEF ReaderAt
  <2>3. CASE \E d \in Client : ReadLine(d)
    <3>1. PICK d \in Client : ReadLine(d)
      BY <2>3
    <3>2. \/ UNCHANGED reader
          \/ \E pc \in {"inc", "fromClient"}, m \in Msg :
               reader' = [reader EXCEPT ![d] = [pc |-> pc, msg |-> m]] /\ pc \in conn[d].subscribers
      BY <3>1, NextLine DEF TInv
    <3> QED
      BY <1>0, <3>2
  <2>4. CASE \E d \in Client : ReadError(d)
    <3>1. PICK d \in Client : ReadError(d)
      BY <2>4
    <3>2. conn[d].onclose \in SUBSET {"stop", "clientClosing"}
      BY <1>0 DEF ConnRec
    <3>3. conn[d].onclose # {} => (CHOOSE ch \in conn[d].onclose : TRUE) \in {"stop", "clientClosing"}
      BY <3>2, Choice
    <3>4. \E pc \in {"done", "stop", "clientClosing"} : reader' = [reader EXCEPT ![d] = ReaderAt(pc)]
      BY <3>1, <3>3, Zenon DEF ReadError
    <3> QED
      BY <1>0, <3>4 DEF ReaderAt
  <2>5. CASE \E d \in Client : Accept(d)
    <3>1. \E d \in Client : reader' = [reader EXCEPT ![d].pc = "reading"]
      BY <2>5, Zenon DEF Accept
    <3> QED
      BY <1>0, <3>1 DEF ReaderRec
  <2>6. ASSUME NEW d \in Client,
               PeerLeaves(d) \/ SubscribeStop(d) \/ Leave(d) \/ Adopt(d) \/ AdoptClose(d)
        PROVE  UNCHANGED reader
    BY <2>6, Zenon DEF PeerLeaves, SubscribeStop, Leave, Adopt, AdoptClose
  <2>7. RemoteError \/ Write \/ UNCHANGED readers => UNCHANGED reader
    BY Zenon DEF RemoteError, Write, readers
  <2>8. UNCHANGED reader => reader'[c].pc = reader[c].pc
    OBVIOUS
  <2> QED
    BY <2>2, <2>3, <2>4, <2>5, <2>6, <2>7, <2>8, ReadersMove, Zenon
<1> QED
  BY <1>0, <1>1, <1>2, <1>3 DEF KnownIDs

LEMMA TableKept ==
    ASSUME TInv, TableKnown, Facts!NInv',
           \A c \in Client : Entered(c) => Entered(c)',
           \A c \in Client : Users!Live(c)' => Users!Live(c) \/ Entered(c)',
           \A p \in Ptr : heap'[p].id \in {heap[p].id, NoID} \/ uid2conn'[heap'[p].id] # "none",
           \A k \in Users!Key : \/ userNicks'[k] \in {userNicks[k], NoID}
                               \/ \E p \in Ptr : userNicks'[k] = heap[p].id
    PROVE  TableKnown'
<1>1. /\ \A p \in Ptr : heap[p].id \in Client \cup {NoID}
      /\ \A k \in Users!Key : userNicks[k] \in Client \cup {NoID}
  BY TableTypes, SameRecords DEF TInv, Users!UserRecord
<1>2. \A c \in Client : Users!Live(c)' => Entered(c)'
  BY DEF TableKnown, Entered
<1>3. \A p \in Ptr : heap'[p].id # NoID => uid2conn'[heap'[p].id] # "none"
  BY <1>1 DEF TableKnown, Entered
<1>4. \A k \in Users!Key : userNicks'[k] # NoID => uid2conn'[userNicks'[k]] # "none"
  BY <1>1 DEF TableKnown, Entered
<1> QED
  BY <1>2, <1>3, <1>4 DEF TableKnown, Entered

LEMMA GotKnown ==
    ASSUME TInv, NEW id \in Client, NEW p \in Ptr, Users!GetUser(id, p), Entered(id)', UNCHANGED userNicks
    PROVE  /\ \A c \in Client : Users!Live(c)' => Users!Live(c) \/ Entered(c)'
           /\ \A q \in Ptr : heap'[q].id \in {heap[q].id, NoID} \/ uid2conn'[heap'[q].id] # "none"
           /\ \A k \in Users!Key : userNicks'[k] \in {userNicks[k], NoID}
<1>0. /\ heap \in [Ptr -> Users!UserRecord] /\ userMap \in [Client -> Ptr \cup {NoPtr}]
  BY TableTypes DEF TInv
<1>1. CASE UNCHANGED <<heap, userMap>>
  BY <1>1 DEF Users!Live
<1>2. CASE ~UNCHANGED <<heap, userMap>>
  <2> DEFINE r == [Users!NewUser EXCEPT !.id = id]
  <2>1. heap' = [heap EXCEPT ![p] = r] /\ userMap' = [userMap EXCEPT ![id] = p]
    BY <1>2, Zenon DEF Users!GetUser
  <2>2. r.id = id
    BY DEF Users!NewUser
  <2> HIDE DEF r
  <2>3. \A c \in Client : userMap'[c] = IF c = id THEN p ELSE userMap[c]
    BY <1>0, <2>1
  <2>4. \A q \in Ptr : heap'[q] = IF q = p THEN r ELSE heap[q]
    BY <1>0, <2>1
  <2>5. \A c \in Client : Users!Live(c)' => Users!Live(c) \/ Entered(c)'
    BY <2>3 DEF Users!Live
  <2>6. \A q \in Ptr : heap'[q].id \in {heap[q].id, NoID} \/ uid2conn'[heap'[q].id] # "none"
    BY <2>2, <2>4 DEF Entered
  <2> QED
    BY <2>5, <2>6
<1> QED
  BY <1>1, <1>2

LEMMA CollectedIDs ==
    ASSUME NEW m, NEW h, NEW p \in Ptr
    PROVE  Users!Collected(m, h)[p].id \in {heap[p].id, NoID}
BY DEF Users!Collected, Users!NewUser

LEMMA OthersKnown ==
    ASSUME TInv,
           \/ UNCHANGED registry
           \/ \E c \in Client : Delete(c)
           \/ \E g \in Goroutine :
                \/ \E nick \in Nick : Users!SetNick(g, nick)
                \/ \E user \in UserName : Users!CheckUser(g, user)
                \/ Users!StoreUser(g) \/ Users!SetType(g) \/ Users!EndConnReg(g)
    PROVE  /\ \A c \in Client : Users!Live(c)' => Users!Live(c)
           /\ \A p \in Ptr : heap'[p].id \in {heap[p].id, NoID}
           /\ \A k \in Users!Key : \/ userNicks'[k] \in {userNicks[k], NoID}
                                   \/ \E p \in Ptr : userNicks'[k] = heap[p].id
<1>0. /\ heap \in [Ptr -> Users!UserRecord] /\ userMap \in [Client -> Ptr \cup {NoPtr}]
      /\ userNicks \in [Users!Key -> Client \cup {NoID}] /\ held \in [Goroutine -> Ptr \cup {NoPtr}]
      /\ \A g \in Goroutine : setting[g] # NoUser => held[g] # NoPtr
  BY TableTypes DEF TInv
<1>1. CASE UNCHANGED registry
  BY <1>1 DEF registry, Users!Live
<1>2. ASSUME NEW nicks \in [Users!Key -> Client \cup {NoID}], NEW k, NEW key \in Users!Key
      PROVE  Users!Forget(nicks, k)[key] \in {nicks[key], NoID}
  BY DEF Users!Forget
<1>3. ASSUME NEW c \in Client, Users!Delete(c)
      PROVE  /\ \A d \in Client : Users!Live(d)' => Users!Live(d)
             /\ \A p \in Ptr : heap'[p].id \in {heap[p].id, NoID}
             /\ \A k \in Users!Key : userNicks'[k] \in {userNicks[k], NoID}
  <2>1. /\ userMap' = [userMap EXCEPT ![c] = NoPtr] /\ heap' = Users!Collected(userMap', held)
        /\ \E k : userNicks' = Users!Forget(userNicks, k)
    BY <1>3, Zenon DEF Users!Delete
  <2> QED
    BY <1>0, <1>2, <2>1, CollectedIDs DEF Users!Live
<1>4. ASSUME NEW g \in Goroutine, NEW nick \in Nick, Users!SetNick(g, nick)
      PROVE  /\ UNCHANGED userMap
             /\ \A p \in Ptr : heap'[p].id \in {heap[p].id, NoID}
             /\ \A k \in Users!Key : \/ userNicks'[k] \in {userNicks[k], NoID}
                                     \/ \E p \in Ptr : userNicks'[k] = heap[p].id
  <2> DEFINE made == [userNicks EXCEPT ![Users!ToLower(nick)] = heap[held[g]].id]
  <2>1. /\ UNCHANGED userMap /\ heap' = [heap EXCEPT ![held[g]].nick = nick]
        /\ held[g] # NoPtr /\ \E k : userNicks' = Users!Forget(made, k)
    BY <1>4, Zenon DEF Users!SetNick
  <2>2. held[g] \in Ptr /\ heap[held[g]].id \in Client \cup {NoID}
    BY <1>0, <2>1, SameRecords DEF Users!UserRecord
  <2>3. made \in [Users!Key -> Client \cup {NoID}]
    BY <1>0, <2>2
  <2>4. \A k \in Users!Key : made[k] \in {userNicks[k], heap[held[g]].id}
    BY <1>0
  <2> HIDE DEF made
  <2>5. \A k \in Users!Key : userNicks'[k] \in {made[k], NoID}
    BY <1>2, <2>1, <2>3
  <2>6. \A p \in Ptr : heap'[p].id = heap[p].id
    BY <1>0, <2>1 DEF Users!UserRecord
  <2> QED
    BY <2>1, <2>2, <2>4, <2>5, <2>6
<1>5. ASSUME NEW g \in Goroutine,
             \/ \E user \in UserName : Users!CheckUser(g, user)
             \/ Users!StoreUser(g) \/ Users!SetType(g) \/ Users!EndConnReg(g)
      PROVE  UNCHANGED <<userMap, userNicks>> /\ \A p \in Ptr : heap'[p].id \in {heap[p].id, NoID}
  <2>1. UNCHANGED <<userMap, userNicks>>
    BY <1>5, Zenon DEF Users!CheckUser, Users!StoreUser, Users!SetType, Users!EndConnReg
  <2>2. \/ UNCHANGED heap
        \/ heap' = [heap EXCEPT ![held[g]].user = setting[g]]
        \/ heap' = [heap EXCEPT ![held[g]].registered = TRUE]
        \/ heap' = Users!Collected(userMap, held')
    BY <1>5, Zenon DEF Users!CheckUser, Users!StoreUser, Users!SetType, Users!EndConnReg
  <2>3. CASE UNCHANGED heap
    BY <2>1, <2>3
  <2>4. CASE heap' = [heap EXCEPT ![held[g]].user = setting[g]]
    BY <1>0, <2>1, <2>4 DEF Users!UserRecord
  <2>5. CASE heap' = [heap EXCEPT ![held[g]].registered = TRUE]
    BY <1>0, <2>1, <2>5 DEF Users!UserRecord
  <2>6. CASE heap' = Users!Collected(userMap, held')
    BY <2>1, <2>6, CollectedIDs
  <2> QED
    BY <2>1, <2>2, <2>3, <2>4, <2>5, <2>6
<1>6. (\E c \in Client : Delete(c)) => UNCHANGED registry \/ \E c \in Client : Users!Delete(c)
  BY Zenon DEF Delete
<1>7. UNCHANGED userMap => \A c \in Client : Users!Live(c)' => Users!Live(c)
  BY DEF Users!Live
<1>8. UNCHANGED userNicks => \A k \in Users!Key : userNicks'[k] \in {userNicks[k], NoID}
  OBVIOUS
<1> QED
  BY <1>1, <1>3, <1>4, <1>5, <1>6, <1>7, <1>8

\* Whoever GetUser is called for in a step has an entry after it.
LEMMA TableStep ==
    ASSUME TInv, KnownIDs, Next
    PROVE  TableKnown'
<1>0. QueuesOK /\ JobsOK /\ TableKnown /\ Facts!NInv' /\ \A c \in Client : Entered(c) => Entered(c)'
  BY RegistryStep, EnteredStays DEF TInv, KnownIDs
<1>1. ASSUME NEW c \in Client, NEW p \in Ptr, Users!GetUser(c, p), Entered(c)', UNCHANGED userNicks
      PROVE  TableKnown'
  BY <1>0, <1>1, GotKnown, TableKept
<1>2. ASSUME \/ UNCHANGED registry
             \/ \E c \in Client : Delete(c)
             \/ \E g \in Goroutine :
                  \/ \E nick \in Nick : Users!SetNick(g, nick)
                  \/ \E user \in UserName : Users!CheckUser(g, user)
                  \/ Users!StoreUser(g) \/ Users!SetType(g) \/ Users!EndConnReg(g)
      PROVE  TableKnown'
  BY <1>0, <1>2, OthersKnown, TableKept
<1>3. ASSUME NEW c \in Client, Adopt(c)
      PROVE  TableKnown'
  <2>1. PICK p \in Ptr : Users!GetUser(c, p) /\ UNCHANGED userNicks
    BY <1>3, Zenon DEF Adopt, GetUser, Users!TouchUser
  <2> QED
    BY <1>1, <1>3, <2>1, EnteredStays
<1>4. ASSUME Dispatch
      PROVE  TableKnown'
  <2> DEFINE c == Head(fromClient).from
  <2>1. fromClient # <<>> /\ \E p \in Ptr : Users!GetUser(c, p) /\ UNCHANGED userNicks
    BY <1>4, Zenon DEF Dispatch, GetUser, Users!TouchUser
  <2>2. c \in Client
    BY <1>0, <2>1, HeadMsg
  <2>3. Entered(c)
    <3>1. Head(fromClient) = fromClient[1] /\ 1 \in 1..Len(fromClient)
      BY <1>0, <2>1 DEF QueuesOK
    <3> QED
      BY <3>1 DEF KnownIDs
  <2> HIDE DEF c
  <2> QED
    BY <1>0, <1>1, <2>1, <2>2, <2>3
<1>5. ASSUME NEW g \in Goroutine, ConnRegGet(g)
      PROVE  TableKnown'
  <2>1. /\ job[g].pc = "get"
        /\ \E p \in Ptr : Users!GetUser(job[g].msg.from, p) /\ UNCHANGED userNicks
    BY <1>5, Zenon DEF ConnRegGet, At, Users!BeginConnReg
  <2>2. job[g].msg.from \in Client
    BY <1>0, <2>1 DEF JobsOK, JobShape, Msg
  <2>3. Entered(job[g].msg.from)
    BY <2>1 DEF KnownIDs
  <2> QED
    BY <1>0, <1>1, <2>1, <2>2, <2>3
<1>6. ASSUME NEW g \in Goroutine, ConnRegNick(g)
      PROVE  TableKnown'
  <2>1. job[g].msg.arg \in Nick
    BY <1>0, <1>6, JobArg DEF ConnRegNick, At
  <2> QED
    BY <1>2, <1>6, <2>1, Zenon DEF ConnRegNick
<1>7. ASSUME NEW g \in Goroutine, ConnRegUser(g)
      PROVE  TableKnown'
  <2>1. job[g].msg.arg \in UserName \cup {NoUser}
    BY <1>0, <1>7, JobArg DEF ConnRegUser, At
  <2> QED
    BY <1>2, <1>7, <2>1, Zenon DEF ConnRegUser
<1>8. ASSUME NEW g \in Goroutine, ConnRegStore(g) \/ ConnRegInfo(g) \/ ConnRegReply(g)
      PROVE  TableKnown'
  BY <1>2, <1>8, Zenon DEF ConnRegStore, ConnRegInfo, ConnRegReply
<1>9. ASSUME NEW g \in Goroutine, ArgsPanic(g) \/ Answer(g) \/ PrivmsgName(g) \/ PrivmsgSend(g)
      PROVE  UNCHANGED registry
  BY <1>9, Zenon DEF ArgsPanic, Answer, PrivmsgName, PrivmsgSend
<1>10. ASSUME NEW c \in Client,
              PeerLeaves(c) \/ ReadLine(c) \/ ReadError(c) \/ SendDirect(c) \/ Incoming(c)
                \/ AdoptClose(c)
       PROVE  UNCHANGED registry
  BY <1>10, Zenon DEF PeerLeaves, AdoptClose, ReadLine, ReadError, SendDirect, Incoming, Accept, SubscribeStop,
                      Collect, Stop, Leave, Flush
<1>11. ASSUME NEW c \in Client, Closing(c)
       PROVE  Delete(c)
  BY <1>11, Zenon DEF Closing
<1>12. ASSUME RemoteError \/ Write \/ WriteFails \/ WriteToNil
       PROVE  UNCHANGED registry \/ \E c \in Client : Delete(c)
  BY <1>0, <1>12, HeadMsg, HeadReply, Zenon DEF RemoteError, Write, WriteFails, WriteToNil
<1> QED
  BY <1>2, <1>3, <1>4, <1>5, <1>6, <1>7, <1>8, <1>9, <1>10, <1>11, <1>12, Zenon DEF Next, Loop, Hook

LEMMA KnownQueue ==
    ASSUME TInv, KnownIDs, Next, NEW i \in 1..Len(fromClient')
    PROVE  uid2conn'[fromClient'[i].from] # "none"
<1>0. /\ fromClient \in Seq(Msg) /\ \A c \in Client : Entered(c) => Entered(c)'
      /\ \A j \in 1..Len(fromClient) : fromClient[j].from \in Client /\ Entered(fromClient[j].from)
  <2>1. fromClient \in Seq(Msg)
    BY DEF TInv, QueuesOK
  <2>2. \A j \in 1..Len(fromClient) : fromClient[j] \in Msg
    BY <2>1
  <2> QED
    BY <2>1, <2>2, EnteredStays DEF KnownIDs, Msg
<1>1. ASSUME NEW m \in Msg, Entered(m.from), fromClient' = Append(fromClient, m)
      PROVE  uid2conn'[fromClient'[i].from] # "none"
  <2>1. m.from \in Client /\ Entered(m.from)'
    BY <1>0, <1>1 DEF Msg
  <2>2. fromClient'[i] = m \/ (i \in 1..Len(fromClient) /\ fromClient'[i] = fromClient[i])
    BY <1>0, <1>1
  <2> QED
    BY <1>0, <2>1, <2>2 DEF Entered
<1>2. CASE UNCHANGED fromClient
  BY <1>0, <1>2 DEF Entered
<1>3. ASSUME NEW c \in Client, SendDirect(c)
      PROVE  uid2conn'[fromClient'[i].from] # "none"
  <2>1. reader[c].pc = "fromClient" /\ fromClient' = Append(fromClient, reader[c].msg)
    BY <1>3, Zenon DEF SendDirect
  <2>2. reader[c].msg \in Msg /\ reader[c].msg.from = c
    BY <2>1 DEF TInv, ReadersOK, Sending
  <2> QED
    BY <1>1, <2>1, <2>2 DEF KnownIDs
<1>4. ASSUME NEW c \in Client, Flush(c)
      PROVE  uid2conn'[fromClient'[i].from] # "none"
  <2>1. manage[c].pc = "flushing" /\ fromClient' = Append(fromClient, Head(manage[c].queued))
    BY <1>4, Zenon DEF Flush
  <2>2. manage[c].queued \in Seq(Msg) /\ QueuedOK(c) /\ manage[c].queued # <<>>
    BY <2>1 DEF TInv, ManageOK, ManageRec, QueuedOK
  <2>3. Head(manage[c].queued) \in Msg /\ Head(manage[c].queued).from = c
    BY <2>2 DEF QueuedOK
  <2> QED
    BY <1>1, <2>1, <2>3 DEF KnownIDs
<1>5. ASSUME Dispatch \/ RemoteError
      PROVE  uid2conn'[fromClient'[i].from] # "none"
  <2>1. fromClient # <<>> /\ fromClient' = Tail(fromClient)
    BY <1>5, Zenon DEF Dispatch, RemoteError
  <2>2. i + 1 \in 1..Len(fromClient) /\ fromClient'[i] = fromClient[i + 1]
    BY <1>0, <2>1
  <2> QED
    BY <1>0, <2>2 DEF Entered
<1>6. Write \/ (\E g \in Goroutine : Answer(g) \/ PrivmsgName(g) \/ PrivmsgSend(g) \/ ConnRegReply(g))
        => UNCHANGED fromClient
  BY Zenon DEF Write, Answer, PrivmsgName, PrivmsgSend, ConnRegReply, Rest
<1> QED
  BY <1>2, <1>3, <1>4, <1>5, <1>6, QueuesMove

LEMMA KnownJobs ==
    ASSUME TInv, KnownIDs, Next, NEW h \in Goroutine, job'[h].pc # "idle"
    PROVE  uid2conn'[job'[h].msg.from] # "none"
<1>0. /\ job \in [Goroutine -> JobRec] /\ \A c \in Client : Entered(c) => Entered(c)'
      /\ \A g \in Goroutine : job[g].pc # "idle" => job[g].msg.from \in Client
      /\ QueuesOK
  BY EnteredStays DEF TInv, JobsOK, JobShape, Msg
<1>1. CASE job[h].pc # "idle" /\ job'[h].msg = job[h].msg
  BY <1>0, <1>1 DEF KnownIDs, Entered
<1>2. ASSUME Dispatch
      PROVE  uid2conn'[job'[h].msg.from] # "none"
  <2> DEFINE m == Head(fromClient)
  <2>1. /\ fromClient # <<>>
        /\ \/ UNCHANGED job
           \/ \E g \in Goroutine, pc \in {"run", "get"} :
                job' = [job EXCEPT ![g] = [pc |-> pc, msg |-> m, local |-> <<>>]]
    BY <1>2, Zenon DEF Dispatch
  <2>2. m.from \in Client
    BY <1>0, <2>1, HeadMsg
  <2>3. m = fromClient[1] /\ 1 \in 1..Len(fromClient)
    BY <1>0, <2>1 DEF QueuesOK
  <2>4. Entered(m.from)
    BY <2>3 DEF KnownIDs
  <2> HIDE DEF m
  <2>5. (job[h].pc # "idle" /\ job'[h].msg = job[h].msg) \/ job'[h].msg = m
    BY <1>0, <2>1
  <2> QED
    BY <1>0, <1>1, <2>2, <2>4, <2>5 DEF Entered
<1>5. ASSUME NEW g \in Goroutine, PrivmsgName(g)
      PROVE  job[h].pc # "idle" /\ job'[h].msg.from = job[h].msg.from
  <2> DEFINE r == [pc |-> "run", msg |-> [job[g].msg EXCEPT !.arg = Tail(@)],
                   local |-> IF Recipient(Head(job[g].msg.arg)) = NoID THEN job[g].local
                             ELSE Append(job[g].local, Recipient(Head(job[g].msg.arg)))]
  <2>1. job[g].pc = "run" /\ job' = [job EXCEPT ![g] = r]
    BY <1>5, Zenon DEF PrivmsgName, At
  <2>2. job[g].msg \in Msg
    BY <2>1 DEF TInv, JobsOK, JobShape
  <2>3. r.msg.from = job[g].msg.from
    BY <2>2 DEF Msg
  <2> HIDE DEF r
  <2> QED
    BY <1>0, <2>1, <2>3
<1>3. ASSUME NEW g \in Goroutine, Hook(g), ~PrivmsgName(g)
      PROVE  job[h].pc # "idle" /\ job'[h].msg = job[h].msg
  <2>1. \/ UNCHANGED job
        \/ job' = [job EXCEPT ![g] = Idle]
        \/ job[g].pc # "idle" /\ \E pc \in {"set", "store", "info", "signon", "error"} : job' = [job EXCEPT ![g].pc = pc]
    <3>1. \A pc : job[g].pc = pc /\ pc # "idle" => job[g].pc # "idle"
      OBVIOUS
    <3>2. ConnRegReply(g) \/ ArgsPanic(g) \/ Answer(g) \/ PrivmsgSend(g)
            => UNCHANGED job \/ job' = [job EXCEPT ![g] = Idle]
      BY Zenon DEF ConnRegReply, ArgsPanic, Answer, PrivmsgSend
    <3>3. ConnRegGet(g) \/ ConnRegNick(g) \/ ConnRegUser(g) \/ ConnRegStore(g)
            => /\ job[g].pc \in {"get", "set", "store"}
               /\ \E pc \in {"set", "store", "info", "signon", "error"} : job' = [job EXCEPT ![g].pc = pc]
      BY Zenon DEF At, Goto, ConnRegGet, ConnRegNick, ConnRegUser, ConnRegStore
    <3>4. ConnRegInfo(g) => \/ job' = [job EXCEPT ![g] = Idle]
                            \/ job[g].pc = "info" /\ job' = [job EXCEPT ![g].pc = "signon"]
      BY Zenon DEF Goto, ConnRegInfo
    <3> QED
      BY <1>3, <3>2, <3>3, <3>4 DEF Hook
  <2>2. CASE UNCHANGED job
    BY <2>2
  <2>3. CASE job' = [job EXCEPT ![g] = Idle]
    BY <1>0, <2>3, IdleIsJob
  <2>4. ASSUME NEW pc, job[g].pc # "idle", job' = [job EXCEPT ![g].pc = pc]
        PROVE  job[h].pc # "idle" /\ job'[h].msg = job[h].msg
    BY <1>0, <2>4 DEF JobRec
  <2> QED
    BY <2>1, <2>2, <2>3, <2>4
<1>6. job[h].pc # "idle" /\ job'[h].msg.from = job[h].msg.from => uid2conn'[job'[h].msg.from] # "none"
  BY <1>0 DEF KnownIDs, Entered
<1>4. CASE UNCHANGED job
  BY <1>1, <1>4
<1> QED
  BY <1>1, <1>2, <1>3, <1>4, <1>5, <1>6, JobsMove

\* Who can be named is in the user table.
LEMMA FoundEntered ==
    ASSUME Facts!NInv, TableKnown, NEW name \in Name, Recipient(name) # NoID
    PROVE  Recipient(name) \in Client /\ Entered(Recipient(name))
<1>1. Recipient(name) \in Client
  BY FoundRecipient
<1>2. CASE name \in Client
  BY <1>1, <1>2 DEF Recipient, TableKnown
<1>3. CASE name \notin Client
  <2>1. Users!ToLower(name) \in Users!Key /\ Recipient(name) = userNicks[Users!ToLower(name)]
    BY <1>3 DEF Users!Key, Name, Recipient, Users!GetID
  <2> QED
    BY <1>1, <2>1 DEF TableKnown
<1> QED
  BY <1>2, <1>3

LEMMA KnownLocal ==
    ASSUME TInv, KnownIDs, Next, NEW h \in Goroutine, NEW k \in 1..Len(job'[h].local)
    PROVE  uid2conn'[job'[h].local[k]] # "none"
<1>0. /\ job \in [Goroutine -> JobRec] /\ \A c \in Client : Entered(c) => Entered(c)'
      /\ JobsOK /\ TableKnown /\ Facts!NInv
      /\ \A g \in Goroutine : job[g].local \in Seq(Client)
      /\ \A g \in Goroutine : \A j \in 1..Len(job[g].local) :
           job[g].local[j] \in Client /\ Entered(job[g].local[j])
  <2>1. job \in [Goroutine -> JobRec] /\ JobsOK /\ TableKnown /\ Facts!NInv
    BY DEF TInv, JobsOK, KnownIDs
  <2>2. \A g \in Goroutine : job[g].local \in Seq(Client)
    BY <2>1 DEF JobRec
  <2> QED
    BY <2>1, <2>2, EnteredStays DEF KnownIDs
<1>1. CASE job'[h].local = job[h].local
  BY <1>0, <1>1 DEF Entered
<1>2. CASE job'[h].local = <<>>
  BY <1>2
<1>3. ASSUME NEW g \in Goroutine, PrivmsgName(g)
      PROVE  uid2conn'[job'[h].local[k]] # "none"
  <2> DEFINE id == Recipient(Head(job[g].msg.arg))
             r == [pc |-> "run", msg |-> [job[g].msg EXCEPT !.arg = Tail(@)],
                   local |-> IF id = NoID THEN job[g].local ELSE Append(job[g].local, id)]
  <2>1. /\ job[g].pc = "run" /\ job[g].msg.cmd \in {"PRIVMSG", "NOTICE"} /\ HasArg(g)
        /\ job[g].msg.arg # <<>> /\ job' = [job EXCEPT ![g] = r]
    BY <1>3, Zenon DEF PrivmsgName, At
  <2>2. job[g].msg.arg \in Seq(Name)
    BY <1>0, <2>1, JobArg
  <2>3. Head(job[g].msg.arg) \in Name
    BY <2>1, <2>2
  <2>4. id # NoID => id \in Client /\ Entered(id)
    BY <1>0, <2>3, FoundEntered
  <2>5. r.local = IF id = NoID THEN job[g].local ELSE Append(job[g].local, id)
    OBVIOUS
  <2> HIDE DEF id, r
  <2>6. CASE h # g \/ id = NoID
    <3>1. job'[h].local = job[h].local
      BY <1>0, <2>1, <2>5, <2>6
    <3> QED
      BY <1>1, <3>1
  <2>7. CASE h = g /\ id # NoID
    <3>1. job'[h].local = Append(job[h].local, id)
      BY <1>0, <2>1, <2>5, <2>7
    <3>2. \/ k \in 1..Len(job[h].local) /\ job'[h].local[k] = job[h].local[k]
          \/ job'[h].local[k] = id
      BY <1>0, <2>4, <2>7, <3>1
    <3> QED
      BY <1>0, <2>4, <2>7, <3>2 DEF Entered
  <2> QED
    BY <2>6, <2>7
<1>4. ASSUME Dispatch
      PROVE  job'[h].local \in {job[h].local, <<>>}
  <2>1. \/ UNCHANGED job
        \/ \E g \in Goroutine, pc \in {"run", "get"} :
             job' = [job EXCEPT ![g] = [pc |-> pc, msg |-> Head(fromClient), local |-> <<>>]]
    BY <1>4, Zenon DEF Dispatch
  <2>2. ASSUME NEW g \in Goroutine, NEW pc,
               job' = [job EXCEPT ![g] = [pc |-> pc, msg |-> Head(fromClient), local |-> <<>>]]
        PROVE  job'[h].local \in {job[h].local, <<>>}
    <3>1. job'[h] = job[h] \/ job'[h] = [pc |-> pc, msg |-> Head(fromClient), local |-> <<>>]
      BY <1>0, <2>2
    <3> QED
      BY <3>1
  <2> QED
    BY <2>1, <2>2
<1>5. ASSUME NEW g \in Goroutine, Hook(g), ~PrivmsgName(g)
      PROVE  job'[h].local \in {job[h].local, <<>>}
  <2>1. \/ UNCHANGED job
        \/ job' = [job EXCEPT ![g] = Idle]
        \/ \E pc : job' = [job EXCEPT ![g].pc = pc]
    BY <1>5, Zenon DEF Hook, Goto, ArgsPanic, Answer, PrivmsgSend, ConnRegGet, ConnRegNick, ConnRegUser,
                       ConnRegStore, ConnRegInfo, ConnRegReply
  <2>2. Idle.local = <<>>
    BY DEF Idle
  <2>3. CASE UNCHANGED job
    BY <2>3
  <2>4. CASE job' = [job EXCEPT ![g] = Idle]
    BY <1>0, <2>2, <2>4
  <2>5. ASSUME NEW pc, job' = [job EXCEPT ![g].pc = pc]
        PROVE  job'[h].local = job[h].local
    BY <1>0, <2>5 DEF JobRec
  <2> QED
    BY <2>1, <2>3, <2>4, <2>5
<1>6. CASE UNCHANGED job
  BY <1>1, <1>6
<1> QED
  BY <1>1, <1>2, <1>3, <1>4, <1>5, <1>6, JobsMove

LEMMA KnownReplies ==
    ASSUME TInv, KnownIDs, RepliesFindEntry, Next
    PROVE  RepliesFindEntry'
<1>0. /\ toClient \in Seq(Reply) /\ JobsOK /\ TableKnown /\ Facts!NInv
      /\ \A c \in Client : Entered(c) => Entered(c)'
      /\ \A i \in 1..Len(toClient) : \A k \in 1..Len(toClient[i].to) :
           toClient[i].to[k] \in Client /\ Entered(toClient[i].to[k])
  <2>1. toClient \in Seq(Reply) /\ JobsOK /\ TableKnown /\ Facts!NInv
    BY DEF TInv, QueuesOK, KnownIDs
  <2>2. \A i \in 1..Len(toClient) : toClient[i] \in Reply
    BY <2>1
  <2>3. \A i \in 1..Len(toClient) : toClient[i].to \in Seq(Client)
    BY <2>2 DEF Reply
  <2> QED
    BY <2>1, <2>3, EnteredStays DEF RepliesFindEntry
<1>1. CASE UNCHANGED toClient
  BY <1>0, <1>1 DEF RepliesFindEntry, Entered
<1>2. CASE Write
  <2>1. toClient # <<>> /\ toClient' = Tail(toClient)
    BY <1>2, Zenon DEF Write
  <2>2. \A i \in 1..Len(toClient') : i + 1 \in 1..Len(toClient) /\ toClient'[i] = toClient[i + 1]
    BY <1>0, <2>1
  <2> QED
    BY <1>0, <2>2 DEF RepliesFindEntry, Entered
<1>3. ASSUME NEW to \in Seq(Client), \A k \in 1..Len(to) : Entered(to[k]), NEW kind, Post(to, kind)
      PROVE  RepliesFindEntry'
  <2> DEFINE r == [to |-> to, kind |-> kind]
  <2>1. toClient' = Append(toClient, r) /\ r.to = to
    BY <1>3 DEF Post
  <2> HIDE DEF r
  <2>2. \A i \in 1..Len(toClient') : toClient'[i] = r \/ (i \in 1..Len(toClient) /\ toClient'[i] = toClient[i])
    BY <1>0, <2>1
  <2>3. \A k \in 1..Len(to) : to[k] \in Client
    OBVIOUS
  <2> QED
    BY <1>0, <1>3, <2>1, <2>2, <2>3 DEF RepliesFindEntry, Entered
<1>7. ASSUME NEW c \in Client, Entered(c), NEW kind, Post(<<c>>, kind)
      PROVE  RepliesFindEntry'
  <2>1. <<c>> \in Seq(Client) /\ \A k \in 1..Len(<<c>>) : <<c>>[k] = c
    OBVIOUS
  <2>2. \A k \in 1..Len(<<c>>) : Entered(<<c>>[k])
    BY <1>7, <2>1
  <2> QED
    BY <1>3, <1>7, <2>1, <2>2
<1>4. ASSUME NEW g \in Goroutine, ConnRegReply(g)
      PROVE  RepliesFindEntry'
  <2>1. job[g].pc \in {"signon", "error"} /\ \E kind : Post(<<job[g].msg.from>>, kind)
    BY <1>4, Zenon DEF ConnRegReply
  <2>2. job[g].msg.from \in Client /\ Entered(job[g].msg.from)
    BY <1>0, <2>1 DEF JobsOK, JobShape, Msg, KnownIDs
  <2> QED
    BY <1>7, <2>1, <2>2
<1>5. ASSUME NEW g \in Goroutine, Answer(g) \/ PrivmsgName(g)
      PROVE  RepliesFindEntry'
  <2>1. job[g].pc = "run" /\ (UNCHANGED toClient \/ \E kind : Post(<<job[g].msg.from>>, kind))
    BY <1>5, Zenon DEF Answer, PrivmsgName, At
  <2>2. job[g].msg.from \in Client /\ Entered(job[g].msg.from)
    BY <1>0, <2>1 DEF JobsOK, JobShape, Msg, KnownIDs
  <2> QED
    BY <1>1, <1>7, <2>1, <2>2
<1>8. ASSUME NEW g \in Goroutine, PrivmsgSend(g)
      PROVE  RepliesFindEntry'
  <2>1. UNCHANGED toClient \/ \E kind : Post(job[g].local, kind)
    BY <1>8, Zenon DEF PrivmsgSend
  <2>2. job[g].local \in Seq(Client) /\ \A k \in 1..Len(job[g].local) : Entered(job[g].local[k])
    BY <1>0 DEF JobsOK, JobRec, KnownIDs
  <2> QED
    BY <1>1, <1>3, <2>1, <2>2
<1>6. ASSUME \/ \E c \in Client : SendDirect(c) \/ Flush(c)
             \/ Dispatch \/ RemoteError
      PROVE  UNCHANGED toClient
  BY <1>6, Zenon DEF SendDirect, Flush, Dispatch, RemoteError
<1> QED
  BY <1>1, <1>2, <1>4, <1>5, <1>6, <1>8, QueuesMove

\* Every message the hooks send to a client, their answers and the messages
\* between users, is for a connection that manageClients has or has had: the
\* loop never finds a recipient without an entry (ircd.go:229-234), and
\* Write, WriteFails and WriteToNil are all the cases there are.
THEOREM RepliesFindEntryCorrect == Spec => []RepliesFindEntry
<1>1. Init => KnownIDs /\ RepliesFindEntry
  <2> SUFFICES ASSUME Init PROVE KnownIDs /\ RepliesFindEntry
    OBVIOUS
  <2>1. TableKnown
    BY SameRecords DEF Init, Users!Init, TableKnown, Users!NewUser, Users!Live
  <2> QED
    BY <2>1, IdleIsJob DEF Init, KnownIDs, ReaderAt, RepliesFindEntry, Idle
<1>2. TInv /\ KnownIDs /\ RepliesFindEntry /\ [Next]_vars => (KnownIDs /\ RepliesFindEntry)'
  <2>1. TInv /\ KnownIDs /\ RepliesFindEntry /\ Next => (KnownIDs /\ RepliesFindEntry)'
    <3> SUFFICES ASSUME TInv, KnownIDs, RepliesFindEntry, Next PROVE (KnownIDs /\ RepliesFindEntry)'
      OBVIOUS
    <3>1. \A i \in 1..Len(fromClient') : uid2conn'[fromClient'[i].from] # "none"
      BY KnownQueue
    <3>2. \A g \in Goroutine : job'[g].pc # "idle" => uid2conn'[job'[g].msg.from] # "none"
      BY KnownJobs
    <3>3. \A g \in Goroutine : \A k \in 1..Len(job'[g].local) : uid2conn'[job'[g].local[k]] # "none"
      BY KnownLocal
    <3> QED
      BY <3>1, <3>2, <3>3, KnownConns, TableStep, KnownReplies DEF KnownIDs, Entered
  <2>2. KnownIDs /\ RepliesFindEntry /\ UNCHANGED vars => (KnownIDs /\ RepliesFindEntry)'
    BY DEF KnownIDs, TableKnown, RepliesFindEntry, Entered, Users!Live, vars, registry
  <2> QED
    BY <2>1, <2>2
<1> QED
  BY <1>1, <1>2, Invariance, PTL DEF Spec

-----------------------------------------------------------------------------
(* The order of a client's lines. *)

\* The line with number n has got, by way of via, to place i of a stage.
On(c, stage, i, n, via) ==
    \/ /\ stage = 1 /\ i \in 1..Len(handled[c])
       /\ n = handled[c][i].n /\ via = handled[c][i].via
    \/ /\ stage = 2 /\ i \in 1..Len(fromClient) /\ fromClient[i].from = c
       /\ n = fromClient[i].n /\ via = fromClient[i].via
    \/ /\ stage = 3 /\ i \in 1..Len(manage[c].queued)
       /\ n = manage[c].queued[i].n /\ via = manage[c].queued[i].via
    \/ /\ stage = 4 /\ i = 1 /\ Sending(c)
       /\ n = reader[c].msg.n /\ via = reader[c].msg.via

Before(s, i, t, j) == s < t \/ (s = t /\ i < j)

\* A line on the way has been read; the queue of the registration is one
\* path, the reader the other; what the reader delivers is the last line read.
Placed(c) ==
    \A s, i, n \in Nat : \A via : On(c, s, i, n, via) =>
        /\ n <= lines[c]
        /\ s = 3 => via = "queue"
        /\ s = 4 => via = "reader" /\ n = lines[c]

Ordered(c) ==
    \A s, t, i, j, n, m \in Nat : \A v, w :
        On(c, s, i, n, v) /\ On(c, t, j, m, w) /\ Before(s, i, t, j) =>
            n # m /\ (v = w => n < m)

LinesOK == \A c \in Client : Placed(c) /\ Ordered(c)

LEMMA WayIs ==
    ASSUME TInv, NEW c \in Client, NEW x \in Way(c)
    PROVE  x.stage \in Nat /\ x.i \in Nat /\ x.n \in Nat /\ On(c, x.stage, x.i, x.n, x.via)
<1>0. /\ handled[c] \in Seq([n : Nat, via : {"reader", "queue"}]) /\ fromClient \in Seq(Msg)
      /\ manage[c].queued \in Seq(Msg)
      /\ Sending(c) => reader[c].msg.n \in Nat
  BY DEF TInv, QueuesOK, ManageOK, ManageRec, ReadersOK, Msg
<1>1. CASE \E i \in DOMAIN handled[c] : x = [stage |-> 1, i |-> i, n |-> handled[c][i].n, via |-> handled[c][i].via]
  <2>1. PICK i \in 1..Len(handled[c]) : x = [stage |-> 1, i |-> i, n |-> handled[c][i].n, via |-> handled[c][i].via]
    BY <1>0, <1>1
  <2>2. handled[c][i].n \in Nat
    <3> DEFINE T == [n : Nat, via : {"reader", "queue"}]
    <3>1. handled[c] \in Seq(T)
      BY <1>0
    <3> HIDE DEF T
    <3>2. handled[c][i] \in T
      BY <3>1
    <3> QED
      BY <3>2 DEF T
  <2>3. x.stage = 1 /\ x.i = i /\ x.n = handled[c][i].n /\ x.via = handled[c][i].via
    BY <2>1
  <2> QED
    BY <2>2, <2>3 DEF On
<1>2. CASE \E i \in {j \in DOMAIN fromClient : fromClient[j].from = c} :
             x = [stage |-> 2, i |-> i, n |-> fromClient[i].n, via |-> fromClient[i].via]
  <2>1. PICK i \in 1..Len(fromClient) :
           fromClient[i].from = c /\ x = [stage |-> 2, i |-> i, n |-> fromClient[i].n, via |-> fromClient[i].via]
    BY <1>0, <1>2
  <2>2. fromClient[i] \in Msg
    BY <1>0
  <2>3. x.stage = 2 /\ x.i = i /\ x.n = fromClient[i].n /\ x.via = fromClient[i].via
    BY <2>1
  <2> QED
    BY <2>1, <2>2, <2>3 DEF On, Msg
<1>3. CASE \E i \in DOMAIN manage[c].queued :
             x = [stage |-> 3, i |-> i, n |-> manage[c].queued[i].n, via |-> manage[c].queued[i].via]
  <2>1. PICK i \in 1..Len(manage[c].queued) :
           x = [stage |-> 3, i |-> i, n |-> manage[c].queued[i].n, via |-> manage[c].queued[i].via]
    BY <1>0, <1>3
  <2>2. manage[c].queued[i] \in Msg
    BY <1>0
  <2>3. x.stage = 3 /\ x.i = i /\ x.n = manage[c].queued[i].n /\ x.via = manage[c].queued[i].via
    BY <2>1
  <2> QED
    BY <2>1, <2>2, <2>3 DEF On, Msg
<1>4. CASE \E m \in IF reader[c].pc \in {"inc", "fromClient"} THEN {reader[c].msg} ELSE {} :
             x = [stage |-> 4, i |-> 1, n |-> m.n, via |-> m.via]
  <2>1. Sending(c) /\ x = [stage |-> 4, i |-> 1, n |-> reader[c].msg.n, via |-> reader[c].msg.via]
    BY <1>4 DEF Sending
  <2>2. x.stage = 4 /\ x.i = 1 /\ x.n = reader[c].msg.n /\ x.via = reader[c].msg.via
    BY <2>1
  <2> QED
    BY <1>0, <2>1, <2>2 DEF On
<1> QED
  BY <1>1, <1>2, <1>3, <1>4, Zenon DEF Way

LEMMA LinesSuffice == TInv /\ LinesOK => EachLineOnce
<1> SUFFICES ASSUME TInv, LinesOK, NEW c \in Client, NEW x \in Way(c), NEW y \in Way(c), Ahead(x, y)
             PROVE  x.n # y.n /\ (x.via = y.via => x.n < y.n)
  BY DEF EachLineOnce
<1>1. On(c, x.stage, x.i, x.n, x.via) /\ On(c, y.stage, y.i, y.n, y.via)
  BY WayIs
<1>2. x.stage \in Nat /\ x.i \in Nat /\ x.n \in Nat /\ y.stage \in Nat /\ y.i \in Nat /\ y.n \in Nat
  BY WayIs
<1>3. Before(x.stage, x.i, y.stage, y.i)
  BY DEF Ahead, Before
<1> QED
  BY <1>1, <1>2, <1>3 DEF LinesOK, Ordered

\* How the places of a client's lines change: not, or fewer; the reader has one
\* more; it goes to fromClient; or to the queue; the queue's first goes to
\* fromClient; the first of fromClient is handled.  len is the length before.
PlacesKept(c) == \A s, i, n \in Nat : \A v : On(c, s, i, n, v)' => On(c, s, i, n, v)
PlacesRead(c) ==
    \A s, i, n \in Nat : \A v : On(c, s, i, n, v)' =>
        \/ s \in 1..3 /\ On(c, s, i, n, v)
        \/ s = 4 /\ i = 1 /\ n = lines[c] + 1 /\ v = "reader"
PlacesSent(c, len) ==
    \A s, i, n \in Nat : \A v : On(c, s, i, n, v)' =>
        \/ s \in 1..3 /\ On(c, s, i, n, v) /\ (s = 2 => i <= len)
        \/ s = 2 /\ i = len + 1 /\ On(c, 4, 1, n, v)
PlacesCollected(c, len) ==
    \A s, i, n \in Nat : \A v : On(c, s, i, n, v)' =>
        \/ s \in 1..3 /\ On(c, s, i, n, v) /\ (s = 3 => i <= len)
        \/ s = 3 /\ i = len + 1 /\ v = "queue" /\ On(c, 4, 1, n, "reader")
PlacesFlushed(c, len) ==
    \A s, i, n \in Nat : \A v : On(c, s, i, n, v)' =>
        \/ s \in {1, 2, 4} /\ On(c, s, i, n, v) /\ (s = 2 => i <= len)
        \/ s = 2 /\ i = len + 1 /\ On(c, 3, 1, n, v)
        \/ s = 3 /\ i >= 1 /\ On(c, 3, i + 1, n, v)
PlacesHandled(c, len) ==
    \A s, i, n \in Nat : \A v : On(c, s, i, n, v)' =>
        \/ s \in {1, 3, 4} /\ On(c, s, i, n, v) /\ (s = 1 => i <= len)
        \/ s = 1 /\ i = len + 1 /\ On(c, 2, 1, n, v)
        \/ s = 2 /\ i >= 1 /\ On(c, 2, i + 1, n, v)
\* The first of fromClient is another client's.
PlacesShifted(c) ==
    \A s, i, n \in Nat : \A v : On(c, s, i, n, v)' =>
        \/ s \in {1, 3, 4} /\ On(c, s, i, n, v)
        \/ s = 2 /\ On(c, 2, i + 1, n, v)

LEMMA BeforeSame == \A s, i, t, j \in Nat : Before(s, i, t, j)' <=> Before(s, i, t, j)
BY DEF Before

LEMMA OrderedNext ==
    ASSUME NEW c \in Client,
           \A s, t, i, j, n, m \in Nat : \A v, w :
               On(c, s, i, n, v)' /\ On(c, t, j, m, w)' /\ Before(s, i, t, j) =>
                   n # m /\ (v = w => n < m)
    PROVE  Ordered(c)'
BY BeforeSame, Zenon DEF Ordered

LEMMA OneFour == 1 \in Nat /\ 4 \in Nat
OBVIOUS

\* Each of the changes keeps the order.
LEMMA OrderKept ==
    ASSUME NEW c \in Client, Placed(c), Ordered(c), lines'[c] = lines[c], PlacesKept(c)
    PROVE  (Placed(c) /\ Ordered(c))'
<1>1. Placed(c)'
  BY DEF Placed, PlacesKept
<1>2. Ordered(c)'
  <2> SUFFICES ASSUME NEW s \in Nat, NEW t \in Nat, NEW i \in Nat, NEW j \in Nat, NEW n \in Nat, NEW m \in Nat,
                      NEW v, NEW w, On(c, s, i, n, v)', On(c, t, j, m, w)', Before(s, i, t, j)
               PROVE  n # m /\ (v = w => n < m)
    BY OrderedNext, ZenonT(80)
  <2>1. On(c, s, i, n, v) /\ On(c, t, j, m, w)
    BY Zenon DEF PlacesKept
  <2> QED
    BY <2>1, Zenon DEF Ordered
<1> QED
  BY <1>1, <1>2

LEMMA OrderRead ==
    ASSUME NEW c \in Client, Placed(c), Ordered(c), lines[c] \in Nat, lines'[c] = lines[c] + 1,
           PlacesRead(c)
    PROVE  (Placed(c) /\ Ordered(c))'
<1>1. Placed(c)'
  <2> SUFFICES ASSUME NEW s \in Nat, NEW i \in Nat, NEW n \in Nat, NEW v, On(c, s, i, n, v)'
               PROVE  /\ n <= lines'[c]
                      /\ s = 3 => v = "queue"
                      /\ s = 4 => v = "reader" /\ n = lines'[c]
    BY DEF Placed
  <2>1. CASE s \in 1..3 /\ On(c, s, i, n, v)
    <3>1. n <= lines[c] /\ (s = 3 => v = "queue") /\ s # 4
      BY <2>1 DEF Placed
    <3> QED
      BY <3>1
  <2> QED
    BY <2>1 DEF PlacesRead
<1>2. Ordered(c)'
  <2> SUFFICES ASSUME NEW s \in Nat, NEW t \in Nat, NEW i \in Nat, NEW j \in Nat, NEW n \in Nat, NEW m \in Nat,
                      NEW v, NEW w, On(c, s, i, n, v)', On(c, t, j, m, w)', Before(s, i, t, j)
               PROVE  n # m /\ (v = w => n < m)
    BY OrderedNext, ZenonT(80)
  <2>1. CASE On(c, s, i, n, v) /\ On(c, t, j, m, w)
    BY <2>1, Zenon DEF Ordered
  <2>2. CASE On(c, s, i, n, v) /\ t = 4 /\ m = lines[c] + 1
    <3>1. n <= lines[c]
      BY <2>2 DEF Placed
    <3> QED
      BY <2>2, <3>1
  <2>3. CASE s = 4 /\ i = 1
    BY <2>3 DEF Before, PlacesRead
  <2> QED
    BY <2>1, <2>2, <2>3 DEF PlacesRead
<1> QED
  BY <1>1, <1>2

LEMMA OrderSent ==
    ASSUME NEW c \in Client, Placed(c), Ordered(c), UNCHANGED lines, NEW len \in Nat,
           PlacesSent(c, len)
    PROVE  (Placed(c) /\ Ordered(c))'
<1>1. Placed(c)'
  BY DEF Placed, PlacesSent
<1>2. Ordered(c)'
  <2> SUFFICES ASSUME NEW s \in Nat, NEW t \in Nat, NEW i \in Nat, NEW j \in Nat, NEW n \in Nat, NEW m \in Nat,
                      NEW v, NEW w, On(c, s, i, n, v)', On(c, t, j, m, w)', Before(s, i, t, j)
               PROVE  n # m /\ (v = w => n < m)
    BY OrderedNext, ZenonT(80)
  <2>1. CASE On(c, s, i, n, v) /\ On(c, t, j, m, w)
    BY <2>1, Zenon DEF Ordered
  <2>2. CASE s \in 1..3 /\ On(c, s, i, n, v) /\ On(c, 4, 1, m, w)
    <3>1. Before(s, i, 4, 1)
      BY <2>2 DEF Before
    <3> QED
      BY <2>2, <3>1, OneFour, Zenon DEF Ordered
  <2>3. CASE s = 2 /\ i = len + 1 /\ On(c, 4, 1, n, v) /\ t \in 1..3 /\ On(c, t, j, m, w) /\ (t = 2 => j <= len)
    <3>1. t = 3 /\ Before(t, j, 4, 1)
      BY <2>3 DEF Before
    <3>2. m # n
      BY <2>3, <3>1, OneFour, Zenon DEF Ordered
    <3>3. v = "reader" /\ w = "queue"
      BY <2>3, <3>1 DEF Placed
    <3> QED
      BY <3>2, <3>3
  <2>4. ~(s = 2 /\ i = len + 1 /\ t = 2 /\ j = len + 1)
    BY DEF Before
  <2> QED
    BY <2>1, <2>2, <2>3, <2>4 DEF PlacesSent
<1> QED
  BY <1>1, <1>2

LEMMA OrderCollected ==
    ASSUME NEW c \in Client, Placed(c), Ordered(c), UNCHANGED lines, NEW len \in Nat,
           PlacesCollected(c, len)
    PROVE  (Placed(c) /\ Ordered(c))'
<1>1. Placed(c)'
  BY DEF Placed, PlacesCollected
<1>2. Ordered(c)'
  <2> SUFFICES ASSUME NEW s \in Nat, NEW t \in Nat, NEW i \in Nat, NEW j \in Nat, NEW n \in Nat, NEW m \in Nat,
                      NEW v, NEW w, On(c, s, i, n, v)', On(c, t, j, m, w)', Before(s, i, t, j)
               PROVE  n # m /\ (v = w => n < m)
    BY OrderedNext, ZenonT(80)
  <2>1. CASE On(c, s, i, n, v) /\ On(c, t, j, m, w)
    BY <2>1, Zenon DEF Ordered
  <2>2. CASE s \in 1..3 /\ On(c, s, i, n, v) /\ On(c, 4, 1, m, "reader")
    <3>1. Before(s, i, 4, 1)
      BY <2>2 DEF Before
    <3>2. n <= lines[c] /\ m = lines[c]
      BY <2>2 DEF Placed
    <3>3. n # m
      BY <2>2, <3>1, OneFour, Zenon DEF Ordered
    <3> QED
      BY <3>2, <3>3
  <2>3. ~(s = 3 /\ i = len + 1 /\ t \in 1..3 /\ (t = 3 => j <= len + 1))
    BY DEF Before
  <2> QED
    BY <2>1, <2>2, <2>3 DEF PlacesCollected
<1> QED
  BY <1>1, <1>2

LEMMA OrderFlushed ==
    ASSUME NEW c \in Client, Placed(c), Ordered(c), UNCHANGED lines, NEW len \in Nat,
           PlacesFlushed(c, len)
    PROVE  (Placed(c) /\ Ordered(c))'
<1>1. Placed(c)'
  <2> SUFFICES ASSUME NEW s \in Nat, NEW i \in Nat, NEW n \in Nat, NEW v, On(c, s, i, n, v)'
               PROVE  /\ n <= lines'[c]
                      /\ s = 3 => v = "queue"
                      /\ s = 4 => v = "reader" /\ n = lines'[c]
    BY DEF Placed
  <2>1. i + 1 \in Nat
    OBVIOUS
  <2> QED
    BY <2>1 DEF Placed, PlacesFlushed
<1>2. Ordered(c)'
  <2> SUFFICES ASSUME NEW s \in Nat, NEW t \in Nat, NEW i \in Nat, NEW j \in Nat, NEW n \in Nat, NEW m \in Nat,
                      NEW v, NEW w, On(c, s, i, n, v)', On(c, t, j, m, w)', Before(s, i, t, j)
               PROVE  n # m /\ (v = w => n < m)
    BY OrderedNext, ZenonT(80)
  <2>1. \E k, l \in Nat : \E a, b \in Nat :
          On(c, a, k, n, v) /\ On(c, b, l, m, w) /\ Before(a, k, b, l)
    <3>1. i + 1 \in Nat /\ j + 1 \in Nat
      OBVIOUS
    <3>2. CASE s \in {1, 2, 4} /\ On(c, s, i, n, v) /\ (s = 2 => i <= len)
      <4>1. CASE t \in {1, 2, 4} /\ On(c, t, j, m, w)
        BY <3>2, <4>1
      <4>2. CASE t = 2 /\ j = len + 1 /\ On(c, 3, 1, m, w)
        <5>1. Before(s, i, 3, 1)
          BY <3>2, <4>2 DEF Before
        <5> QED
          BY <3>2, <4>2, <5>1
      <4>3. CASE t = 3 /\ On(c, 3, j + 1, m, w)
        <5>1. Before(s, i, 3, j + 1)
          BY <3>2, <4>3 DEF Before
        <5> QED
          BY <3>1, <3>2, <4>3, <5>1
      <4> QED
        BY <4>1, <4>2, <4>3 DEF PlacesFlushed
    <3>3. CASE s = 2 /\ i = len + 1 /\ On(c, 3, 1, n, v)
      <4>1. CASE t = 4 /\ On(c, t, j, m, w)
        <5>1. Before(3, 1, t, j)
          BY <4>1 DEF Before
        <5> QED
          BY <3>3, <4>1, <5>1
      <4>2. CASE t = 3 /\ j >= 1 /\ On(c, 3, j + 1, m, w)
        <5>1. Before(3, 1, 3, j + 1)
          BY <4>2 DEF Before
        <5> QED
          BY <3>1, <3>3, <4>2, <5>1
      <4>3. t \in {3, 4}
        BY <3>3 DEF Before, PlacesFlushed
      <4> QED
        BY <4>1, <4>2, <4>3 DEF PlacesFlushed
    <3>4. CASE s = 3 /\ On(c, 3, i + 1, n, v)
      <4>1. CASE t = 4 /\ On(c, t, j, m, w)
        <5>1. Before(3, i + 1, t, j)
          BY <4>1 DEF Before
        <5> QED
          BY <3>1, <3>4, <4>1, <5>1
      <4>2. CASE t = 3 /\ On(c, 3, j + 1, m, w)
        <5>1. Before(3, i + 1, 3, j + 1)
          BY <3>4, <4>2 DEF Before
        <5> QED
          BY <3>1, <3>4, <4>2, <5>1
      <4>3. t \in {3, 4}
        BY <3>4 DEF Before, PlacesFlushed
      <4> QED
        BY <4>1, <4>2, <4>3 DEF PlacesFlushed
    <3> QED
      BY <3>2, <3>3, <3>4 DEF PlacesFlushed
  <2> QED
    BY <2>1, Zenon DEF Ordered
<1> QED
  BY <1>1, <1>2

LEMMA OrderHandled ==
    ASSUME NEW c \in Client, Placed(c), Ordered(c), UNCHANGED lines, NEW len \in Nat,
           PlacesHandled(c, len)
    PROVE  (Placed(c) /\ Ordered(c))'
<1>1. Placed(c)'
  <2> SUFFICES ASSUME NEW s \in Nat, NEW i \in Nat, NEW n \in Nat, NEW v, On(c, s, i, n, v)'
               PROVE  /\ n <= lines'[c]
                      /\ s = 3 => v = "queue"
                      /\ s = 4 => v = "reader" /\ n = lines'[c]
    BY DEF Placed
  <2>1. i + 1 \in Nat
    OBVIOUS
  <2> QED
    BY <2>1 DEF Placed, PlacesHandled
<1>2. Ordered(c)'
  <2> SUFFICES ASSUME NEW s \in Nat, NEW t \in Nat, NEW i \in Nat, NEW j \in Nat, NEW n \in Nat, NEW m \in Nat,
                      NEW v, NEW w, On(c, s, i, n, v)', On(c, t, j, m, w)', Before(s, i, t, j)
               PROVE  n # m /\ (v = w => n < m)
    BY OrderedNext, ZenonT(80)
  <2>1. \E k, l \in Nat : \E a, b \in Nat :
          On(c, a, k, n, v) /\ On(c, b, l, m, w) /\ Before(a, k, b, l)
    <3>1. i + 1 \in Nat /\ j + 1 \in Nat
      OBVIOUS
    <3>2. CASE s \in {1, 3, 4} /\ On(c, s, i, n, v) /\ (s = 1 => i <= len)
      <4>1. CASE t \in {1, 3, 4} /\ On(c, t, j, m, w)
        BY <3>2, <4>1
      <4>2. CASE t = 1 /\ j = len + 1 /\ On(c, 2, 1, m, w)
        <5>1. Before(s, i, 2, 1)
          BY <3>2, <4>2 DEF Before
        <5> QED
          BY <3>2, <4>2, <5>1
      <4>3. CASE t = 2 /\ On(c, 2, j + 1, m, w)
        <5>1. Before(s, i, 2, j + 1)
          BY <3>2, <4>3 DEF Before
        <5> QED
          BY <3>1, <3>2, <4>3, <5>1
      <4> QED
        BY <4>1, <4>2, <4>3 DEF PlacesHandled
    <3>3. CASE s = 1 /\ i = len + 1 /\ On(c, 2, 1, n, v)
      <4>1. CASE t \in {3, 4} /\ On(c, t, j, m, w)
        <5>1. Before(2, 1, t, j)
          BY <4>1 DEF Before
        <5> QED
          BY <3>3, <4>1, <5>1
      <4>2. CASE t = 2 /\ j >= 1 /\ On(c, 2, j + 1, m, w)
        <5>1. Before(2, 1, 2, j + 1)
          BY <4>2 DEF Before
        <5> QED
          BY <3>1, <3>3, <4>2, <5>1
      <4>3. t # 1 \/ j > len + 1
        BY <3>3 DEF Before, PlacesHandled
      <4> QED
        BY <4>1, <4>2, <4>3 DEF PlacesHandled
    <3>4. CASE s = 2 /\ On(c, 2, i + 1, n, v)
      <4>1. CASE t \in {3, 4} /\ On(c, t, j, m, w)
        <5>1. Before(2, i + 1, t, j)
          BY <4>1 DEF Before
        <5> QED
          BY <3>1, <3>4, <4>1, <5>1
      <4>2. CASE t = 2 /\ On(c, 2, j + 1, m, w)
        <5>1. Before(2, i + 1, 2, j + 1)
          BY <3>4, <4>2 DEF Before
        <5> QED
          BY <3>1, <3>4, <4>2, <5>1
      <4>3. t # 1
        BY <3>4 DEF Before, PlacesHandled
      <4> QED
        BY <4>1, <4>2, <4>3 DEF PlacesHandled
    <3> QED
      BY <3>2, <3>3, <3>4 DEF PlacesHandled
  <2> QED
    BY <2>1, Zenon DEF Ordered
<1> QED
  BY <1>1, <1>2

LEMMA OrderShifted ==
    ASSUME NEW c \in Client, Placed(c), Ordered(c), UNCHANGED lines, PlacesShifted(c)
    PROVE  (Placed(c) /\ Ordered(c))'
<1>1. Placed(c)'
  <2> SUFFICES ASSUME NEW s \in Nat, NEW i \in Nat, NEW n \in Nat, NEW v, On(c, s, i, n, v)'
               PROVE  /\ n <= lines'[c]
                      /\ s = 3 => v = "queue"
                      /\ s = 4 => v = "reader" /\ n = lines'[c]
    BY DEF Placed
  <2>1. i + 1 \in Nat
    OBVIOUS
  <2> QED
    BY <2>1 DEF Placed, PlacesShifted
<1>2. Ordered(c)'
  <2> SUFFICES ASSUME NEW s \in Nat, NEW t \in Nat, NEW i \in Nat, NEW j \in Nat, NEW n \in Nat, NEW m \in Nat,
                      NEW v, NEW w, On(c, s, i, n, v)', On(c, t, j, m, w)', Before(s, i, t, j)
               PROVE  n # m /\ (v = w => n < m)
    BY OrderedNext, ZenonT(80)
  <2>1. \E k, l \in Nat : On(c, s, k, n, v) /\ On(c, t, l, m, w) /\ Before(s, k, t, l)
    <3>1. i + 1 \in Nat /\ j + 1 \in Nat
      OBVIOUS
    <3>2. CASE s # t
      <4>1. \A k, l : Before(s, k, t, l)
        BY <3>2 DEF Before
      <4>2. \E k \in Nat : On(c, s, k, n, v)
        BY <3>1 DEF PlacesShifted
      <4>3. \E l \in Nat : On(c, t, l, m, w)
        BY <3>1 DEF PlacesShifted
      <4> QED
        BY <4>1, <4>2, <4>3
    <3>3. CASE s = t
      <4>1. Before(s, i + 1, t, j + 1)
        BY <3>3 DEF Before
      <4> QED
        BY <3>1, <3>3, <4>1 DEF PlacesShifted
    <3> QED
      BY <3>2, <3>3
  <2> QED
    BY <2>1, Zenon DEF Ordered
<1> QED
  BY <1>1, <1>2

\* The actions, and what each does to the places.
LEMMA LinesMove ==
    ASSUME Next
    PROVE  \/ \E c \in Client :
                \/ ReadLine(c) \/ ReadError(c) \/ SendDirect(c) \/ Closing(c)
                \/ Accept(c) \/ Collect(c) \/ Stop(c) \/ Flush(c)
           \/ Dispatch \/ RemoteError
           \/ /\ UNCHANGED <<reader, lines, fromClient, handled>>
              /\ UNCHANGED manage \/ \E c \in Client, pc \in {"collecting", "offering", "flushing"} :
                                        manage' = [manage EXCEPT ![c].pc = pc]
<1>1. ASSUME NEW c \in Client, PeerLeaves(c) \/ AdoptClose(c)
      PROVE  UNCHANGED <<reader, lines, fromClient, handled, manage>>
  BY <1>1, Zenon DEF PeerLeaves, AdoptClose
<1>2. ASSUME NEW c \in Client, SubscribeStop(c) \/ Leave(c) \/ Adopt(c)
      PROVE  /\ UNCHANGED <<reader, lines, fromClient, handled>>
             /\ \E pc \in {"collecting", "offering", "flushing"} : manage' = [manage EXCEPT ![c].pc = pc]
  BY <1>2, Zenon DEF SubscribeStop, Leave, Adopt
<1>3. ASSUME Write \/ WriteFails \/ WriteToNil
      PROVE  UNCHANGED <<reader, lines, fromClient, handled, manage>>
  BY <1>3, Zenon DEF Write, WriteFails, WriteToNil
<1>4. ASSUME NEW g \in Goroutine, Hook(g)
      PROVE  UNCHANGED <<reader, lines, fromClient, handled, manage>>
  BY <1>4, Zenon DEF Hook, ArgsPanic, Answer, PrivmsgName, PrivmsgSend, ConnRegGet, ConnRegNick,
                     ConnRegUser, ConnRegStore, ConnRegInfo, ConnRegReply, Rest
<1>5. UNCHANGED <<reader, lines, fromClient, handled, manage>> =>
        UNCHANGED <<reader, lines, fromClient, handled>> /\ UNCHANGED manage
  BY Zenon
<1> QED
  BY <1>1, <1>2, <1>3, <1>4, <1>5, Zenon DEF Next, Loop, Incoming

LEMMA LinesStep ==
    ASSUME TInv, LinesOK, Next, NEW c \in Client
    PROVE  (Placed(c) /\ Ordered(c))'
<1>0. /\ Placed(c) /\ Ordered(c)
      /\ reader \in [Client -> ReaderRec] /\ manage \in [Client -> ManageRec]
      /\ lines \in [Client -> Nat] /\ fromClient \in Seq(Msg)
      /\ handled \in [Client -> Seq([n : Nat, via : {"reader", "queue"}])]
      /\ QueuesOK /\ ReadersOK
  BY DEF LinesOK, TInv, ReadersOK, ManageOK, QueuesOK
<1>1. CASE /\ UNCHANGED <<reader, lines, fromClient, handled>>
           /\ UNCHANGED manage \/ \E d \in Client, pc \in {"collecting", "offering", "flushing"} :
                                     manage' = [manage EXCEPT ![d].pc = pc]
  <2>1. manage'[c].queued = manage[c].queued
    <3>1. CASE UNCHANGED manage
      BY <3>1
    <3>2. CASE ~UNCHANGED manage
      <4>1. PICK d \in Client, pc \in {"collecting", "offering", "flushing"} :
               manage' = [manage EXCEPT ![d].pc = pc]
        BY <1>1, <3>2
      <4> QED
        BY <1>0, <4>1 DEF ManageRec
    <3> QED
      BY <3>1, <3>2
  <2>2. PlacesKept(c)
    BY <1>1, <2>1 DEF PlacesKept, On, Sending
  <2>3. UNCHANGED lines
    BY <1>1
  <2> QED
    BY <1>0, <2>2, <2>3, OrderKept
<1>2. ASSUME NEW d \in Client, ReadLine(d)
      PROVE  (Placed(c) /\ Ordered(c))'
  <2>1. /\ lines' = [lines EXCEPT ![d] = @ + 1] /\ reader[d].pc = "reading"
        /\ \/ UNCHANGED reader
           \/ \E pc \in {"inc", "fromClient"}, m \in Msg :
                /\ reader' = [reader EXCEPT ![d] = [pc |-> pc, msg |-> m]]
                /\ m.n = lines[d] + 1 /\ m.via = "reader"
    BY <1>0, <1>2, NextLine
  <2>2. UNCHANGED <<manage, fromClient, handled>>
    BY <1>2, Zenon DEF ReadLine
  <2>3. CASE d # c
    <3>1. reader'[c] = reader[c] /\ lines'[c] = lines[c]
      BY <1>0, <2>1, <2>3
    <3>2. PlacesKept(c)
      BY <2>2, <3>1 DEF PlacesKept, On, Sending
    <3> QED
      BY <1>0, <3>1, <3>2, OrderKept
  <2>4. CASE d = c
    <3>1. lines'[c] = lines[c] + 1 /\ ~Sending(c)
      BY <1>0, <2>1, <2>4 DEF Sending
    <3>2. ~Sending(c)' \/ (reader'[c].msg.n = lines[c] + 1 /\ reader'[c].msg.via = "reader")
      BY <1>0, <2>1, <2>4, <3>1 DEF Sending
    <3>3. PlacesRead(c)
      BY <2>2, <3>2 DEF PlacesRead, On
    <3> QED
      BY <1>0, <3>1, <3>3, OrderRead
  <2> QED
    BY <2>3, <2>4
<1>3. ASSUME NEW d \in Client, ReadError(d) \/ Stop(d) \/ Closing(d) \/ Accept(d)
      PROVE  (Placed(c) /\ Ordered(c))'
  <2>1. UNCHANGED <<lines, fromClient, handled>>
    BY <1>3, Zenon DEF ReadError, Stop, Closing, Accept
  <2>2. Sending(c)' => Sending(c) /\ reader'[c] = reader[c]
    <3>1. conn[d].onclose \in SUBSET {"stop", "clientClosing"}
      BY <1>0 DEF ReadersOK, ConnRec
    <3>2. conn[d].onclose # {} => (CHOOSE ch \in conn[d].onclose : TRUE) \in {"stop", "clientClosing"}
      BY <3>1, Choice
    <3>3. \/ \E pc \in {"done", "stop", "clientClosing"} : reader' = [reader EXCEPT ![d] = ReaderAt(pc)]
          \/ reader' = [reader EXCEPT ![d].pc = "reading"]
      BY <1>3, <3>2, Zenon DEF ReadError, Stop, Closing, Accept
    <3>4. CASE \E pc \in {"done", "stop", "clientClosing"} : reader' = [reader EXCEPT ![d] = ReaderAt(pc)]
      BY <1>0, <3>4 DEF ReaderAt, Sending
    <3>5. CASE reader' = [reader EXCEPT ![d].pc = "reading"]
      BY <1>0, <3>5 DEF ReaderRec, Sending
    <3> QED
      BY <3>3, <3>4, <3>5
  <2>3. manage'[c].queued = manage[c].queued \/ manage'[c].queued = <<>>
    <3>1. \/ UNCHANGED manage
          \/ manage' = [manage EXCEPT ![d] = [pc |-> "done", queued |-> <<>>]]
          \/ manage' = [manage EXCEPT ![d].pc = "subscribing"]
      BY <1>3, Zenon DEF ReadError, Stop, Closing, Accept
    <3>2. CASE manage' = [manage EXCEPT ![d] = [pc |-> "done", queued |-> <<>>]]
      BY <1>0, <3>2
    <3>3. CASE manage' = [manage EXCEPT ![d].pc = "subscribing"]
      BY <1>0, <3>3 DEF ManageRec
    <3> QED
      BY <3>1, <3>2, <3>3
  <2>4. \A i \in 1..Len(manage'[c].queued) :
          manage'[c].queued = manage[c].queued
    BY <2>3
  <2>5. PlacesKept(c)
    BY <2>1, <2>2, <2>4 DEF PlacesKept, On
  <2> QED
    BY <1>0, <2>1, <2>5, OrderKept
<1>4. ASSUME NEW d \in Client, SendDirect(d)
      PROVE  (Placed(c) /\ Ordered(c))'
  <2> DEFINE m == reader[d].msg
             len == Len(fromClient)
  <2>1. /\ reader[d].pc = "fromClient" /\ reader' = [reader EXCEPT ![d] = ReaderAt("reading")]
        /\ fromClient' = Append(fromClient, m) /\ UNCHANGED <<lines, manage, handled>>
    BY <1>4, Zenon DEF SendDirect
  <2>2. m \in Msg /\ m.from = d /\ Sending(d)
    BY <1>0, <2>1 DEF ReadersOK, Sending
  <2>3. /\ len \in Nat
        /\ \A i \in 1..Len(fromClient') : \/ i \in 1..len /\ fromClient'[i] = fromClient[i]
                                          \/ i = len + 1 /\ fromClient'[i] = m
    BY <1>0, <2>1, <2>2
  <2>4. CASE d # c
    <3>1. reader'[c] = reader[c]
      BY <1>0, <2>1, <2>4
    <3>2. PlacesKept(c)
      BY <2>1, <2>2, <2>3, <2>4, <3>1 DEF PlacesKept, On, Sending
    <3> QED
      BY <1>0, <2>1, <3>2, OrderKept
  <2>5. CASE d = c
    <3>1. ~Sending(c)'
      BY <1>0, <2>1, <2>5 DEF Sending, ReaderAt
    <3>2. PlacesSent(c, len)
      BY <2>1, <2>2, <2>3, <2>5, <3>1 DEF PlacesSent, On
    <3> QED
      BY <1>0, <2>1, <2>3, <3>2, OrderSent
  <2> QED
    BY <2>4, <2>5
<1>5. ASSUME NEW d \in Client, Collect(d)
      PROVE  (Placed(c) /\ Ordered(c))'
  <2> DEFINE m == [reader[d].msg EXCEPT !.via = "queue"]
             old == manage[d].queued
             len == Len(old)
             new == Append(old, m)
  <2>1. /\ reader[d].pc = "inc" /\ reader' = [reader EXCEPT ![d] = ReaderAt("reading")]
        /\ \E pc : manage' = [manage EXCEPT ![d] = [pc |-> pc, queued |-> new]]
        /\ UNCHANGED <<lines, fromClient, handled>>
    BY <1>5, Zenon DEF Collect
  <2>2. /\ reader[d].msg \in Msg /\ Sending(d)
        /\ m \in Msg /\ m.n = reader[d].msg.n /\ m.via = "queue"
    <3>1. reader[d].msg \in Msg /\ Sending(d)
      BY <1>0, <2>1 DEF ReadersOK, Sending
    <3> QED
      BY <3>1 DEF Msg
  <2>3. old \in Seq(Msg)
    BY <1>0 DEF ManageRec
  <2> HIDE DEF m, old
  <2>4. /\ len \in Nat
        /\ \A i \in 1..Len(new) : \/ i \in 1..len /\ new[i] = old[i]
                                  \/ i = len + 1 /\ new[i] = m
    BY <2>2, <2>3
  <2> HIDE DEF new, len
  <2>5. CASE d # c
    <3>1. reader'[c] = reader[c] /\ manage'[c] = manage[c]
      BY <1>0, <2>1, <2>5
    <3>2. PlacesKept(c)
      BY <2>1, <3>1 DEF PlacesKept, On, Sending
    <3> QED
      BY <1>0, <2>1, <3>2, OrderKept
  <2>6. CASE d = c
    <3>1. ~Sending(c)' /\ manage'[c].queued = new
      BY <1>0, <2>1, <2>6 DEF Sending, ReaderAt
    <3>2. reader[c].msg.via = "reader"
      <4>1. On(c, 4, 1, reader[c].msg.n, reader[c].msg.via)
        BY <2>2, <2>6 DEF On
      <4>2. reader[c].msg.n \in Nat
        BY <2>2, <2>6 DEF Msg
      <4> QED
        BY <1>0, <4>1, <4>2 DEF Placed
    <3>3. On(c, 4, 1, m.n, "reader")
      BY <2>2, <2>6, <3>2 DEF On
    <3>4. \A i : i \in 1..len => i \in 1..Len(manage[c].queued)
      BY <2>6 DEF len, old
    <3>5. PlacesCollected(c, len)
      BY <2>1, <2>2, <2>4, <2>6, <3>1, <3>3, <3>4 DEF PlacesCollected, On, old
    <3> QED
      BY <1>0, <2>1, <2>4, <3>5, OrderCollected
  <2> QED
    BY <2>5, <2>6
<1>6. ASSUME NEW d \in Client, Flush(d)
      PROVE  (Placed(c) /\ Ordered(c))'
  <2> DEFINE old == manage[d].queued
             m == Head(old)
             len == Len(fromClient)
  <2>1. /\ manage[d].pc = "flushing" /\ fromClient' = Append(fromClient, m)
        /\ \E pc : manage' = [manage EXCEPT ![d] = [pc |-> pc, queued |-> Tail(old)]]
        /\ UNCHANGED <<lines, reader, handled>>
    BY <1>6, Zenon DEF Flush
  <2>2. old \in Seq(Msg) /\ old # <<>> /\ QueuedOK(d)
    BY <2>1 DEF TInv, ManageOK, ManageRec, QueuedOK
  <2>3. /\ m = old[1] /\ 1 \in 1..Len(old) /\ m \in Msg
        /\ \A i \in 1..Len(Tail(old)) : i + 1 \in 1..Len(old) /\ Tail(old)[i] = old[i + 1]
    BY <2>2
  <2>4. m.from = d
    BY <2>2, <2>3 DEF QueuedOK
  <2> HIDE DEF m
  <2>5. /\ len \in Nat
        /\ \A i \in 1..Len(fromClient') : \/ i \in 1..len /\ fromClient'[i] = fromClient[i]
                                          \/ i = len + 1 /\ fromClient'[i] = m
    BY <1>0, <2>1, <2>3
  <2>6. CASE d # c
    <3>1. manage'[c] = manage[c]
      BY <1>0, <2>1, <2>6
    <3>2. PlacesKept(c)
      BY <2>1, <2>4, <2>5, <2>6, <3>1 DEF PlacesKept, On, Sending
    <3> QED
      BY <1>0, <2>1, <3>2, OrderKept
  <2>7. CASE d = c
    <3>1. manage'[c].queued = Tail(old)
      BY <1>0, <2>1, <2>7
    <3>2. On(c, 3, 1, m.n, m.via)
      BY <2>3, <2>7 DEF On
    <3>3. ASSUME NEW s \in Nat, NEW i \in Nat, NEW n \in Nat, NEW v, On(c, s, i, n, v)'
          PROVE  \/ s \in {1, 2, 4} /\ On(c, s, i, n, v) /\ (s = 2 => i <= len)
                 \/ s = 2 /\ i = len + 1 /\ On(c, 3, 1, n, v)
                 \/ s = 3 /\ i >= 1 /\ On(c, 3, i + 1, n, v)
      <4>1. CASE s \in {1, 4}
        BY <2>1, <3>3, <4>1 DEF On, Sending
      <4>2. CASE s = 2
        <5>1. i \in 1..Len(fromClient') /\ n = fromClient'[i].n /\ v = fromClient'[i].via /\ fromClient'[i].from = c
          BY <3>3, <4>2 DEF On
        <5> QED
          BY <2>5, <3>2, <4>2, <5>1 DEF On
      <4>3. CASE s = 3
        <5>1. i \in 1..Len(Tail(old)) /\ n = Tail(old)[i].n /\ v = Tail(old)[i].via
          BY <3>1, <3>3, <4>3 DEF On
        <5> QED
          BY <2>3, <2>7, <4>3, <5>1 DEF On
      <4>4. s \in {1, 2, 3, 4}
        BY <3>3 DEF On
      <4> QED
        BY <4>1, <4>2, <4>3, <4>4
    <3>4. PlacesFlushed(c, len)
      BY <3>3, Zenon DEF PlacesFlushed
    <3> QED
      BY <1>0, <2>1, <2>5, <3>4, OrderFlushed
  <2> QED
    BY <2>6, <2>7
<1>7. ASSUME Dispatch \/ RemoteError
      PROVE  (Placed(c) /\ Ordered(c))'
  <2> DEFINE m == Head(fromClient)
             e == [n |-> m.n, via |-> m.via]
             T == [n : Nat, via : {"reader", "queue"}]
             len == Len(handled[c])
  <2>1. /\ fromClient # <<>> /\ fromClient' = Tail(fromClient) /\ UNCHANGED <<reader, lines, manage>>
        /\ handled' = [handled EXCEPT ![m.from] = Append(@, e)]
    BY <1>7, Zenon DEF Dispatch, RemoteError
  <2>2. /\ m = fromClient[1] /\ 1 \in 1..Len(fromClient)
        /\ \A i \in 1..Len(Tail(fromClient)) :
             i + 1 \in 1..Len(fromClient) /\ Tail(fromClient)[i] = fromClient[i + 1]
    BY <1>0, <2>1
  <2>3. m.from \in Client /\ e \in T /\ e.n = m.n /\ e.via = m.via
    BY <1>0, <2>1, HeadMsg DEF Msg
  <2>4. handled \in [Client -> Seq(T)]
    BY <1>0
  <2> HIDE DEF m, e, T
  <2>5. len \in Nat /\ len = Len(handled[c])
    BY <2>4
  <2>6. m.from = c => \A i \in 1..Len(handled'[c]) : \/ i \in 1..len /\ handled'[c][i] = handled[c][i]
                                                     \/ i = len + 1 /\ handled'[c][i] = e
    <3> HAVE m.from = c
    <3>1. handled'[c] = Append(handled[c], e) /\ handled[c] \in Seq(T)
      BY <2>1, <2>3, <2>4
    <3> QED
      BY <2>3, <3>1
  <2>7. m.from # c => handled'[c] = handled[c]
    BY <2>1, <2>3, <2>4
  <2> HIDE DEF len
  <2>8. CASE m.from = c
    <3>1. PlacesHandled(c, len)
      BY <2>1, <2>2, <2>3, <2>5, <2>6, <2>8 DEF PlacesHandled, On, Sending
    <3> QED
      BY <1>0, <2>1, <2>5, <3>1, OrderHandled
  <2>9. CASE m.from # c
    <3>1. PlacesShifted(c)
      BY <2>1, <2>2, <2>7, <2>9 DEF PlacesShifted, On, Sending
    <3> QED
      BY <1>0, <2>1, <3>1, OrderShifted
  <2> QED
    BY <2>8, <2>9
<1> QED
  BY <1>1, <1>2, <1>3, <1>4, <1>5, <1>6, <1>7, LinesMove

\* No line of a client is handled twice, and the lines that take the same path
\* from the reader to manageClients keep their order.
THEOREM EachLineOnceCorrect == Spec => []EachLineOnce
<1>1. Init => LinesOK
  <2> SUFFICES ASSUME Init, NEW c \in Client PROVE Placed(c) /\ Ordered(c)
    BY DEF LinesOK
  <2>1. handled[c] = <<>> /\ fromClient = <<>> /\ manage[c].queued = <<>> /\ ~Sending(c)
    BY DEF Init, Sending, ReaderAt
  <2>2. \A s, i, n, v : ~On(c, s, i, n, v)
    BY <2>1 DEF On
  <2> QED
    BY <2>2, Zenon DEF Placed, Ordered
<1>2. TInv /\ LinesOK /\ [Next]_vars => LinesOK'
  <2>1. TInv /\ LinesOK /\ Next => LinesOK'
    BY LinesStep DEF LinesOK
  <2>2. TInv /\ LinesOK /\ UNCHANGED vars => LinesOK'
    <3> SUFFICES ASSUME LinesOK, UNCHANGED vars, NEW c \in Client PROVE (Placed(c) /\ Ordered(c))'
      BY DEF LinesOK
    <3>1. UNCHANGED <<reader, lines, manage, fromClient, handled>>
      BY Zenon DEF vars
    <3>2. PlacesKept(c)
      BY <3>1 DEF PlacesKept, On, Sending
    <3> QED
      BY <3>1, <3>2, OrderKept DEF LinesOK
  <2> QED
    BY <2>1, <2>2
<1> QED
  BY <1>1, <1>2, LinesSuffice, Invariance, PTL DEF Spec

-----------------------------------------------------------------------------
(* Whoever completes a record is about to look at it. *)

Complete(p) == heap[p].nick # Users!Star /\ heap[p].user # NoUser /\ ~heap[p].registered
Looks(g, p) == held[g] = p /\ job[g].pc = "info"
AllLooked == \A p \in Ptr : Complete(p) => \E g \in Goroutine : Looks(g, p)

\* A step that takes no goroutine from "info".
LEMMA LooksKept ==
    ASSUME AllLooked,
           \A g \in Goroutine : job[g].pc = "info" => job'[g].pc = "info" /\ held'[g] = held[g],
           \A p \in Ptr : Complete(p)' => Complete(p) \/ \E g \in Goroutine : Looks(g, p)'
    PROVE  AllLooked'
BY DEF AllLooked, Looks

\* What GetUser makes and the collector leaves is not complete.
LEMMA BlankRecords ==
    ASSUME NEW p \in Ptr
    PROVE  /\ \A m, h : heap' = Users!Collected(m, h) => (Complete(p)' => Complete(p))
           /\ \A id, q : heap \in [Ptr -> Users!UserRecord] /\ Users!GetUser(id, q)
                            => (Complete(p)' => Complete(p))
<1>1. \A m, h : heap' = Users!Collected(m, h) => heap'[p] \in {heap[p], Users!NewUser}
  BY DEF Users!Collected
<1>2. ASSUME NEW id, NEW q, heap \in [Ptr -> Users!UserRecord], Users!GetUser(id, q)
      PROVE  heap'[p] \in {heap[p], [Users!NewUser EXCEPT !.id = id]}
  <2>1. UNCHANGED heap \/ heap' = [heap EXCEPT ![q] = [Users!NewUser EXCEPT !.id = id]]
    BY <1>2, Zenon DEF Users!GetUser
  <2> QED
    BY <1>2, <2>1
<1>3. Users!NewUser.nick = Users!Star /\ \A id : [Users!NewUser EXCEPT !.id = id].nick = Users!Star
  BY DEF Users!NewUser
<1>4. Complete(p)' => heap'[p].nick # Users!Star
  BY SameRecords DEF Complete
<1>5. heap'[p] = heap[p] => (Complete(p)' => Complete(p))
  BY SameRecords DEF Complete
<1> QED
  BY <1>1, <1>2, <1>3, <1>4, <1>5

LEMMA LookedStep ==
    ASSUME TInv, AllLooked, Next
    PROVE  AllLooked'
<1>0. /\ job \in [Goroutine -> JobRec] /\ QueuesOK /\ JobsOK
      /\ heap \in [Ptr -> Users!UserRecord] /\ held \in [Goroutine -> Ptr \cup {NoPtr}]
      /\ \A g \in Goroutine : setting[g] # NoUser => held[g] # NoPtr
  BY TableTypes DEF TInv, JobsOK
<1>1. ASSUME UNCHANGED <<heap, held>>,
             \A g \in Goroutine : job[g].pc = "info" => job'[g].pc = "info"
      PROVE  AllLooked'
  BY <1>1, LooksKept, SameRecords DEF Complete
<1>2. ASSUME NEW c \in Client, Delete(c) \/ GetUser(c)
      PROVE  UNCHANGED held /\ \A p \in Ptr : Complete(p)' => Complete(p)
  <2>1. /\ UNCHANGED held
        /\ \/ UNCHANGED heap
           \/ heap' = Users!Collected(userMap', held)
           \/ \E q : Users!GetUser(c, q)
    BY <1>2, Zenon DEF Delete, GetUser, Users!Delete, Users!TouchUser, registry
  <2>2. UNCHANGED heap => \A p \in Ptr : Complete(p)' => Complete(p)
    BY SameRecords DEF Complete
  <2> QED
    BY <1>0, <2>1, <2>2, BlankRecords
<1>3. ASSUME NEW c \in Client, Delete(c) \/ GetUser(c),
             \A g \in Goroutine : job[g].pc = "info" => job'[g].pc = "info"
      PROVE  AllLooked'
  BY <1>2, <1>3, LooksKept
<1>4. ASSUME NEW c \in Client,
             \/ PeerLeaves(c) \/ ReadLine(c) \/ ReadError(c) \/ SendDirect(c) \/ Incoming(c)
             \/ AdoptClose(c)
      PROVE  UNCHANGED <<job, registry>>
  BY <1>4, Zenon DEF PeerLeaves, AdoptClose, ReadLine, ReadError, SendDirect, Incoming, Accept,
                     SubscribeStop, Collect, Stop, Leave, Flush
<1>5. ASSUME NEW c \in Client, Adopt(c) \/ Closing(c)
      PROVE  UNCHANGED job /\ (GetUser(c) \/ Delete(c))
  BY <1>5, Zenon DEF Adopt, Closing
<1>6. ASSUME RemoteError \/ Write \/ WriteFails \/ WriteToNil
      PROVE  UNCHANGED job /\ (UNCHANGED registry \/ \E c \in Client : Delete(c))
  BY <1>0, <1>6, HeadMsg, HeadReply, Zenon DEF RemoteError, Write, WriteFails, WriteToNil
<1>7. ASSUME Dispatch
      PROVE  AllLooked'
  <2>1. fromClient # <<>> /\ GetUser(Head(fromClient).from)
    BY <1>7, Zenon DEF Dispatch
  <2>2. UNCHANGED job \/ \E g \in Goroutine : \E j : job[g] = Idle /\ job' = [job EXCEPT ![g] = j]
    BY <1>7, Zenon DEF Dispatch
  <2>3. \A g \in Goroutine : job[g].pc = "info" => job'[g].pc = "info"
    BY <1>0, <2>2, IdleIsJob
  <2> QED
    BY <1>0, <1>3, <2>1, <2>3, HeadMsg
<1>8. ASSUME NEW g \in Goroutine, ArgsPanic(g) \/ Answer(g) \/ PrivmsgName(g) \/ PrivmsgSend(g)
                                   \/ ConnRegUser(g)
      PROVE  AllLooked'
  <2>1. /\ job[g].pc \in {"run", "set"} /\ UNCHANGED <<heap, held>>
        /\ UNCHANGED job \/ \E j : job' = [job EXCEPT ![g] = j]
    BY <1>8, Zenon DEF ArgsPanic, Answer, PrivmsgName, PrivmsgSend, ConnRegUser, At, Goto, registry,
                       Users!CheckUser
  <2> QED
    BY <1>0, <1>1, <2>1
<1>9. ASSUME NEW g \in Goroutine, ConnRegGet(g)
      PROVE  AllLooked'
  <2>1. PICK p \in Ptr : /\ job[g].pc = "get" /\ Users!GetUser(job[g].msg.from, p)
                         /\ held' = [held EXCEPT ![g] = p] /\ \E j : job' = [job EXCEPT ![g] = j]
    BY <1>9, Zenon DEF ConnRegGet, Users!BeginConnReg, At, Goto
  <2>2. \A h \in Goroutine : job[h].pc = "info" => job'[h].pc = "info" /\ held'[h] = held[h]
    BY <1>0, <2>1
  <2>3. \A q \in Ptr : Complete(q)' => Complete(q)
    BY <1>0, <2>1, BlankRecords
  <2> QED
    BY <2>2, <2>3, LooksKept
<1>10. ASSUME NEW g \in Goroutine, NEW p \in Ptr, held[g] = p, UNCHANGED held, Goto(g, "info"),
              job[g].pc # "info", \A q \in Ptr : q # p => heap'[q] = heap[q]
       PROVE  AllLooked'
  <2>1. job'[g].pc = "info" /\ \A h \in Goroutine : h # g => job'[h] = job[h]
    BY <1>0, <1>10 DEF Goto, JobRec
  <2>2. \A q \in Ptr : q # p => (Complete(q)' => Complete(q))
    BY <1>10, SameRecords DEF Complete
  <2>3. Looks(g, p)'
    BY <1>10, <2>1 DEF Looks
  <2>4. \A q \in Ptr : Complete(q)' => Complete(q) \/ \E h \in Goroutine : Looks(h, q)'
    BY <2>2, <2>3
  <2>5. \A h \in Goroutine : job[h].pc = "info" => job'[h].pc = "info" /\ held'[h] = held[h]
    BY <1>10, <2>1
  <2> QED
    BY <2>4, <2>5, LooksKept
<1>11. ASSUME NEW g \in Goroutine, ConnRegNick(g)
       PROVE  AllLooked'
  <2>1. /\ job[g].pc = "set" /\ UNCHANGED held
        /\ \/ heap' = [heap EXCEPT ![held[g]].nick = job[g].msg.arg] /\ Goto(g, "info")
           \/ UNCHANGED heap /\ \E pc : Goto(g, pc)
    BY <1>11, Zenon DEF ConnRegNick, At, Users!SetNick, registry
  <2>2. held[g] \in Ptr
    BY <1>0, <2>1 DEF JobsOK, JobShape
  <2>3. CASE heap' = [heap EXCEPT ![held[g]].nick = job[g].msg.arg] /\ Goto(g, "info")
    BY <1>0, <1>10, <2>1, <2>2, <2>3
  <2>4. CASE UNCHANGED heap /\ \E pc : Goto(g, pc)
    BY <1>0, <1>1, <2>1, <2>4 DEF Goto
  <2> QED
    BY <2>1, <2>3, <2>4
<1>12. ASSUME NEW g \in Goroutine, ConnRegStore(g)
       PROVE  AllLooked'
  <2>1. /\ job[g].pc = "store" /\ UNCHANGED held /\ setting[g] # NoUser /\ Goto(g, "info")
        /\ heap' = [heap EXCEPT ![held[g]].user = setting[g]]
    BY <1>12, Zenon DEF ConnRegStore, At, Users!StoreUser
  <2>2. held[g] \in Ptr
    BY <1>0, <2>1
  <2> QED
    BY <1>0, <1>10, <2>1, <2>2
<1>13. ASSUME NEW g \in Goroutine, Users!EndConnReg(g), job' = [job EXCEPT ![g] = Idle],
              job[g].pc = "info" => ~Complete(held[g])
       PROVE  AllLooked'
  <2>1. held' = [held EXCEPT ![g] = NoPtr] /\ heap' = Users!Collected(userMap, held')
    BY <1>13, Zenon DEF Users!EndConnReg
  <2>2. \A p \in Ptr : Complete(p)' => Complete(p)
    BY <2>1, BlankRecords
  <2>3. \A h \in Goroutine : h # g => job'[h] = job[h] /\ held'[h] = held[h]
    BY <1>0, <1>13, <2>1
  <2> QED
    BY <1>13, <2>2, <2>3 DEF AllLooked, Looks
<1>14. ASSUME NEW g \in Goroutine, ConnRegInfo(g)
       PROVE  AllLooked'
  <2>1. job[g].pc = "info" /\ held[g] \in Ptr
    BY <1>0, <1>14 DEF ConnRegInfo, JobsOK, JobShape
  <2>2. CASE heap[held[g]].nick # Users!Star /\ heap[held[g]].user # NoUser
    <3>1. /\ Goto(g, "signon") /\ UNCHANGED held
          /\ \/ heap[held[g]].registered /\ UNCHANGED heap
             \/ heap' = [heap EXCEPT ![held[g]].registered = TRUE]
      BY <1>14, <2>2, Zenon DEF ConnRegInfo, Users!SetType, registry
    <3>2. /\ heap'[held[g]].registered
          /\ \A p \in Ptr : p # held[g] => heap'[p] = heap[p]
      BY <1>0, <2>1, <3>1 DEF Users!UserRecord
    <3>4. \A p \in Ptr : Complete(p)' => p # held[g] /\ Complete(p)
      <4> SUFFICES ASSUME NEW p \in Ptr, Complete(p)' PROVE p # held[g] /\ Complete(p)
        OBVIOUS
      <4>1. p # held[g]
        BY <3>1, <3>2 DEF Complete
      <4> QED
        BY <3>2, <4>1, SameRecords DEF Complete
    <3>5. \A h \in Goroutine : h # g => job'[h] = job[h] /\ held'[h] = held[h]
      BY <1>0, <3>1 DEF Goto
    <3> QED
      BY <3>4, <3>5 DEF AllLooked, Looks
  <2>3. CASE ~(heap[held[g]].nick # Users!Star /\ heap[held[g]].user # NoUser)
    <3>1. job' = [job EXCEPT ![g] = Idle] /\ Users!EndConnReg(g)
      BY <1>14, <2>3, Zenon DEF ConnRegInfo
    <3> QED
      BY <1>13, <2>3, <3>1 DEF Complete
  <2> QED
    BY <2>2, <2>3
<1>15. ASSUME NEW g \in Goroutine, ConnRegReply(g)
       PROVE  AllLooked'
  <2>1. job[g].pc \in {"signon", "error"} /\ Users!EndConnReg(g) /\ job' = [job EXCEPT ![g] = Idle]
    BY <1>15, Zenon DEF ConnRegReply
  <2> QED
    BY <1>13, <2>1
<1>16. ASSUME UNCHANGED <<job, registry>>
       PROVE  AllLooked'
  BY <1>1, <1>16 DEF registry
<1>17. ASSUME NEW c \in Client, Adopt(c) \/ Closing(c)
       PROVE  AllLooked'
  BY <1>3, <1>5, <1>17
<1>18. ASSUME RemoteError \/ Write \/ WriteFails \/ WriteToNil
       PROVE  AllLooked'
  BY <1>3, <1>6, <1>16, <1>18
<1> QED
  BY <1>4, <1>7, <1>8, <1>9, <1>11, <1>12, <1>14, <1>15, <1>16, <1>17, <1>18, Zenon
     DEF Next, Loop, Hook

\* Whichever hook is the last to set something signs the user on: a record with
\* a nick and a user name is registered, or a goroutine that holds it is about
\* to look (registration.go:88-112).
THEOREM SignedOnWhenCompleteCorrect == Spec => []SignedOnWhenComplete
<1>1. Init => AllLooked
  BY SameRecords DEF Init, Users!Init, Users!NewUser, AllLooked, Complete
<1>2. TInv /\ AllLooked /\ [Next]_vars => AllLooked'
  <2>1. AllLooked /\ UNCHANGED vars => AllLooked'
    BY SameRecords DEF vars, registry, AllLooked, Complete, Looks
  <2> QED
    BY <2>1, LookedStep
<1>3. TInv /\ AllLooked => SignedOnWhenComplete
  BY TableTypes DEF TInv, AllLooked, Complete, Looks, SignedOnWhenComplete, Users!Live
<1> QED
  BY <1>1, <1>2, <1>3, Invariance, PTL DEF Spec

=============================================================================
