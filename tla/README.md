# A verification project for ircd-blight

ircd-blight is an IRC daemon in Go. This directory holds TLA+ models of it,
translated from the code under `src/ircd`, configurations that model-check them
with TLC, and theorems about them whose proofs TLAPS checks.

## The system

    client --- Conn.readthread --inc--> manage(conn) --newClient--> manageClients
                     |                        \--queued lines--> fromClient
                     +------------- fromClient ------------------------^
                     +------------- clientClosing ---------------------^
    manageClients --go hook--> ConnReg, Quit, Ping, Privmsg --ToClient--> manageClients
    server --- the same with newServer, fromServer, ToServer, serverClosing, manageServers

| component | state | operations | hard behaviour | what makes it correct |
|---|---|---|---|---|
| user table, `user.go` | `userMap`, `userNicks`, `User` objects | GetUser, SetNick, SetUser, SetType, Delete, Import | hook goroutines keep `*User` pointers past Delete; two case foldings; a check outside the lock | the nick index agrees with the records; a nick has one owner; a nick is free between two owners |
| server table, `server.go` | `servMap`, `upstream`, `downstream` | GetServer, LinkServer, Unlink, IterFor, ServerIter, IsLocal | servers come back by another way; walks under the lock; panics on nil maps | the tables agree; the lists are a forest; walks end; a split takes one subtree; routes follow the tree |
| connection, `conn.go` | subscribers, listeners for close, active | readthread, WriteMessage, Close, Subscribe, Unsubscribe | sends to goroutines that no longer receive; a close from within a write | a line is delivered once; a lost peer is noticed |
| registration, `manageIncoming` | queued lines | collect, hand over | the window between unsubscribing and subscribing | no line is handled twice; each path keeps its order |
| client loop, `manageClients` | `uid2conn` | dispatch, write, adopt, closing | nil entries; the loop is the only receiver of what it sends | record and connection are given up together; QUIT closes |
| hook dispatch and handlers, `hooks.go`, `registration.go`, `general.go`, `messaging.go` | goroutines | ConnReg, Quit, Ping, Privmsg, Uid, Sid, SQuit, Burst | a goroutine for each line: order is lost, arguments are not checked | a handler ends; whichever comes last signs the client on |
| server loop, `manageServers` | `sid2conn` | as the client loop, SQUIT made up on close | SID, UID and SQUIT in goroutines of their own | a split leaves no server and no user behind, and no link that is open is cut off |
| channels, `channel.go` | `chanMap`, members | GetChannel, Join, Part, PartAll, ChanSplit | two lock orders; removal of empty channels races with a join | members are in the channel everyone finds |
| modes, `mode.go` | modes of a channel | parse, set, unset | arguments that are not there | set and unset are inverse |
| messages, `parser.go` | none | ParseMessage, Bytes | colons and spaces decide what is an argument | what is passed on arrives as it was; lines are read as the grammar says |
| listener, `listener.go` | ports | AddPort, ClosePort, Close | a map without a lock, used by a goroutine for each port | who accepts is listed; Close leaves no entry and no one who accepts |

`PROJECT.json` lists the components that are not modelled with the reason, and
the hazards with their lines.

## The modules

| module | models | status |
|---|---|---|
| `Util` | names and case mappings (`util.go`); strings are sequences of code points | done |
| `UserRegistry` | the user table | done |
| `UserRegistryProofs` | theorems about it | done |
| `ServerTree` | the server table | done |
| `ServerTreeProofs` | theorems about it | done |
| `Sessions` | connections, registration, client loop, client hooks; uses `UserRegistry` through `INSTANCE` | done for a server without links and without channels |
| `SessionsProofs` | theorems about it; uses `UserRegistryProofs` through `INSTANCE` | done |
| `ServerLinks` | server loop, hooks for servers, what links are told of local users; uses `ServerTree` through `INSTANCE` | done without channels and without messages between users |
| `ServerLinksProofs` | theorems about it; uses `ServerTreeProofs` through `INSTANCE` | done |
| `ChannelTable` | what the channels promise to their callers (abstract) | done |
| `Channels` | channels and their locks; implements `ChannelTable` | done |
| `ChannelsProofs` | theorems about them: members are findable, sweeps, the refinement of `ChannelTable` | done |
| `Modes` | mode lines and active modes | done |
| `ModesProofs` | theorems about them | done |
| `Messages` | lines and messages | done |
| `MessagesProofs` | theorems about them | done |
| `Listener` | ports and their goroutines | done |
| `ListenerProofs` | theorems about them | done |
| `MC*` | instances for TLC | with each module |

### UserRegistry

`heap` is the `User` objects by address, `userMap` and `userNicks` the two Go
maps, `held` the object a hook goroutine (ConnReg) got from GetUser. Every
method that holds `userMutex` is one action. `SetUser` is two, CheckUser and
StoreUser, because the code checks the name before it takes the lock.
An address that no map and no goroutine refers to is blanked, as the garbage
collector would let it be used again. `staleRename` is a history variable: it
records that SetNick succeeded on an object Delete had already removed from
`userMap`. Such a rename makes an index entry without a record, and
`delete(userNicks, ...)` in it may remove the entry of another user who took the
nick meanwhile; the properties about the index are stated for the runs without
one. Names that SetNick and SetUser refuse change nothing; `SetNickResult`
gives the answer. User names are those SetUser accepts. The type invariant says, besides
the types, that a live record that is signed on has a nick and a user name.

### ServerTree

`servMap`, `upstream` and `downstream` are the Go maps, `listed` the servers
that have a map in `downstream`. All operations hold `servMutex`: one action
each. Writing to the list of a link that has none is the panic of
`server.go:111` (`mode = "crashed"`), the walk of `server.go:116-119` that never
ends is `mode = "hung"`, with the lock held. Recursion is written as a least
closed set (`LinkedTo`, `Chain`), so that the module can be proved about.

### Sessions

A client is its connection and its user id. `conn`, `reader`, `lines` are the
Conn, its reading goroutine and what it has read; `manage` the goroutine of
manageIncoming; `uid2conn` the map of manageClients, where an entry may be absent,
a connection or nil; `fromClient` and `toClient` the buffered channels; `job` the
hook goroutines. A send on an unbuffered channel and its receive are one action
(Collect, Stop, Adopt, Closing), each case of the select is one action, and
each hook is cut where it sends and where it calls into the user table. Only the
adoption of a connection is two, Adopt (Subscribe) and AdoptClose (SubscribeClose), with the
loop at `mode = "adopting"` in between: the reading goroutine runs from the first call on,
and a read that fails before the second one tells nobody.
HasHook has every hook that is registered for clients: NICK, USER, PASS, CAPAB and SERVER before the
sign-on (the last three set nothing for a client, but may find it complete and sign it on), QUIT, PING,
PRIVMSG and NOTICE after it. PRIVMSG and NOTICE name any number of users: each name is looked up in a
step of its own (PrivmsgName) and answered, by PRIVMSG only, if it leads to no one; then one message goes to
all who have been found (PrivmsgSend), and the loop writes it to one after the other, so that a nil
entry or a failing write may come after some have got it.
`WriteFails` is the loop that closes a connection from within a write and waits for
itself, `WriteToNil` and `ArgsPanic` end the process. `handled` is history: the
lines the loop has taken.

A blank line ends the process (ReadLine): ParseMessage returns no message for it
and `conn.go:56` assigns to its SenderID before line 57 checks it, although
`doc/IRC-RFC2812.txt:312` has empty messages "silently ignored".

Abstractions: the four messages of sendSignon are one (they go to the same
client, one after the other); there are no links, so nothing goes to ToServer,
and no channels, which no hook makes. readthread takes its subscribers
at the time the line is read. Reading and writing the subscriber maps is one
step; the crash of the Go runtime on a concurrent map access is left out.
The number of hook goroutines that can be at work at a time is bounded by
`Goroutine`; a dispatch waits for one. The lines of a script are those
whose argument, if there is one, is of the kind their command takes (`Line`); what a wrong
kind of text does is left to the checks of `UserRegistry`. A message is one
record with the same fields in the queue, in the reader, in fromClient and in a hook, and
NoMsg where there is none. `Way` is where the lines of a client have got to.

### Channels

`chan` is the Channel objects by address, `chanMap` the Go map, `mutex` the lock
of each channel, `chanMutex` the lock of the map, `task` where a goroutine is in
its operation. GetChannel is one action and leaves a pointer behind, which may
be stale when Join or Part uses it. Join and Part are two actions, since the lock of the
channel is held while chanMutex is waited for; Part has the second one only when the
channel is empty. A sweep (PartAll, ChanSplit) takes chanMutex and then visits the
channels one by one, in any order, waiting for the lock of each; entries that are removed
before they are reached are not visited, as Go defines it for a map. Keys are
explicit: GetChannel enters the folded name, everyone else uses the name as spelled by
whoever made the channel. Two variables are history: `orphaned` (a Join
has met another channel under its name, which is what loses members) and `late` (who
was entered while a sweep ran). The type invariant has one thing more than types: who holds
the lock of a channel is between its two steps on it, so no way out of Join or Part keeps a lock.

Assumed of the callers, which the daemon does not have yet: users to
join are distinct, Part follows a GetChannel that does not create, and the names
are valid channel names (GetChannel refuses others without a change). Left out: who
is notified, time stamps, hostmasks, and TS, UserIDs, OnChan, ChannelIter, which only
read.

`ChannelTable` is the abstract specification: rooms with members, calls of Join,
Part and PartAll or ChanSplit that take effect once between their beginning and
their end; no objects, pointers, spellings or locks. The mapping at the end of
`Channels` reads `member` through `chanMap`, a call from the task of its goroutine, and
`missed`, the callers of Part who may be told that their user is not there, from the channel
they hold. Two points took thought: a Join shows its users when it locks the channel, or,
if the channel was out of the map, when JoinMap puts it back; a Part whose channel
has been replaced fails because its user was in no room at some time since the call.
ImplementsTable holds until a Join has met another channel under its name: from
then on members are on channels no one finds (run `ChannelsLost`).

### ServerLinks

The loop manageServers and the goroutines its hooks run in. The variables of
`ServerTree` are the server table, and every change of them is written as an action of that module, so
what is proved of `ServerTree` can be used here. `fields` is what the
registration of a server has set, `registered` its type; `users` and `signed` the ids of
the user table and their type; `sid2conn` the map of the loop, where an entry
may be absent (NoConn), a connection or nil (NilConn); `conn` the connections with
what their peers have said on them; `view` the local users a peer has been told
of; `job` the goroutines, each cut where it takes a lock, sends or reads a list of links.
A server record that a goroutine got from GetServer outlives Unlink: `rec` tells
whether it is the one in the table, and if not whether its registration was complete.

| action | code |
|---|---|
| HandOver, Adopt | `manageIncoming` from line 328, the case of newServer |
| LinkClosed, ReceiveError | serverClosing, ERROR: nil entry and a SQUIT that is made up |
| Receive..., Says | fromServer and DispatchServer: by the registration of the sender |
| Write | ToServer: missing entry, nil entry, a write that fails |
| ConnRegLine, ConnRegInfo, SignOn, Greet, Burst... | ConnReg for servers, sendServerSignon, Burst |
| Sid, Import, Refuse, SPing | Sid, Uid, SPing |
| Begin, Spread, SplitError, Unlink, UserSplit | SQuit, Quit, and the UIDs of a sign-on |
| AskClientLoop | what they send to ToClient: INT_DELUSER, the ERROR of a QUIT, the welcome of a sign-on |
| TakeClient, Client... | what of the client side matters to other servers |

The variables `late`, `back`, `ghosts`, `raced` and `vanished` are history; each is one
reason why a promise is not kept, and the properties state that it is the only one.
`raced` has three: a burst that crosses the sign-on or the QUIT of a user, a QUIT that
overtakes the sign-on, and a QUIT while the server is out of the table but its connection, which
has been told of the user, is still there. ViewsAgree speaks of links (`ServerIter`, which leaves out a registered
server with an upstream entry) and of connections this server has answered (`Answered`): one that
takes the place of another while its server is registered gets no sign-on and no burst, since
the hooks for PASS, CAPAB and SERVER are for senders that are not registered (`registration.go:8-14`).
ClosedIsSplit speaks of links, too: a server with an upstream entry left from an earlier place gets no
SQUIT when its connection closes and stays in the table. NoneCutOff is the opposite: which splits take a
link whose connection is open. There is one that nobody asked for: the SQUIT that is made up for a lost
connection waits in its goroutine and takes the server that has connected again meanwhile.

A client is `off`, `on` or `gone`. As in the code nothing keeps a registered user from sending QUIT
again, or several of its lines from signing it on: each has a goroutine (ClientQuits, ClientSignsOn),
and the second ERROR, or a welcome that comes after the first, meets the nil entry of `uid2conn`. This
ends the process with no connection lost (`loop = "down"`), so LoopEndsOnLoss speaks of the
server loop alone. A connection that is `dead` has gone before SubscribeClose, as in Sessions: it stays
in `sid2conn` and nobody is told. An ERROR closes a connection and recalls the subscription, but a
reading goroutine that is already sending on serverClosing is received later all the same
and then clears the entry, which may be that of a new connection: ReceiveError may leave the connection `lost`.
ConnRegLine is one step although the code finds the record (`registration.go:32`) and sets it
(lines 56-64) under separate locks. If the record leaves the table in between, nobody but those
goroutines that hold it sees what is set, just as if it was set first and left then; if it does not, nobody
else looks at it between the two.

Abstractions: a message of a peer is sent, received and dispatched in one step,
also after its connection has closed (it was in fromServer then). Peers conform: they speak only
of servers and users they have introduced, a user who has quit does not come
back under its id, and they begin when they have been answered. Their arguments are complete;
the panics of missing ones are those of Sessions, and so are the records of local users that a line makes
again after their deletion. PASS, CAPAB and SERVER are one message in
Greet. That two NICKs fold to one name is left to `UserRegistry`: `NickOf` gives each remote
user a nick, and Import refuses one that is taken by another remote user. No channels exist,
so a split has no one to notify. For the same reason the burst has no SJOIN.

### Modes

`am` is the map of active modes; a line is a text of signs and letters and a
list of arguments. `Change` is what a mode line does: ParseModeChange and then
Apply, each a fold of the operator for one letter or mode (`Read`, `ApplyMode`).
The arguments of an active mode are a set, since the code keeps them in the order of a Go map.
`ModeString` is the opposite of parsing. The removal of a limit compares an
argument that the change does not have and panics (`mode.go:223`), although
`mode.go:23` says that limit modes require no argument to remove them. KeyNamed
states what the code does with the argument of `-k`: the key goes only if it is the one that is set.
`doc/IRC-TS6.txt:833` has it otherwise between servers: "The parameter for mode -k (removing a
key) shall be ignored."

### Messages

A line is a sequence of character codes: spaces, colons, a letter in each case. The
functions of the packages bytes and strings are written down once, and ParseMessage and Bytes
with them. Every line up to the bound is a state. RoundTrip is about
messages the daemon passes on; GrammarParses compares ParseMessage with the grammar of
`doc/IRC-RFC2812.txt:322-330`, read word by word, for lines that keep to single spaces and have no colon inside a word, the last
one included. The grammar allows such a colon (`middle`, line 334), and ParseMessage cuts there:
`X a:b` has the arguments `a` and `b`.

### Listener

`ports` is the Go map, `sock` the sockets with the goroutine of each, `wg` the
wait group, `waiting` the goroutines that send a connection on Incoming, `call` what the
one caller is doing. AddPort is three steps (look, listen, store), Close one for each port and
the wait; a goroutine ends in three (delete, Done, Close). An access of the map while
a goroutine is about to delete is MapRace and ends the model, since the Go runtime may
end the process there; it may also not, and the other steps go on. `wg` counts the goroutines up to
`wg.Done`; the deferred `listener.Close` comes after it (`listener.go:37-38`), so Close may
return while goroutines are still there. CloseComplete says what is left of them: this one call. The
test that counts goroutines after Close (`listener_test.go:42-44`) counts them, too.

## What is checked

| run | instance | shows |
|---|---|---|
| `UserRegistry` | 2 local ids, 1 remote, nicks `[`, `{`, `A`, 2 goroutines, 3 addresses | types; NickOwned; LeakOnlyFolded; NickHandover |
| `ServerTree` | 5 servers | types; TablesAgree; DownstreamForest; WalksEnd; HungByStaleOnly; RoutesFollowTree; SplitIsSubtree |
| `Sessions` | 2 clients with 3 and 2 lines, 2 goroutines, 4 addresses, channels of 1 | types; ConnectedHasRecord; EachLineOnce; HangsOnlyOnLoss; SignedOnWhenComplete (430,106 states) |
| `SessionsLive` | 1 client with 4 lines, fair scheduling | HooksEnd; QuitCloses (152,589 states) |
| `Channels` | 3 goroutines, 2 users, 3 addresses, channels `#A` and `#b` | types; MembersFindable; EmptyOnlyFolded; SweepComplete; ImplementsTable, the refinement of `ChannelTable` |
| `ChannelsLost` | 2 goroutines, 2 users, one channel | violation: a member of a channel nobody finds |
| `ChannelsOrder` | the same | violation: a sweep and a Join or Part wait for each other |
| `Modes` | a key, a limit, a list, two flags, two arguments; all lines of up to two letters, an unknown one included | StringRebuilds; AppliedSuffices; LastWins; KeyNamed; PanicOnlyOnLimit |
| `ServerLinks` | 2 servers that register with PASS and SERVER, 1 local user who may sign on and quit more than once, or leave, PINGs from one of them, 2 goroutines, channels of 1; no connection is lost | RegisteredWhenComplete; ViewsAgree; LoopEndsOnLoss (1,345,649 states, 2 min) |
| `Netsplit` | a server with another one behind it, a connection that may be lost and a second one of the same id, a remote user, 2 goroutines, channels of 1 | types; UsersHaveServers; NoUserLost; ClosedIsSplit; NoneCutOff (508,894 states, 1 min) |
| `Messages` | all lines of up to 8 characters | RoundTrip; GrammarParses |
| `Listener` | 2 ports, 3 sockets, 2 connections | OpenIsListed; CloseComplete |

Bounds. `[` and `{` are one nick to IRC and two to `strings.ToLower`; `A` is changed
by both: the three cover every way the two foldings can relate, and two users
and an import can compete for one. Three addresses let a stale object, its
replacement and another user exist together. Five servers allow a chain of
three, two trees at once, and a server that returns inside another tree. Two
clients are enough for a contested nick and a message to two users; their lines
cover every kind of hook for clients (PASS stands for PASS, CAPAB and SERVER, which do the same for a client),
a command without its argument, a blank line and an ERROR.
Channels of one message fill up at once, so that blocked hooks are seen. Longer
scripts and larger channels repeat these situations. Three goroutines and three
addresses let a stale channel, its replacement and a sweep meet; `#A` has both keys,
`#a` and `#A`, and a sweep has more than one channel to visit. That one channel is asked for in
several spellings at a time is covered by the proofs. Every mode line is a sequence of letters applied
one after the other, so lines of two letters meet every state a longer one
passes through; longer lines follow from more steps.
A server with one behind it is the least network with a split that takes more than
its root; a second connection of the same id meets the SQUIT of the first at every
point. Two goroutines make every pair of handlers meet; a third would only add
one that waits. Two links are needed for a sign-on to be told to one and not yet to
the other. A line of eight characters has room for a prefix, a command and two
arguments, with a colon anywhere in them. Three sockets are one that ends, its successor on the port and
one of another port.
Deadlock is not checked: clients stop sending, a panic and a blocked loop end
the model, and waiting for input is the normal state of a daemon.

Fairness (`SessionsLive`). The Go scheduler runs every goroutine that can run:
weak fairness for each goroutine's steps. A select picks among its ready cases
at random, so none that stays ready is passed over for ever: weak fairness for
receiving from ToClient, from fromClient, newClient and clientClosing each. A read on a
socket that is closed returns. Nothing is assumed of clients: they need not
send a line, nor leave.

Violations that the code shows are described under "findings" in
`PROJECT.json`.

Seen while modelling, against a text of the repository, and part of the models as the code has it:

* SID and UID are not passed on to other links, the copy is made and not sent (`registration.go:328`, `353`):
  both have "propagation: broadcast", which "means the command is sent to all servers" (`doc/IRC-TS6.txt:35`, 688, 871);
* ConnReg tells every link, the new one too, of a SID, but the loop variable hides the id of the
  new server: each link is told that its own id is new (`registration.go:139-146`; the same text);
* a split may leave users behind, though SQUIT "Removes the target server and all servers and users behind it
  from the network" (`doc/IRC-TS6.txt:742`): a UID handled after its server was split (`late`);
* SQuit means to tell a direct link with an ERROR, but the message has no destination and is
  dropped (`registration.go:438-445`): the link stays open, its server is unknown here;
* a middle argument with a colon in it, such as an IPv6 address, is cut there (`parser.go:49`), although
  `doc/IRC-RFC2812.txt:334` allows it;
* a blank line ends the process (see Sessions);
* handlers index their arguments without a look at their number (ArgsPanic): nothing checks the CallConstraints
  (`hooks.go:89`), which "Choose how many arguments a hook needs to be called" (`hooks.go:13`). This is against that
  comment where a hook is registered with NArgs; NICK, USER, PASS, SERVER and CAPAB are registered with AnyArgs;
* the removal of a limit ends the process, and `-k` needs its key (see Modes);
* after Close goroutines may be left (see Listener).

Seen while modelling, and contradicted by no text of the repository:

* a line handled after the client's record was deleted makes the record again
  (`registration.go:34`, `ircd.go:130`); nobody removes it, and a NICK in it takes a nick for good;
* NICK and USER handled at the same time both complete the registration, and
  the welcome (and the UID for other servers) goes out twice;
* in the hand-over a reading goroutine that has begun to send on `inc` or `stop` waits
  for ever when the registering goroutine has left;
* ChanSplit names every leaving user to every local member of every channel, not
  only to those who shared one with it, since `leavingChanUIDs` (`channel.go:209-213`)
  takes all leaving users and not those of the channel;
* a channel made as `#A` leaves its entry `#a` behind when it empties
  (`channel.go:155`), and a second entry `#A` when it is joined;
* Delete folds a nick with `strings.ToLower` and SetNick with the IRC folding, so the entry of a nick
  with `[`, `\`, `]` or `^` outlives its user, and the nick is in use for ever (`user.go:236`;
  LeakOnlyFolded shows that entries are left only under keys of such nicks);
* two USER commands of one client can both pass the check of SetUser, which is made before
  the lock is taken, and the second overwrites the first (`user.go:141`);
* Unlink leaves the upstream entries of the split servers, so one that was behind another
  and then connects directly is not taken for a link (`server.go:318`); a circle of
  such entries hangs the table (HungByStaleOnly);
* a reply for a client, or a message for a server, whose connection has just closed meets a nil
  entry, not a missing one, and ends the process (`ircd.go:230`, `ircd.go:76`);
* a user who sends QUIT twice, or is welcomed twice and quits, ends the process by the same nil entry
  (`hooks.go:87-93`, `ircd.go:247-253`);
* a read that fails between Subscribe and SubscribeClose (`ircd.go:264-265`, 95-96) is noticed by nobody: the connection
  keeps its entry and its record until a write to it fails;
* a write that fails closes the connection, and the loop then waits for itself (`conn.go:72`);
* the SQUIT made up for a lost link may split the server that has connected again meanwhile (NoneCutOff), and an
  old connection that is received on serverClosing clears the entry of the new one (`ircd.go:100`);
* a server that has an upstream entry from an earlier place is not split when its connection closes (`server.go:268-277`);
* a server half registered when its connection closes stays in the table: the SQUIT that is
  made up has no hook for a server that is not registered (`ircd.go:102`, `registration.go:20`); and if its
  registration is still being handled it is signed on without a connection (`ghosts`);
* a client that closes its connection without QUIT is deleted, and no link is told
  (`ircd.go:267-270`, `vanished`);
* a burst that crosses a sign-on or a QUIT may tell a link twice, or of a user who has left
  (`raced`); a QUIT is not passed on to a server that is being split, and if it comes back on
  the connection it had, it keeps the user; a server,
  or user, that is back before the queued deletion is done loses its users (`back`);
* an empty last argument is lost by Bytes (`parser.go:72-76`);
* any error of Accept ends the listening on a port for good (`listener.go:41-44`), and AddPort
  right after ClosePort does nothing, since the entry is still there (`listener.go:25`);
* a user who changes only the case of the nick keeps the old spelling
  (`user.go:120-123`).

## What is proved

For any ids, nicks, user names, addresses and goroutines (`UserRegistryProofs`):

* `TypeCorrect`: TypeOK, with its part SignedOnNamed. The invariant adds what SetNick needs: a goroutine
  about to store a user name holds an object.
* `NickIndexCorrect`, `NicksDistinct`, `LeaksBounded`: by one inductive invariant,
  `NInv`: types; a live record carries the id it is found under (`IdMatches`); a
  goroutine about to store a user name holds an object (`SetterHolds`); NickOwned and
  LeakOnlyFolded. NickOwned alone is not inductive: that Delete of one user leaves the
  entry of another alone needs that each entry belongs to its holder or is a leak,
  and that it finds the record by its id. The lemmas `RunesAgree` and `FoldingsAgree`
  relate the two foldings: where they agree on a nick, Delete removes the key
  SetNick made.
* `NickHandoverCorrect`: from the guards of SetNick and Import, once types are known.

For any set of servers (`ServerTreeProofs`):

* `TreeTypeCorrect`, `TablesCorrect`, `ForestCorrect`: TypeOK, TablesAgree and
  DownstreamForest are inductive together; Unlink finds a server's place by way of
  `upstream`, and LinkServer adds a server that is in no list.
* `WalksEndCorrect`, `HungOnlyByStale`: `CircleHasStale` shows that a circle of upstream entries
  goes through a stale one, since the lists alone are a forest.
* `SplitCorrect`: every split takes one server and all behind it.
* `RoutesCorrect`: RoutesFollowTree from the same invariant. IterFor climbs `upstream`, the
  property speaks of `downstream`, and both `Chain` and `LinkedTo` are least closed sets: they are
  compared by showing that the one is closed under the steps of the other. `ChainHasRoot`
  finds the top of a chain, since a chain of servers that is not stale cannot close to a circle;
  `ChainIsAbove` that the servers on a chain are those it is behind; `TreesDisjoint` that no
  server is behind two roots, so the link is the only one.

For any clients, scripts, goroutines, addresses and channel capacities (`SessionsProofs`):

* `TypeCorrect`: TypeOK, by the inductive invariant `TInv`. It has the invariant of
  `UserRegistryProofs` for the user table; that the messages on each stage of the way are
  those of their client (`ReadersOK`, `ManageOK`, `QueuesOK`); and what a hook holds of
  the user table at each of its points (`JobShape`: it is between GetUser and its last
  reply exactly if it holds an object).
* `SignedOnWhenCompleteCorrect`: `AllLooked` says it of every object and not only of those in the table: a complete
  record that is not signed on is held by a goroutine at the point where ConnReg looks (`Looks`). It is
  inductive since both steps that set something go on to that point.
* `ConnectedHasRecordCorrect`: ConnectedHasRecord is inductive with `TInv`: `RecordKept` lists the three
  steps that delete a record, and each gives up the entry.
* `HangsOnlyOnLossCorrect`: HangsOnlyOnLoss alone is not inductive, since a write could fail because
  this side has closed the socket. `LossOK` adds why a socket is closed (`Closed`: its peer had
  gone, or the loop let it go and its entry is nil, or it was never handed over), and that
  before the hand-over there is no entry and no one listens for its end (`Unknown`).
* `RepliesFindEntryCorrect`: every id that a message, a hook or the user table knows is one that uid2conn
  has, or had (`KnownIDs`, `TableKnown`). It justifies that Write, WriteFails and WriteToNil
  are all the cases of a reply (`ircd.go:229-234`).
* `EachLineOnceCorrect`: `LinesOK`, about any two places of a line, one ahead of the other. The places are
  given as a relation `On(c, stage, i, n, via)`; every step does one of seven things to it
  (`LinesMove`: nothing, a line is read, sent, collected, flushed, handled, or the queue moves up),
  and each keeps the order. `Placed` is what makes it inductive: a line on the way has been read,
  the reader holds the last line read, and the queue holds lines that took the queue.

For any names, users, addresses and goroutines (`ChannelsProofs`):

* `ChannelsTypeCorrect`, `MembersFindableCorrect`, `EmptyOnlyFoldedCorrect`, by one inductive
  invariant, `MInv`. It adds to the two properties: who holds the lock of a channel is
  between its two steps on it (`LockHeld`); what a goroutine knows at each step
  (`TaskShape`: the channel is empty until PartMap, not empty until JoinMap);
  an entry is under the folded name or the name itself (`EntryNamed`); an empty channel in
  lower case has a goroutine that tends it (`EmptyTended`); a channel that is being
  removed is still found (`EmptiedFindable`); the folded entry of a channel that
  is not in lower case is never removed (`SpelledStays`). The heart is `DropKeeps`:
  whoever removes the entry under a name removes no one else's folded entry,
  because folding twice is folding once (`Idempotent`). All steps but GetChannel are
  instances of `SteadyStep`.

Of the same, as its callers see it:

* `SweepCompleteCorrect`: by the inductive invariant `CInv`, that is `MInv` with three parts. Who sweeps has
  chanMutex (`SweepHolds`), so the map changes only by its own steps; a leaving user who is on
  a channel was entered meanwhile, or the channel is still to be visited under its
  folded name (`SweepAhead`), which rests on MembersFindable when the sweep begins; and a
  channel that JoinMap has to enter again has the users of that Join only (`JoinAlone`),
  since it was empty and the lock is held.
* `ImplementsTableCorrect`: the whole refinement ImplementsTable, one step of `Channels` at a time
  (`JoinUsersTable`, `JoinMapTable`, `PartUserTable`, `SweepTable`): GetChannel begins a call or is a stutter; JoinLock or
  JoinMap is where a Join takes effect; PartLock where a Part does; each visit of a sweep takes the users
  out of one room; what is left is a stutter. `JoinAlone` shows that JoinMap makes exactly the users of
  the Join visible.

For any ports and any finite set of sockets (`ListenerProofs`):

* `OpenIsListedCorrect`, `CloseCompleteCorrect`, by one inductive invariant, `IInv`. `EntriesRun` is
  OpenIsListed in both directions: an entry also leads to a goroutine that has not removed it, so
  that a goroutine removes its own; `Adding` tells that the port of an AddPort under way still has no
  entry; `Closing` that the loop of Close has the ports of all open sockets ahead of it, or has
  done with them. `CountUp` and `CountDown` keep the wait group equal to the number of goroutines.

For any servers, connections, users, goroutines and channel capacities (`ServerLinksProofs`):

* `LinksTypeCorrect`: TypeOK, by the inductive invariant `TInv`. It has the invariant of
  `ServerTreeProofs` for the table (`TableOK`), which each change of it preserves as a step of
  `ServerTree`; that the entry of a server is its own connection, and that a connection in use has an entry (`LinksOK`); and what a goroutine knows at each
  point of its handler (`JobShape`: a record that is still live is in the table). `TableMoves`, `PeopleMoves`,
  `LinkMoves` and their like say which actions change what, so that each part of `TInv` is proved
  of the actions that can disturb it.
* `UsersHaveServersCorrect`: UsersHaveServers is inductive with `TInv`. `DoomedStays` is the heart: until a
  user is gone, the goroutine that is to collect it, the one that is to ask for its deletion or the message
  to the client loop takes over from the one before.
* `NoUserLostCorrect`: the converse, `QuitsOK`: who is about to be deleted has quit, has no server, or is
  remembered in `back`; `DoomedComes` finds where that begins.
* `RegisteredWhenCompleteCorrect`: `RegistrationOK`, in every state and not only when all is quiet: a server
  with a complete record that is not registered has a goroutine that will do so.
* `ClosedIsSplitCorrect`: `SplitsOK`, likewise: a registered link with a nil entry has a goroutine that
  is about to unlink it, but for `ghosts`.
* `LoopEndsOnLossCorrect`: `LossOK`: a nil entry, or the end of the server loop, comes after a loss.
* `NoneCutOffCorrect`, by `CutOK`: no peer speaks of its own server as of one behind it, and a goroutine that will
  split the server its message came from exists only when a connection of that server has closed or its peer has
  said goodbye (`Ended`). It uses the invariant of ViewsAgree for which connections a server has had (`ConnsOK`).

What links know of local users (a later section of `ServerLinksProofs`):

* `ViewsAgreeCorrect`: ViewsAgree says nothing while anything is being handled, so it is far from inductive.
  `VInv` says, of every state in which the server loop runs and for each server and user not excused, where
  the news is: a user who is due is in the view of the link, in a UID for it that comes after its
  SERVER, or ahead in a burst (`Reached`); one who is in the view or in a UID is signed on, or about to
  be announced, or has a QUIT in a goroutine or in a message that comes later (`TakenBack`). The excuses are stated by the
  situation itself (`Excused`), one step before `raced` and `vanished` remember it, and
  `ExcusedStays` shows that none is lost. It rests on three smaller parts: a user who has signed on has a client and a
  record until it quits (`LifeOK`), a QUIT is only for those who leave (`QuitsLeave`), and a server registers on a
  connection it has or had (`ConnsOK`).

For any letters of each type, any arguments and lines of any length (`ModesProofs`):

* The inductive invariant is `ModesOK`: an active flag has no argument, an active key or limit has
  one, an active list has a finite number of them and at least one. It makes Apply total but for the
  panic, as the code only compares arguments of modes it has accepted.
* What is read or applied is a fold over a sequence of any length. `Induction` is proved from the fact
  that the numbers that are not in a set have a least element (`WFMin`), and `AtFirst`, `AtNext` and `FoldIsAt`
  turn each fold into a recursion on the number of elements used: `Reading`, `Applying`, `Written`, `SplitTo`. Each
  property is then an induction over the changes of one line.
* `KeyNamedCorrect`, `PanicOnlyOnLimitCorrect`, `LastWinsCorrect`: what one change does to one letter
  (`KeyStep`, `LimitStep`, `HasStep`), followed through the line.
* `WrittenIsRead` is the heart of the other two: a list of modes that can be written (`AllWritable`: a mode
  has arguments exactly if it needs them, and queries come first) is read back as the same list,
  with a change for each argument (`Split`). The induction is over the modes written so far, with any text and any arguments after
  them (`ReadToStep`); the inner one over the letters of one mode (`ReadsLetters`).
* `AppliedSufficesCorrect`: `Reports` follows a line and shows that the modes reported so far lead to the same
  modes and can be written.
* `StringRebuildsCorrect`: `Rebuilds` shows that after the changes for the first letters exactly these letters are
  set, with all their arguments, in whatever order the map is gone through.

For any letters and lines of any length (`MessagesProofs`):

* The invariant is `LineOK`: a line is a text over the visible codes and the space. The two theorems are about
  every such text, so all of the proof is about what the operators compute.
* FoldLeft and FlattenSeq of the library are recursive functions over a whole sequence. `Folded` turns them into a
  recursion on the number of elements used, and `ByAppending` is the induction over sequences, proved from the induction
  over numbers, again by the least element of a set.
* A line is its words, each but the last followed by a space (`Led`, `LineOf`). `SplitLed` and `SplitIs` show that
  Split and joining words are inverse; `SplitOnceAt` and `SplitOnceNowhere` say what SplitN returns, `TrimIs` what
  TrimSpace does.
* `RoundTripCorrect`: `RestPlain` and `RestMarked` give the message that Rest makes of words, without and with a marked
  last argument; `WrittenPlain` and `WrittenMarked` the words that Bytes writes. What Bytes writes is therefore
  read as the same words, and ToUpper of a command in upper case is the command.
* `GrammarParsesCorrect`: the words of the grammar up to the first marked one are those before the first colon
  (`ReadMarked`, `FromPlace`), since no word before it has a colon, and the rest of the line is what SplitN leaves.

The proofs use the assumptions named in the modules: nicks are strings of
code points, `*` is not offered as a nick (SetNick refuses it, a peer's UID is
trusted not to carry it), and the values for "nothing" are no ids.

Only model-checked: HooksEnd and QuitCloses, since liveness under fairness and ENABLED are out of
the prover's reach.

## Plan

1. The number ranges of `config.go` as pure operators with a reference definition.
2. PRIVMSG and NOTICE between servers, once channels have handlers.

## Not modelled

Numerics, configuration and logging turn text into text or read
it once. Messages between users of different servers only pass text on, and channels have no
handlers that reach them, so both are left out of `Sessions` and `ServerLinks`. The user id generator would need 36^6 ids to reach its wrap. `core.go` is
an unfinished replacement that `main.go` does not use. `rfc2812.go` is generated.
`IRCd.Quit` has no caller.
