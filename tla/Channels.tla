------------------------------ MODULE Channels ------------------------------
(***************************************************************************)
(* The channels of the daemon (src/ircd/channel.go): Channel objects, each *)
(* with a lock of its own, and chanMap, from a name to the object, under   *)
(* chanMutex.  GetChannel gives out a pointer that is used without any     *)
(* lock between: a channel may empty and leave chanMap meanwhile.  Join    *)
(* and Part take the lock of the channel and then, if at all, chanMutex;   *)
(* PartAll and ChanSplit take them in the other order.                     *)
(*                                                                         *)
(* GetChannel looks a channel up under its folded name; the other          *)
(* operations use the name as it was spelled by whoever made the channel.  *)
(* An address stands for an object, as in UserRegistry.  Left out: who is  *)
(* notified, the time stamps and the hostmasks.                            *)
(***************************************************************************)
EXTENDS Util

CONSTANTS
    Name,       \* the names by which channels are asked for, all valid
    User,       \* ids of users
    Ptr,        \* addresses of Channel objects
    Goroutine,
    NoPtr, NoOne

ASSUME ChannelsAssumption ==
    /\ Name \subseteq Seq(Nat) /\ Name # {}
    /\ NoPtr \notin Ptr
    /\ NoOne \notin Goroutine

Key == Name \cup {ToLower(n) : n \in Name}

VARIABLES
    chan,       \* the Channel objects
    chanMap,    \* name -> object
    mutex,      \* who holds the lock of a channel
    chanMutex,  \* who holds chanMutex
    task,       \* what a goroutine is doing
    orphaned,   \* history: Join has found another channel under its name
    late        \* history: who has been entered where while chanMutex was held

vars == <<chan, chanMap, mutex, chanMutex, task, orphaned, late>>

PC == {"idle", "join", "joinMap", "part", "partMap", "partAll", "split"}
Task == [pc : PC, ptr : Ptr \cup {NoPtr}, uids : SUBSET User, todo : SUBSET Key]

Channel == [name : Name, users : SUBSET User]

Idle == [pc |-> "idle", ptr |-> NoPtr, uids |-> {}, todo |-> {}]

Types ==
    /\ chan \in [Ptr -> Channel]
    /\ chanMap \in [Key -> Ptr \cup {NoPtr}]
    /\ mutex \in [Ptr -> Goroutine \cup {NoOne}]
    /\ chanMutex \in Goroutine \cup {NoOne}
    /\ task \in [Goroutine -> Task]
    /\ orphaned \in BOOLEAN
    /\ late \subseteq Ptr \X User

Low(p) == ToLower(chan[p].name)
Garbage(p) == (\A k \in Key : chanMap[k] # p) /\ (\A g \in Goroutine : task[g].ptr # p)

\* What an address holds before it holds a channel does not matter.
AnyName == CHOOSE n \in Name : TRUE

Init ==
    /\ chan = [p \in Ptr |-> [name |-> AnyName, users |-> {}]]
    /\ chanMap = [k \in Key |-> NoPtr]
    /\ mutex = [p \in Ptr |-> NoOne]
    /\ chanMutex = NoOne
    /\ task = [g \in Goroutine |-> Idle]
    /\ orphaned = FALSE /\ late = {}

-----------------------------------------------------------------------------

\* GetChannel under chanMutex: the channel of the folded name, made, when asked
\* to, if there is none; p is its address.
GetChannel(name, create, p) ==
    /\ chanMutex = NoOne
    /\ IF chanMap[ToLower(name)] # NoPtr
       THEN p = chanMap[ToLower(name)] /\ UNCHANGED <<chan, chanMap>>
       ELSE /\ create /\ Garbage(p)
            /\ chan' = [chan EXCEPT ![p] = [name |-> name, users |-> {}]]
            /\ chanMap' = [chanMap EXCEPT ![ToLower(name)] = p]

\* A goroutine asks for a channel in order to join users to it, or part one.
BeginJoin(g, name, uids) ==
    /\ task[g] = Idle
    /\ \E p \in Ptr : /\ GetChannel(name, TRUE, p)
                      /\ task' = [task EXCEPT ![g].pc = "join", ![g].ptr = p, ![g].uids = uids]
    /\ UNCHANGED <<mutex, chanMutex, orphaned, late>>

BeginPart(g, name, uid) ==
    /\ task[g] = Idle
    /\ \E p \in Ptr : /\ GetChannel(name, FALSE, p)
                      /\ task' = [task EXCEPT ![g].pc = "part", ![g].ptr = p, ![g].uids = {uid}]
    /\ UNCHANGED <<mutex, chanMutex, orphaned, late>>

\* Join of distinct users, under the lock of the channel.  One who is on it
\* already ends the call; those before it in the list have been entered.
JoinUsers(g) ==
    LET p == task[g].ptr
        users == chan[p].users
    IN
    /\ task[g].pc = "join" /\ mutex[p] = NoOne
    /\ \/ /\ task[g].uids \cap users = {}
          /\ chan' = [chan EXCEPT ![p].users = users \cup task[g].uids]
          /\ mutex' = [mutex EXCEPT ![p] = g]
          /\ task' = [task EXCEPT ![g].pc = "joinMap"]
       \/ /\ task[g].uids \cap users # {}
          /\ \E entered \in SUBSET (task[g].uids \ users) :
               chan' = [chan EXCEPT ![p].users = users \cup entered]
          /\ task' = [task EXCEPT ![g] = Idle]
          /\ UNCHANGED mutex
    /\ late' = IF chanMutex = NoOne THEN late
               ELSE late \cup ({p} \X (chan'[p].users \ users))
    /\ UNCHANGED <<chanMap, chanMutex, orphaned>>

\* Faulty variant of JoinMap: the map is not looked at again.
JoinMapSkipped(g) ==
    LET p == task[g].ptr IN
    /\ task[g].pc = "joinMap" /\ chanMutex = NoOne
    /\ mutex' = [mutex EXCEPT ![p] = NoOne]
    /\ task' = [task EXCEPT ![g] = Idle]
    /\ UNCHANGED <<chan, chanMap, chanMutex, orphaned, late>>

\* "Make sure that this channel exists": it is entered again, unless its name
\* is taken, by whatever channel.
JoinMap(g) ==
    LET p == task[g].ptr
        entry == chanMap[chan[p].name]
    IN
    /\ task[g].pc = "joinMap" /\ chanMutex = NoOne
    /\ chanMap' = IF entry = NoPtr THEN [chanMap EXCEPT ![chan[p].name] = p] ELSE chanMap
    /\ orphaned' = (orphaned \/ entry \notin {NoPtr, p})
    /\ mutex' = [mutex EXCEPT ![p] = NoOne]
    /\ task' = [task EXCEPT ![g] = Idle]
    /\ UNCHANGED <<chan, chanMutex, late>>

\* Faulty variant of PartUser: an empty channel stays.
PartUserKeeps(g) ==
    LET p == task[g].ptr IN
    /\ task[g].pc = "part" /\ mutex[p] = NoOne
    /\ chan' = [chan EXCEPT ![p].users = @ \ task[g].uids]
    /\ task' = [task EXCEPT ![g] = Idle]
    /\ UNCHANGED <<mutex, chanMap, chanMutex, orphaned, late>>

\* Part under the lock of the channel, kept if the channel is now empty.
PartUser(g) ==
    LET p == task[g].ptr
        left == chan[p].users \ task[g].uids
        emptied == task[g].uids \subseteq chan[p].users /\ left = {}
    IN
    /\ task[g].pc = "part" /\ mutex[p] = NoOne
    /\ chan' = [chan EXCEPT ![p].users = left]
    /\ IF emptied
       THEN task' = [task EXCEPT ![g].pc = "partMap"] /\ mutex' = [mutex EXCEPT ![p] = g]
       ELSE task' = [task EXCEPT ![g] = Idle] /\ UNCHANGED mutex
    /\ UNCHANGED <<chanMap, chanMutex, orphaned, late>>

\* Faulty variant of PartMap: the lock of the channel is kept.
PartMapKeepsLock(g) ==
    /\ task[g].pc = "partMap" /\ chanMutex = NoOne
    /\ chanMap' = [chanMap EXCEPT ![chan[task[g].ptr].name] = NoPtr]
    /\ task' = [task EXCEPT ![g] = Idle]
    /\ UNCHANGED <<chan, mutex, chanMutex, orphaned, late>>

\* The entry under the name of the channel goes, whatever it leads to.
PartMap(g) ==
    LET p == task[g].ptr IN
    /\ task[g].pc = "partMap" /\ chanMutex = NoOne
    /\ chanMap' = [chanMap EXCEPT ![chan[p].name] = NoPtr]
    /\ mutex' = [mutex EXCEPT ![p] = NoOne]
    /\ task' = [task EXCEPT ![g] = Idle]
    /\ UNCHANGED <<chan, chanMutex, orphaned, late>>

-----------------------------------------------------------------------------
(* PartAll and ChanSplit hold chanMutex while they go through chanMap. *)

BeginSweep(g, pc, uids) ==
    /\ task[g] = Idle /\ chanMutex = NoOne
    /\ chanMutex' = g
    /\ task' = [task EXCEPT ![g].pc = pc, ![g].uids = uids,
                            ![g].todo = {k \in Key : chanMap[k] # NoPtr}]
    /\ UNCHANGED <<chan, chanMap, mutex, orphaned, late>>

\* Faulty variant of Visited: the first channel ends the sweep.
VisitedAll(g, k) == {}
Visited(g, k) == task[g].todo \ {k}

\* One channel, under its lock: the users leave, the entry under its name goes
\* if drop.
Sweep(g, k, drop) ==
    LET p == chanMap[k] IN
    /\ k \in task[g].todo /\ p # NoPtr /\ mutex[p] = NoOne
    /\ chan' = [chan EXCEPT ![p].users = @ \ task[g].uids]
    /\ chanMap' = IF drop THEN [chanMap EXCEPT ![chan[p].name] = NoPtr] ELSE chanMap
    /\ task' = [task EXCEPT ![g].todo = Visited(g, k)]
    /\ UNCHANGED <<mutex, chanMutex, orphaned, late>>

\* PartAll leaves a channel that the user is not on as it is, even an empty one.
PartAllStep(g, k) ==
    LET users == chan[chanMap[k]].users IN
    /\ task[g].pc = "partAll"
    /\ Sweep(g, k, users = task[g].uids)

\* ChanSplit also removes a channel that was empty before.
ChanSplitStep(g, k) ==
    LET users == chan[chanMap[k]].users IN
    /\ task[g].pc = "split"
    /\ Sweep(g, k, users \subseteq task[g].uids)

\* Entries that have gone meanwhile are not visited.
EndSweep(g) ==
    /\ task[g].pc \in {"partAll", "split"}
    /\ \A k \in task[g].todo : chanMap[k] = NoPtr
    /\ chanMutex' = NoOne /\ late' = {}
    /\ task' = [task EXCEPT ![g] = Idle]
    /\ UNCHANGED <<chan, chanMap, mutex, orphaned>>

Next ==
    \E g \in Goroutine :
        \/ \E name \in Name, uids \in (SUBSET User) \ {{}} : BeginJoin(g, name, uids)
        \/ \E name \in Name, uid \in User : BeginPart(g, name, uid)
        \/ JoinUsers(g) \/ JoinMap(g) \/ PartUser(g) \/ PartMap(g)
        \/ \E uid \in User : BeginSweep(g, "partAll", {uid})
        \/ \E uids \in (SUBSET User) \ {{}} : BeginSweep(g, "split", uids)
        \/ \E k \in Key : chanMap[k] # NoPtr /\ (PartAllStep(g, k) \/ ChanSplitStep(g, k))
        \/ EndSweep(g)

Spec == Init /\ [][Next]_vars

-----------------------------------------------------------------------------

\* Who holds the lock of a channel is between its two steps on that channel.
LockHeld ==
    /\ \A g \in Goroutine : task[g].pc \in {"joinMap", "partMap"} =>
         mutex[task[g].ptr] = g
    /\ \A p \in Ptr : mutex[p] # NoOne =>
         task[mutex[p]].pc \in {"joinMap", "partMap"} /\ task[mutex[p]].ptr = p

\* The state has its types, and every lock is given back on every way out of
\* Join and Part (channel.go:94-123, 135-159).
TypeOK == Types /\ LockHeld

\* Whoever is on a channel is on the one GetChannel finds, unless Join has run
\* into another channel under its name: through every order of joins, parts
\* and sweeps, with stale pointers and names in any spelling.
MembersFindable ==
    ~orphaned => \A p \in Ptr :
        (chan[p].users # {} /\ mutex[p] = NoOne) => chanMap[Low(p)] = p

\* An empty channel stays in the map in one case only: it was made under a
\* name that is not in lower case, so that no one removes the entry under
\* which GetChannel finds it.
EmptyOnlyFolded ==
    \A k \in Key :
        LET p == chanMap[k] IN
        (p # NoPtr /\ chan[p].users = {} /\ \A g \in Goroutine : task[g].ptr # p)
          => chan[p].name # Low(p)

\* When PartAll or ChanSplit returns, its users are on no channel, but for
\* those that were entered while it ran, or that a Join which waits for the
\* map has entered in a channel that is not in it, and for orphaned channels.
SweepCompleteStep ==
    \A g \in Goroutine : EndSweep(g) =>
        \A p \in Ptr, uid \in task[g].uids : uid \in chan[p].users =>
            \/ orphaned \/ <<p, uid>> \in late
            \/ \E h \in Goroutine : task[h].pc = "joinMap" /\ task[h].ptr = p
SweepComplete == [][SweepCompleteStep]_vars

\* "Eliminate race condition [...] DONE.  Verify?" (channel.go:125-133): whoever
\* is on a channel is on the one GetChannel finds.
MembersReachable ==
    \A p \in Ptr :
        (chan[p].users # {} /\ mutex[p] = NoOne) => chanMap[Low(p)] = p

\* "Always lock this after locking a channel mutex if both are to be locked"
\* (channel.go:10): no one who holds chanMutex has to wait for the lock of a
\* channel whose holder waits for chanMutex.
LockOrder ==
    \A g, h \in Goroutine, k \in Key :
        ~(/\ chanMutex = g /\ k \in task[g].todo /\ chanMap[k] # NoPtr
          /\ task[h].pc \in {"joinMap", "partMap"} /\ chanMap[k] = task[h].ptr)

\* The channels as their callers see them: who is on the channel of a name, the
\* calls under way, and the calls of Part whose user is not on the channel that
\* they have got.
Room == {ToLower(n) : n \in Name}
member == [r \in Room |-> IF chanMap[r] = NoPtr THEN {} ELSE chan[chanMap[r]].users]

Kind == [idle |-> "none", join |-> "join", joinMap |-> "join", part |-> "part",
         partMap |-> "parted", partAll |-> "sweep", split |-> "sweep"]
op == [g \in Goroutine |->
         LET p == task[g].ptr IN
         [kind |-> IF task[g].pc = "joinMap" /\ chanMap[Low(p)] = p THEN "joined" ELSE Kind[task[g].pc],
          room |-> IF p = NoPtr THEN NoPtr ELSE Low(p),
          uids |-> task[g].uids,
          todo |-> task[g].todo \cap Room]]
missed == {g \in Goroutine : task[g].pc = "part" /\ task[g].uids \cap chan[task[g].ptr].users = {}}

Table == INSTANCE ChannelTable WITH Caller <- Goroutine, NoRoom <- NoPtr

\* Until Join has run into another channel under its name, every call takes
\* effect once and as a whole for those who look the channel up, or fails for a
\* reason that held while it ran: whatever pointers it uses (channel.go:125-133).
ImplementsTable ==
    Table!Init /\ [][~orphaned' => Table!Next]_<<member, op, missed>>

=============================================================================
