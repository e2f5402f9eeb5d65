--------------------------- MODULE ChannelsProofs ---------------------------
(***************************************************************************)
(* Proofs about the channels, for any names, users, addresses and          *)
(* goroutines.                                                             *)
(***************************************************************************)
EXTENDS Channels, SequenceTheorems, TLAPS

Alive(p) == ~Garbage(p)

\* What a goroutine knows at each place of its operation.
Shape(g) ==
    /\ task[g].pc \in {"join", "joinMap", "part", "partMap"} => task[g].ptr \in Ptr
    /\ task[g].pc = "join" => task[g].uids # {}
    /\ task[g].pc \in {"part", "partAll"} => \E uid \in User : task[g].uids = {uid}
    /\ task[g].pc = "joinMap" => chan[task[g].ptr].users # {}
    /\ task[g].pc = "partMap" => chan[task[g].ptr].users = {}
TaskShape == \A g \in Goroutine : Shape(g)

\* An entry is made under the folded name or the name itself.
EntryNamed ==
    \A k \in Key : chanMap[k] # NoPtr => k \in {Low(chanMap[k]), chan[chanMap[k]].name}

Tends(g, p) == task[g].ptr = p /\ task[g].pc \in {"join", "partMap"}

\* An empty channel with a folded name has a goroutine that is about to join
\* users to it or to remove it.
EmptyTended ==
    \A k \in Key : LET p == chanMap[k] IN
        (p # NoPtr /\ chan[p].users = {} /\ chan[p].name = Low(p)) =>
            \E g \in Goroutine : Tends(g, p)

\* The entry under the folded name of a channel whose name differs from it is
\* never removed: everyone uses the name.
SpelledStays ==
    ~orphaned => \A p \in Ptr : (Alive(p) /\ chan[p].name # Low(p)) => chanMap[Low(p)] = p

\* A channel that is being removed is in the map until PartMap.
EmptiedFindable ==
    ~orphaned => \A g \in Goroutine :
        task[g].pc = "partMap" => chanMap[Low(task[g].ptr)] = task[g].ptr

IInv == Types /\ LockHeld /\ TaskShape
MInv == IInv /\ EntryNamed /\ EmptyTended /\ SpelledStays /\ EmptiedFindable /\ MembersFindable

-----------------------------------------------------------------------------

LEMMA ToLowerType ==
    ASSUME NEW n \in Seq(Nat)
    PROVE  ToLower(n) \in Seq(Nat)
<1>1. Len(n) \in Nat /\ DOMAIN n = 1..Len(n) /\ \A i \in 1..Len(n) : n[i] \in Nat
  BY LenProperties
<1>2. \A r \in Nat : LowerRune(r) \in Nat
  BY DEF LowerRune
<1>3. ToLower(n) \in [1..Len(n) -> Nat]
  BY <1>1, <1>2 DEF ToLower
<1> QED
  BY <1>1, <1>3, SeqDef

\* Folding a folded name changes nothing.
LEMMA Idempotent ==
    ASSUME NEW n \in Seq(Nat)
    PROVE  ToLower(ToLower(n)) = ToLower(n)
<1>1. DOMAIN n = 1..Len(n) /\ \A i \in DOMAIN n : n[i] \in Nat
  BY LenProperties
<1>2. \A r \in Nat : LowerRune(LowerRune(r)) = LowerRune(r)
  BY DEF LowerRune
<1>3. DOMAIN ToLower(n) = DOMAIN n
  BY DEF ToLower
<1>4. \A i \in DOMAIN n : ToLower(n)[i] = LowerRune(n[i])
  BY DEF ToLower
<1>5. \A i \in DOMAIN n : LowerRune(ToLower(n)[i]) = ToLower(n)[i]
  BY <1>1, <1>2, <1>4
<1> QED
  BY <1>3, <1>5 DEF ToLower

\* Names and folded names are keys.
LEMMA Keys ==
    ASSUME NEW n \in Name
    PROVE  n \in Key /\ ToLower(n) \in Key /\ ToLower(ToLower(n)) = ToLower(n)
BY Idempotent, ChannelsAssumption DEF Key

\* ToLower(chan[p].name) is a key.
LEMMA LowKey ==
    ASSUME Types, NEW p \in Ptr
    PROVE  Low(p) \in Key /\ chan[p].name \in Key /\ ToLower(Low(p)) = Low(p)
BY Keys DEF Types, Low, Channel

-----------------------------------------------------------------------------
(* The locks. *)

LEMMA IdleTask == Idle \in Task
BY DEF Idle, Task, PC

LEMMA InitIInv == Init => IInv
<1> SUFFICES ASSUME Init PROVE IInv
  OBVIOUS
<1>1. AnyName \in Name
  BY ChannelsAssumption DEF AnyName
<1>2. [name |-> AnyName, users |-> {}] \in Channel
  BY <1>1 DEF Channel
<1>3. Types
  BY <1>2, IdleTask DEF Init, Types
<1>4. LockHeld /\ TaskShape
  BY DEF Init, LockHeld, TaskShape, Shape, Idle
<1> QED
  BY <1>3, <1>4 DEF IInv

\* GetChannel keeps the types; the channel it makes is in nobody's hands.
LEMMA GetChannelStep ==
    ASSUME Types, NEW name \in Name, NEW create \in BOOLEAN, NEW p \in Ptr,
           GetChannel(name, create, p)
    PROVE  /\ chan' \in [Ptr -> Channel]
           /\ chanMap' \in [Key -> Ptr \cup {NoPtr}]
           /\ \A g \in Goroutine : task[g].ptr # p \/ chan' = chan
           /\ \A q \in Ptr \ {p} : chan'[q] = chan[q]
<1>1. CASE chanMap[ToLower(name)] # NoPtr
  BY <1>1 DEF GetChannel, Types
<1>2. CASE chanMap[ToLower(name)] = NoPtr
  <2>1. /\ Garbage(p)
        /\ chan' = [chan EXCEPT ![p] = [name |-> name, users |-> {}]]
        /\ chanMap' = [chanMap EXCEPT ![ToLower(name)] = p]
    BY <1>2 DEF GetChannel
  <2>2. \A g \in Goroutine : task[g].ptr # p
    BY <2>1 DEF Garbage
  <2>3. [name |-> name, users |-> {}] \in Channel
    BY DEF Channel
  <2> QED
    BY <2>1, <2>2, <2>3 DEF Types
<1> QED
  BY <1>1, <1>2

LEMMA BeginIInv ==
    ASSUME IInv, NEW g \in Goroutine, NEW name \in Name, NEW create \in BOOLEAN,
           NEW p \in Ptr, NEW pc \in {"join", "part"}, NEW uids \in SUBSET User,
           task[g] = Idle, GetChannel(name, create, p),
           task' = [task EXCEPT ![g].pc = pc, ![g].ptr = p, ![g].uids = uids],
           UNCHANGED <<mutex, chanMutex, orphaned, late>>,
           pc = "join" => uids # {},
           pc = "part" => \E uid \in User : uids = {uid}
    PROVE  IInv'
<1>1. Types /\ LockHeld /\ TaskShape
  BY DEF IInv
<1>2. /\ task' \in [Goroutine -> Task]
      /\ task'[g].pc = pc /\ task'[g].ptr = p /\ task'[g].uids = uids
      /\ \A h \in Goroutine \ {g} : task'[h] = task[h]
  <2>1. task[g] \in Task /\ DOMAIN task = Goroutine
    BY <1>1 DEF Types
  <2>2. [task[g] EXCEPT !.pc = pc, !.ptr = p, !.uids = uids] \in Task
    BY <2>1 DEF Task, PC
  <2>3. task' = [task EXCEPT ![g] = [task[g] EXCEPT !.pc = pc, !.ptr = p, !.uids = uids]]
    BY <1>1 DEF Types
  <2>4. task'[g] = [task[g] EXCEPT !.pc = pc, !.ptr = p, !.uids = uids]
    BY <2>1, <2>3
  <2>5. \A h \in Goroutine \ {g} : task'[h] = task[h]
    BY <2>1, <2>3
  <2>6. task' \in [Goroutine -> Task]
    BY <1>1, <2>2, <2>3 DEF Types
  <2> QED
    BY <2>1, <2>4, <2>5, <2>6 DEF Task
<1>3. Types'
  BY <1>1, <1>2, GetChannelStep DEF Types
<1>4. LockHeld'
  BY <1>1, <1>2 DEF LockHeld, Types, Idle
<1>5. \A h \in Goroutine \ {g} : task[h].ptr \in Ptr => chan'[task[h].ptr] = chan[task[h].ptr]
  BY <1>1, GetChannelStep
<1>6. TaskShape'
  <2> SUFFICES ASSUME NEW h \in Goroutine PROVE Shape(h)'
    BY DEF TaskShape
  <2>1. CASE h = g
    BY <1>2, <2>1 DEF Shape
  <2>2. CASE h # g
    <3>1. task'[h] = task[h]
      BY <1>2, <2>2
    <3>2. Shape(h)
      BY <1>1 DEF TaskShape
    <3>3. task[h].ptr \in Ptr => chan'[task[h].ptr] = chan[task[h].ptr]
      BY <1>5, <2>2
    <3> QED
      BY <3>1, <3>2, <3>3 DEF Shape
  <2> QED
    BY <2>1, <2>2
<1> QED
  BY <1>3, <1>4, <1>6 DEF IInv

\* A goroutine that takes the lock of p, and gives it back or keeps it, does
\* not disturb the others, who are at other channels if they hold a lock.
LEMMA LockedStep ==
    ASSUME IInv, Types', NEW g \in Goroutine, NEW p \in Ptr,
           mutex[p] \in {NoOne, g},
           \A q \in Ptr \ {p} : chan'[q] = chan[q] /\ mutex'[q] = mutex[q],
           \A h \in Goroutine \ {g} : task'[h] = task[h],
           Shape(g)',
           \/ /\ mutex'[p] = NoOne /\ task'[g].pc \notin {"joinMap", "partMap"}
              /\ task[g].pc \in {"joinMap", "partMap"} => task[g].ptr = p
           \/ /\ mutex'[p] = g /\ task'[g].pc \in {"joinMap", "partMap"} /\ task'[g].ptr = p
              /\ task[g].pc \notin {"joinMap", "partMap"}
    PROVE  IInv'
<1>1. Types /\ LockHeld /\ TaskShape
  BY DEF IInv
<1>2. ASSUME NEW h \in Goroutine \ {g}, task[h].pc \in {"joinMap", "partMap"}
      PROVE  task[h].ptr \in Ptr \ {p}
  <2>1. task[h].ptr \in Ptr
    BY <1>1, <1>2 DEF TaskShape, Shape
  <2>2. mutex[task[h].ptr] = h /\ h # NoOne
    BY <1>1, <1>2, ChannelsAssumption DEF LockHeld
  <2> QED
    BY <2>1, <2>2
<1>3. LockHeld'
  <2>1. \A h \in Goroutine \ {g} : task'[h].pc \in {"joinMap", "partMap"} =>
          mutex'[task'[h].ptr] = h
    BY <1>1, <1>2 DEF LockHeld
  <2>2. task'[g].pc \in {"joinMap", "partMap"} => mutex'[task'[g].ptr] = g
    OBVIOUS
  <2>3. ASSUME NEW q \in Ptr, mutex'[q] # NoOne
        PROVE  task'[mutex'[q]].pc \in {"joinMap", "partMap"} /\ task'[mutex'[q]].ptr = q
    <3>1. CASE q = p
      BY <2>3, <3>1
    <3>2. CASE q # p
      <4>1. mutex'[q] = mutex[q] /\ mutex[q] \in Goroutine
        BY <1>1, <2>3, <3>2 DEF Types
      <4>2. task[mutex[q]].pc \in {"joinMap", "partMap"} /\ task[mutex[q]].ptr = q
        BY <1>1, <2>3, <4>1 DEF LockHeld
      <4>3. mutex[q] # g
        BY <3>2, <4>2
      <4> QED
        BY <4>1, <4>2, <4>3
    <3> QED
      BY <3>1, <3>2
  <2> QED
    BY <2>1, <2>2, <2>3 DEF LockHeld
<1>4. ASSUME NEW h \in Goroutine PROVE Shape(h)'
  <2>1. CASE h = g
    BY <2>1
  <2>2. CASE h # g
    <3>1. task'[h] = task[h] /\ Shape(h)
      BY <1>1, <2>2 DEF TaskShape
    <3>2. task[h].pc \in {"joinMap", "partMap"} => chan'[task[h].ptr] = chan[task[h].ptr]
      BY <1>2, <2>2
    <3> QED
      BY <3>1, <3>2 DEF Shape
  <2> QED
    BY <2>1, <2>2
<1> QED
  BY <1>3, <1>4 DEF IInv, TaskShape

\* The effect of changing the users of one channel, and the place of one task.
LEMMA UsersStep ==
    ASSUME Types, NEW p \in Ptr, NEW u \in SUBSET User, chan' = [chan EXCEPT ![p].users = u]
    PROVE  /\ chan' \in [Ptr -> Channel]
           /\ chan'[p].users = u
           /\ \A q \in Ptr : chan'[q].name = chan[q].name
           /\ \A q \in Ptr \ {p} : chan'[q] = chan[q]
BY DEF Types, Channel

LEMMA PcStep ==
    ASSUME Types, NEW g \in Goroutine, NEW pc \in PC, task' = [task EXCEPT ![g].pc = pc]
    PROVE  /\ task' \in [Goroutine -> Task]
           /\ task'[g].pc = pc /\ task'[g].ptr = task[g].ptr
           /\ \A h \in Goroutine \ {g} : task'[h] = task[h]
BY DEF Types, Task

LEMMA DoneStep ==
    ASSUME Types, NEW g \in Goroutine, task' = [task EXCEPT ![g] = Idle]
    PROVE  /\ task' \in [Goroutine -> Task]
           /\ task'[g].pc = "idle" /\ task'[g].ptr = NoPtr /\ Shape(g)'
           /\ \A h \in Goroutine \ {g} : task'[h] = task[h]
BY IdleTask DEF Types, Idle, Shape

\* The two ways a Join goes on: all users are entered, or some.
LEMMA JoinUsersCases ==
    ASSUME IInv, NEW g \in Goroutine, JoinUsers(g)
    PROVE  LET p == task[g].ptr IN
           /\ task[g].pc = "join" /\ p \in Ptr /\ mutex[p] = NoOne
           /\ UNCHANGED <<chanMap, chanMutex, orphaned>>
           /\ \E u \in SUBSET User : /\ chan' = [chan EXCEPT ![p].users = u]
                                    /\ chan[p].users \subseteq u /\ u # {}
           /\ \/ mutex' = [mutex EXCEPT ![p] = g] /\ task' = [task EXCEPT ![g].pc = "joinMap"]
              \/ mutex' = mutex /\ task' = [task EXCEPT ![g] = Idle] /\ chan[p].users # {}
<1> DEFINE p == task[g].ptr
           users == chan[p].users
<1>1. Types /\ Shape(g)
  BY DEF IInv, TaskShape
<1>2. task[g].pc = "join" /\ p \in Ptr /\ mutex[p] = NoOne /\ task[g].uids # {}
      /\ UNCHANGED <<chanMap, chanMutex, orphaned>>
  BY <1>1 DEF JoinUsers, Shape
<1>3. task[g].uids \subseteq User /\ users \subseteq User
  BY <1>1, <1>2 DEF Types, Task, Channel
<1>4. CASE task[g].uids \cap users = {}
  <2>1. /\ chan' = [chan EXCEPT ![p].users = users \cup task[g].uids]
        /\ mutex' = [mutex EXCEPT ![p] = g] /\ task' = [task EXCEPT ![g].pc = "joinMap"]
    BY <1>4 DEF JoinUsers
  <2>2. users \cup task[g].uids \in SUBSET User /\ users \cup task[g].uids # {}
    BY <1>2, <1>3
  <2> QED
    BY <1>2, <2>1, <2>2
<1>5. CASE task[g].uids \cap users # {}
  <2>1. PICK entered \in SUBSET (task[g].uids \ users) :
          chan' = [chan EXCEPT ![p].users = users \cup entered]
    BY <1>5 DEF JoinUsers
  <2>2. task' = [task EXCEPT ![g] = Idle] /\ mutex' = mutex /\ users # {}
    BY <1>5 DEF JoinUsers
  <2>3. users \cup entered \in SUBSET User /\ users \cup entered # {}
    BY <1>3, <2>2
  <2> QED
    BY <1>2, <2>1, <2>2, <2>3
<1> QED
  BY <1>4, <1>5

LEMMA JoinUsersIInv ==
    ASSUME IInv, NEW g \in Goroutine, JoinUsers(g)
    PROVE  IInv'
<1> DEFINE p == task[g].ptr
<1>1. Types
  BY DEF IInv
<1>2. /\ task[g].pc = "join" /\ p \in Ptr /\ mutex[p] = NoOne
      /\ UNCHANGED <<chanMap, chanMutex, orphaned>>
  BY JoinUsersCases
<1>3. PICK u \in SUBSET User : chan' = [chan EXCEPT ![p].users = u] /\ u # {}
  BY JoinUsersCases
<1>4. /\ chan' \in [Ptr -> Channel] /\ chan'[p].users = u
      /\ \A q \in Ptr \ {p} : chan'[q] = chan[q]
  BY <1>1, <1>2, <1>3, UsersStep
<1>5. late' \subseteq Ptr \X User
  <2>1. {p} \X (chan'[p].users \ chan[p].users) \subseteq Ptr \X User
    BY <1>2, <1>4
  <2> QED
    BY <1>1, <2>1 DEF JoinUsers, Types
<1>6. CASE mutex' = [mutex EXCEPT ![p] = g] /\ task' = [task EXCEPT ![g].pc = "joinMap"]
  <2>1. /\ task' \in [Goroutine -> Task] /\ task'[g].pc = "joinMap" /\ task'[g].ptr = p
        /\ \A h \in Goroutine \ {g} : task'[h] = task[h]
    BY <1>1, <1>6, PcStep DEF PC
  <2>2. Types'
    BY <1>1, <1>2, <1>4, <1>5, <1>6, <2>1 DEF Types
  <2>3. Shape(g)'
    BY <1>2, <1>3, <1>4, <2>1 DEF Shape
  <2>4. mutex'[p] = g /\ \A q \in Ptr \ {p} : mutex'[q] = mutex[q]
    BY <1>1, <1>2, <1>6 DEF Types
  <2> QED
    BY <1>2, <1>4, <2>1, <2>2, <2>3, <2>4, LockedStep
<1>7. CASE mutex' = mutex /\ task' = [task EXCEPT ![g] = Idle]
  <2>1. /\ task' \in [Goroutine -> Task] /\ task'[g].pc = "idle" /\ Shape(g)'
        /\ \A h \in Goroutine \ {g} : task'[h] = task[h]
    BY <1>1, <1>7, DoneStep
  <2>2. Types'
    BY <1>1, <1>2, <1>4, <1>5, <1>7, <2>1 DEF Types
  <2> QED
    BY <1>2, <1>4, <1>7, <2>1, <2>2, LockedStep
<1> QED
  BY <1>6, <1>7, JoinUsersCases

LEMMA MapStepIInv ==
    ASSUME IInv, NEW g \in Goroutine, task[g].pc \in {"joinMap", "partMap"},
           chanMap' \in [Key -> Ptr \cup {NoPtr}], orphaned' \in BOOLEAN,
           mutex' = [mutex EXCEPT ![task[g].ptr] = NoOne],
           task' = [task EXCEPT ![g] = Idle], UNCHANGED <<chan, chanMutex, late>>
    PROVE  IInv'
<1> DEFINE p == task[g].ptr
<1>1. Types /\ p \in Ptr /\ mutex[p] = g
  BY DEF IInv, TaskShape, Shape, LockHeld
<1>2. /\ task' \in [Goroutine -> Task] /\ task'[g].pc = "idle" /\ Shape(g)'
      /\ \A h \in Goroutine \ {g} : task'[h] = task[h]
  BY <1>1, DoneStep
<1>3. mutex'[p] = NoOne /\ \A q \in Ptr \ {p} : mutex'[q] = mutex[q]
  BY <1>1 DEF Types
<1>4. Types'
  BY <1>1, <1>2 DEF Types
<1> QED
  BY <1>1, <1>2, <1>3, <1>4, LockedStep

LEMMA JoinMapIInv ==
    ASSUME IInv, NEW g \in Goroutine, JoinMap(g)
    PROVE  IInv'
<1>1. Types /\ task[g].ptr \in Ptr
  BY DEF IInv, TaskShape, Shape, JoinMap
<1>2. chanMap' \in [Key -> Ptr \cup {NoPtr}] /\ orphaned' \in BOOLEAN
  BY <1>1 DEF Types, JoinMap
<1> QED
  BY <1>2, MapStepIInv DEF JoinMap

LEMMA PartMapIInv ==
    ASSUME IInv, NEW g \in Goroutine, PartMap(g)
    PROVE  IInv'
<1>1. chanMap' \in [Key -> Ptr \cup {NoPtr}] /\ orphaned' \in BOOLEAN
  BY DEF IInv, Types, PartMap
<1> QED
  BY <1>1, MapStepIInv DEF PartMap

LEMMA PartUserIInv ==
    ASSUME IInv, NEW g \in Goroutine, PartUser(g)
    PROVE  IInv'
<1> DEFINE p == task[g].ptr
           left == chan[p].users \ task[g].uids
<1>1. Types /\ task[g].pc = "part" /\ p \in Ptr /\ mutex[p] = NoOne
  BY DEF IInv, TaskShape, Shape, PartUser
<1>2. left \in SUBSET User /\ chan' = [chan EXCEPT ![p].users = left]
  BY <1>1 DEF Types, Channel, PartUser
<1> HIDE DEF left
<1>3. /\ chan' \in [Ptr -> Channel] /\ chan'[p].users = left
      /\ \A q \in Ptr \ {p} : chan'[q] = chan[q]
  BY <1>1, <1>2, UsersStep
<1>4. UNCHANGED <<chanMap, chanMutex, orphaned, late>>
  BY DEF PartUser
<1>5. CASE mutex' = [mutex EXCEPT ![p] = g] /\ task' = [task EXCEPT ![g].pc = "partMap"]
           /\ left = {}
  <2>1. /\ task' \in [Goroutine -> Task] /\ task'[g].pc = "partMap" /\ task'[g].ptr = p
        /\ \A h \in Goroutine \ {g} : task'[h] = task[h]
    BY <1>1, <1>5, PcStep DEF PC
  <2>2. Types'
    BY <1>1, <1>3, <1>4, <1>5, <2>1 DEF Types
  <2>3. Shape(g)'
    BY <1>1, <1>3, <1>5, <2>1 DEF Shape
  <2>4. mutex'[p] = g /\ \A q \in Ptr \ {p} : mutex'[q] = mutex[q]
    BY <1>1, <1>5 DEF Types
  <2> QED
    BY <1>1, <1>3, <2>1, <2>2, <2>3, <2>4, LockedStep
<1>6. CASE mutex' = mutex /\ task' = [task EXCEPT ![g] = Idle]
  <2>1. /\ task' \in [Goroutine -> Task] /\ task'[g].pc = "idle" /\ Shape(g)'
        /\ \A h \in Goroutine \ {g} : task'[h] = task[h]
    BY <1>1, <1>6, DoneStep
  <2>2. Types'
    BY <1>1, <1>3, <1>4, <1>6, <2>1 DEF Types
  <2> QED
    BY <1>1, <1>3, <1>6, <2>1, <2>2, LockedStep
<1> QED
  BY <1>5, <1>6 DEF PartUser, left

LEMMA BeginSweepIInv ==
    ASSUME IInv, NEW g \in Goroutine, NEW pc \in {"partAll", "split"}, NEW uids \in SUBSET User,
           BeginSweep(g, pc, uids), pc = "partAll" => \E uid \in User : uids = {uid}
    PROVE  IInv'
<1>1. Types /\ LockHeld /\ TaskShape /\ task[g].pc = "idle"
  BY DEF IInv, BeginSweep, Idle
<1>2. /\ task' \in [Goroutine -> Task] /\ task'[g].pc = pc /\ task'[g].uids = uids
      /\ \A h \in Goroutine \ {g} : task'[h] = task[h]
  <2> DEFINE keys == {k \in Key : chanMap[k] # NoPtr}
             t == [task[g] EXCEPT !.pc = pc, !.uids = uids, !.todo = keys]
  <2>1. task[g] \in Task /\ keys \in SUBSET Key
    BY <1>1 DEF Types
  <2>2. t \in Task /\ t.pc = pc /\ t.uids = uids
    BY <2>1 DEF Task, PC
  <2>3. task' = [task EXCEPT ![g] = t]
    BY <1>1 DEF BeginSweep, Types
  <2> HIDE DEF t
  <2> QED
    BY <1>1, <2>2, <2>3 DEF Types
<1>3. chan' = chan /\ mutex' = mutex
  BY DEF BeginSweep
<1>4. Types'
  BY <1>1, <1>2 DEF BeginSweep, Types
<1>5. LockHeld'
  BY <1>1, <1>2, <1>3 DEF LockHeld, Types
<1>6. TaskShape'
  BY <1>1, <1>2, <1>3 DEF TaskShape, Shape
<1> QED
  BY <1>4, <1>5, <1>6 DEF IInv

LEMMA SweepIInv ==
    ASSUME IInv, NEW g \in Goroutine, NEW k \in Key, task[g].pc \in {"partAll", "split"},
           NEW drop \in BOOLEAN, Sweep(g, k, drop)
    PROVE  /\ IInv'
           /\ task'[g].pc = task[g].pc /\ task'[g].uids = task[g].uids
           /\ task'[g].ptr = task[g].ptr
           /\ \A h \in Goroutine \ {g} : task'[h] = task[h]
<1> DEFINE p == chanMap[k]
           left == chan[p].users \ task[g].uids
<1>1. Types /\ LockHeld /\ TaskShape /\ p \in Ptr /\ mutex[p] = NoOne /\ mutex' = mutex
      /\ UNCHANGED <<chanMutex, orphaned, late>>
  BY DEF IInv, Types, Sweep
<1>2. left \in SUBSET User /\ chan' = [chan EXCEPT ![p].users = left]
  BY <1>1 DEF Types, Channel, Sweep
<1> HIDE DEF left
<1>3. /\ chan' \in [Ptr -> Channel]
      /\ \A q \in Ptr \ {p} : chan'[q] = chan[q]
  BY <1>1, <1>2, UsersStep
<1>4. /\ task' \in [Goroutine -> Task] /\ task'[g].pc = task[g].pc
      /\ task'[g].uids = task[g].uids /\ task'[g].ptr = task[g].ptr
      /\ \A h \in Goroutine \ {g} : task'[h] = task[h]
  <2> DEFINE todo == Visited(g, k)
             t == [task[g] EXCEPT !.todo = todo]
  <2>1. task[g] \in Task /\ todo \in SUBSET Key
    BY <1>1 DEF Types, Task, Visited
  <2>2. t \in Task /\ t.pc = task[g].pc /\ t.uids = task[g].uids /\ t.ptr = task[g].ptr
    BY <2>1 DEF Task
  <2>3. task' = [task EXCEPT ![g] = t]
    BY <1>1 DEF Sweep, Types
  <2> HIDE DEF t
  <2> QED
    BY <1>1, <2>2, <2>3 DEF Types
<1>5. chanMap' \in [Key -> Ptr \cup {NoPtr}]
  BY <1>1 DEF Sweep, Types
<1>6. Types'
  BY <1>1, <1>3, <1>4, <1>5 DEF Types
<1>7. Shape(g)'
  BY <1>1, <1>4 DEF TaskShape, Shape
<1> QED
  BY <1>1, <1>3, <1>4, <1>6, <1>7, LockedStep

\* PartAll and ChanSplit visit a channel in the same way.
LEMMA SweepSteps ==
    ASSUME IInv, NEW g \in Goroutine, NEW k \in Key, chanMap[k] # NoPtr,
           PartAllStep(g, k) \/ ChanSplitStep(g, k)
    PROVE  /\ task[g].pc \in {"partAll", "split"}
           /\ \E drop \in BOOLEAN :
                /\ Sweep(g, k, drop)
                /\ drop => chan[chanMap[k]].users \subseteq task[g].uids
                /\ ~drop => \/ ~(chan[chanMap[k]].users \subseteq task[g].uids)
                            \/ chan[chanMap[k]].users = {}
<1> DEFINE users == chan[chanMap[k]].users
<1>1. CASE PartAllStep(g, k)
  <2>1. task[g].pc = "partAll" /\ Sweep(g, k, users = task[g].uids)
    BY <1>1 DEF PartAllStep
  <2>2. (users = task[g].uids) \in BOOLEAN /\ ((users = task[g].uids) => users \subseteq task[g].uids)
    OBVIOUS
  <2>3. ~(users = task[g].uids) => ~(users \subseteq task[g].uids) \/ users = {}
    <3>1. PICK uid \in User : task[g].uids = {uid}
      BY <2>1 DEF IInv, TaskShape, Shape
    <3> QED
      BY <3>1
  <2> QED
    BY <2>1, <2>2, <2>3
<1>2. CASE ChanSplitStep(g, k)
  <2>1. task[g].pc = "split" /\ Sweep(g, k, users \subseteq task[g].uids)
    BY <1>2 DEF ChanSplitStep
  <2>2. (users \subseteq task[g].uids) \in BOOLEAN
    OBVIOUS
  <2> QED
    BY <2>1, <2>2
<1> QED
  BY <1>1, <1>2

LEMMA EndSweepIInv ==
    ASSUME IInv, NEW g \in Goroutine, EndSweep(g)
    PROVE  IInv'
<1>1. Types /\ LockHeld /\ TaskShape /\ task[g].pc \notin {"joinMap", "partMap"}
  BY DEF IInv, EndSweep
<1>2. /\ task' \in [Goroutine -> Task] /\ task'[g].pc = "idle" /\ Shape(g)'
      /\ \A h \in Goroutine \ {g} : task'[h] = task[h]
  BY <1>1, DoneStep DEF EndSweep
<1>3. UNCHANGED <<chan, chanMap, mutex, orphaned>> /\ chanMutex' = NoOne /\ late' = {}
  BY DEF EndSweep
<1>4. Types'
  BY <1>1, <1>2, <1>3 DEF Types
<1>5. LockHeld'
  BY <1>1, <1>2, <1>3 DEF LockHeld, Types
<1>6. TaskShape'
  BY <1>1, <1>2, <1>3 DEF TaskShape, Shape
<1> QED
  BY <1>4, <1>5, <1>6 DEF IInv

-----------------------------------------------------------------------------
(* The map.  Most steps make no channel: they leave the names as they are   *)
(* and give no goroutine a pointer.                                         *)

NamesKept ==
    /\ \A p \in Ptr : chan'[p].name = chan[p].name
    /\ orphaned => orphaned'
    /\ \A h \in Goroutine : task'[h].ptr \in {task[h].ptr, NoPtr}

\* A new entry is made under the name of a channel with users.
NewEntries ==
    \A k \in Key :
        \/ chanMap'[k] \in {chanMap[k], NoPtr}
        \/ /\ chan'[chanMap'[k]].users # {} /\ k = chan[chanMap'[k]].name
           /\ \E h \in Goroutine : task[h].ptr = chanMap'[k]

\* What holds of the channels other than d, whose entry may go.
EntriesKept(d) ==
    ~orphaned' => \A p \in Ptr :
        (chanMap[Low(p)] = p /\ (p = d => chan[p].name # Low(p))) => chanMap'[Low(p)] = p

MembersKept(d) ==
    ~orphaned' => \A p \in Ptr : (chan'[p].users # {} /\ mutex'[p] = NoOne) =>
        \/ chanMap'[Low(p)] = p
        \/ chan[p].users # {} /\ mutex[p] = NoOne /\ p # d

EmptiedKept(d) ==
    ~orphaned' => \A h \in Goroutine : task'[h].pc = "partMap" =>
        \/ chanMap'[Low(task'[h].ptr)] = task'[h].ptr
        \/ task'[h] = task[h] /\ task[h].ptr # d

TendersKept ==
    \A k \in Key, p \in Ptr :
        (chanMap'[k] = p /\ chan'[p].users = {} /\ chan[p].name = Low(p)) =>
            \/ \E h \in Goroutine : Tends(h, p)'
            \/ chan[p].users = {} /\ \A h \in Goroutine : Tends(h, p) => Tends(h, p)'

LEMMA SteadyStep ==
    ASSUME MInv, IInv', NEW d \in Ptr \cup {NoPtr}, NamesKept, NewEntries, EntriesKept(d),
           MembersKept(d), EmptiedKept(d), TendersKept
    PROVE  MInv'
<1>1. Types /\ Types' /\ TaskShape' /\ EntryNamed /\ EmptyTended /\ SpelledStays
      /\ EmptiedFindable /\ MembersFindable /\ NoPtr \notin Ptr
  BY ChannelsAssumption DEF MInv, IInv
<1>2. \A p \in Ptr : Low(p)' = Low(p) /\ Low(p) \in Key
  BY <1>1, LowKey DEF Low, NamesKept
<1>3. \A k \in Key : chanMap'[k] = NoPtr \/ chanMap'[k] \in Ptr
  BY <1>1 DEF Types
<1>4. EntryNamed'
  <2> SUFFICES ASSUME NEW k \in Key, chanMap'[k] # NoPtr
               PROVE  k \in {Low(chanMap'[k]), chan[chanMap'[k]].name}
    BY <1>2, <1>3 DEF EntryNamed, NamesKept
  <2> QED
    BY <1>1 DEF EntryNamed, NewEntries
<1>5. EmptyTended'
  <2> SUFFICES ASSUME NEW k \in Key, NEW p \in Ptr, chanMap'[k] = p, chan'[p].users = {},
                      chan[p].name = Low(p)
               PROVE  \E g \in Goroutine : Tends(g, p)'
    BY <1>2, <1>3 DEF EmptyTended, NamesKept
  <2>1. chanMap[k] = p
    BY <1>1 DEF NewEntries
  <2>2. chan[p].users = {} => \E g \in Goroutine : Tends(g, p)
    BY <1>1, <2>1 DEF EmptyTended
  <2> QED
    BY <2>2 DEF TendersKept
<1>6. SpelledStays'
  <2> SUFFICES ASSUME ~orphaned', NEW p \in Ptr, Alive(p)', chan[p].name # Low(p)
               PROVE  chanMap'[Low(p)] = p
    BY <1>2 DEF SpelledStays, NamesKept
  <2>1. Alive(p)
    BY <1>1 DEF Alive, Garbage, NamesKept, NewEntries
  <2>2. chanMap[Low(p)] = p
    BY <1>1, <2>1 DEF SpelledStays, NamesKept
  <2> QED
    BY <2>2 DEF EntriesKept
<1>7. EmptiedFindable'
  <2> SUFFICES ASSUME ~orphaned', NEW h \in Goroutine, task'[h].pc = "partMap"
               PROVE  chanMap'[Low(task'[h].ptr)] = task'[h].ptr
    BY <1>1, <1>2 DEF EmptiedFindable, TaskShape, Shape
  <2>1. task'[h].ptr \in Ptr
    BY <1>1 DEF TaskShape, Shape
  <2>2. CASE task'[h] = task[h] /\ task[h].ptr # d
    <3>1. chanMap[Low(task[h].ptr)] = task[h].ptr
      BY <1>1, <2>2 DEF EmptiedFindable, NamesKept
    <3> QED
      BY <2>1, <2>2, <3>1 DEF EntriesKept
  <2> QED
    BY <2>2 DEF EmptiedKept
<1>8. MembersFindable'
  <2> SUFFICES ASSUME ~orphaned', NEW p \in Ptr, chan'[p].users # {}, mutex'[p] = NoOne
               PROVE  chanMap'[Low(p)] = p
    BY <1>2 DEF MembersFindable
  <2>1. chanMap[Low(p)] = p \/ chanMap'[Low(p)] = p
    BY <1>1 DEF MembersFindable, MembersKept, NamesKept
  <2> QED
    BY <1>1, <2>1 DEF MembersFindable, MembersKept, NamesKept, EntriesKept
<1> QED
  BY <1>4, <1>5, <1>6, <1>7, <1>8 DEF MInv

\* An entry dropped under the name of q is not the one under the folded name of
\* another channel.
LEMMA DropKeeps ==
    ASSUME Types, NEW p \in Ptr, NEW q \in Ptr, chanMap[Low(p)] = p,
           chan[q].name = Low(q) => chanMap[Low(q)] = q,
           chan[q].name = Low(p)
    PROVE  p = q /\ chan[p].name = Low(p)
<1>1. ToLower(Low(p)) = Low(p)
  BY LowKey
<1>2. Low(q) = Low(p)
  BY <1>1 DEF Low
<1> QED
  BY <1>2

\* GetChannel makes a channel that the goroutine is about to join users to, or
\* changes nothing.
LEMMA BeginMInv ==
    ASSUME MInv, IInv', NEW g \in Goroutine, NEW name \in Name, NEW create \in BOOLEAN,
           NEW p \in Ptr, NEW pc \in {"join", "part"}, NEW uids \in SUBSET User,
           task[g] = Idle, GetChannel(name, create, p), create => pc = "join",
           task' = [task EXCEPT ![g].pc = pc, ![g].ptr = p, ![g].uids = uids],
           UNCHANGED <<mutex, chanMutex, orphaned, late>>
    PROVE  MInv'
<1>1. Types /\ Types' /\ EntryNamed /\ EmptyTended /\ SpelledStays /\ EmptiedFindable
      /\ MembersFindable /\ NoPtr \notin Ptr /\ TaskShape
  BY ChannelsAssumption DEF MInv, IInv
<1>2. /\ task'[g].pc = pc /\ task'[g].ptr = p
      /\ \A h \in Goroutine \ {g} : task'[h] = task[h]
      /\ task[g].pc = "idle" /\ task[g].ptr = NoPtr
  BY <1>1 DEF Types, Task, Idle
<1>3. \A q \in Ptr : Low(q) \in Key
  BY <1>1, LowKey
<1> DEFINE NewLow(q) == ToLower(chan'[q].name)
           NewTends(h, q) == task'[h].ptr = q /\ task'[h].pc \in {"join", "partMap"}
<1>4. CASE chanMap[ToLower(name)] # NoPtr
  <2>1. chan' = chan /\ chanMap' = chanMap /\ p = chanMap[ToLower(name)] /\ ToLower(name) \in Key
    BY <1>4, Keys DEF GetChannel
  <2>2. \A q \in Ptr : NewLow(q) = Low(q)
    BY <2>1 DEF Low
  <2>3. EntryNamed'
    BY <1>1, <2>1 DEF EntryNamed, Low
  <2>4. \A h \in Goroutine, q \in Ptr : Tends(h, q) => NewTends(h, q)
    BY <1>2 DEF Tends
  <2>5. EmptyTended'
    BY <1>1, <2>1, <2>2, <2>4 DEF EmptyTended, Types, Low, Tends
  <2>6. \A q \in Ptr : Alive(q)' => Alive(q)
    BY <1>2, <2>1 DEF Alive, Garbage
  <2>7. SpelledStays'
    BY <1>1, <2>1, <2>6 DEF SpelledStays, Low
  <2>8. EmptiedFindable'
    <3> SUFFICES ASSUME ~orphaned', NEW h \in Goroutine, task'[h].pc = "partMap"
                 PROVE  chanMap'[NewLow(task'[h].ptr)] = task'[h].ptr
      BY DEF EmptiedFindable, Low
    <3>1. h # g /\ task'[h] = task[h]
      BY <1>2
    <3>2. task[h].ptr \in Ptr
      BY <1>1, <3>1 DEF TaskShape, Shape
    <3> QED
      BY <1>1, <2>1, <3>1, <3>2 DEF EmptiedFindable, Low
  <2>9. MembersFindable'
    BY <1>1, <2>1 DEF MembersFindable, Low
  <2> QED
    BY <2>3, <2>5, <2>7, <2>8, <2>9 DEF MInv
<1>5. CASE chanMap[ToLower(name)] = NoPtr
  <2> DEFINE low == ToLower(name)
  <2>1. /\ create /\ Garbage(p)
        /\ chan' = [chan EXCEPT ![p] = [name |-> name, users |-> {}]]
        /\ chanMap' = [chanMap EXCEPT ![low] = p]
    BY <1>5 DEF GetChannel
  <2>2. low \in Key
    BY Keys
  <2>3. /\ chan'[p] = [name |-> name, users |-> {}]
        /\ \A q \in Ptr \ {p} : chan'[q] = chan[q]
        /\ chanMap'[low] = p
        /\ \A k \in Key \ {low} : chanMap'[k] = chanMap[k]
    BY <1>1, <2>1, <2>2 DEF Types
  <2>4. NewLow(p) = low /\ \A q \in Ptr \ {p} : NewLow(q) = Low(q)
    BY <2>3 DEF Low
  <2>5. (\A k \in Key : chanMap[k] # p) /\ (\A h \in Goroutine : task[h].ptr # p)
    BY <2>1 DEF Garbage
  <2> HIDE DEF low
  <2>6. \A q \in Ptr \ {p} : chanMap[Low(q)] = q => chanMap'[NewLow(q)] = q
    BY <1>1, <1>3, <1>5, <2>3, <2>4 DEF low
  <2>7. EntryNamed'
    <3> SUFFICES ASSUME NEW k \in Key, chanMap'[k] # NoPtr
                 PROVE  k \in {NewLow(chanMap'[k]), chan'[chanMap'[k]].name}
      BY DEF EntryNamed, Low
    <3>1. CASE k = low
      BY <2>3, <2>4, <3>1
    <3>2. CASE k # low
      <4>1. chanMap'[k] = chanMap[k] /\ chanMap[k] \in Ptr \ {p}
        BY <1>1, <2>3, <2>5, <3>2 DEF Types
      <4> QED
        BY <1>1, <2>3, <2>4, <4>1 DEF EntryNamed
    <3> QED
      BY <3>1, <3>2
  <2>8. \A h \in Goroutine, q \in Ptr : Tends(h, q) => NewTends(h, q)
    BY <1>2 DEF Tends
  <2>9. NewTends(g, p)
    BY <1>2, <2>1 DEF Tends
  <2>10. EmptyTended'
    <3> SUFFICES ASSUME NEW k \in Key, chanMap'[k] # NoPtr, chan'[chanMap'[k]].users = {},
                        chan'[chanMap'[k]].name = NewLow(chanMap'[k])
                 PROVE  \E h \in Goroutine : NewTends(h, chanMap'[k])
      BY DEF EmptyTended, Low, Tends
    <3>1. CASE k = low
      BY <2>3, <2>9, <3>1
    <3>2. CASE k # low
      <4>1. chanMap'[k] = chanMap[k] /\ chanMap[k] \in Ptr \ {p}
        BY <1>1, <2>3, <2>5, <3>2 DEF Types
      <4>2. PICK h \in Goroutine : Tends(h, chanMap[k])
        BY <1>1, <2>3, <2>4, <4>1 DEF EmptyTended
      <4> QED
        BY <2>8, <4>1, <4>2
    <3> QED
      BY <3>1, <3>2
  <2>11. \A q \in Ptr \ {p} : Alive(q)' => Alive(q)
    BY <1>2, <2>3, <2>2, ZenonT(40) DEF Alive, Garbage
  <2>12. SpelledStays'
    <3> SUFFICES ASSUME ~orphaned', NEW q \in Ptr, Alive(q)', chan'[q].name # NewLow(q)
                 PROVE  chanMap'[NewLow(q)] = q
      BY DEF SpelledStays, Low
    <3>1. CASE q = p
      BY <2>3, <2>4, <3>1
    <3>2. CASE q # p
      BY <1>1, <2>3, <2>4, <2>6, <2>11, <3>2 DEF SpelledStays
    <3> QED
      BY <3>1, <3>2
  <2>13. EmptiedFindable'
    <3> SUFFICES ASSUME ~orphaned', NEW h \in Goroutine, task'[h].pc = "partMap"
                 PROVE  chanMap'[NewLow(task'[h].ptr)] = task'[h].ptr
      BY DEF EmptiedFindable, Low
    <3>1. h # g /\ task'[h] = task[h]
      BY <1>2
    <3>2. task[h].ptr \in Ptr \ {p}
      BY <1>1, <2>5, <3>1 DEF TaskShape, Shape
    <3>3. chanMap[Low(task[h].ptr)] = task[h].ptr
      BY <1>1, <3>1 DEF EmptiedFindable
    <3> QED
      BY <2>6, <3>1, <3>2, <3>3
  <2>14. MembersFindable'
    <3> SUFFICES ASSUME ~orphaned', NEW q \in Ptr, chan'[q].users # {}, mutex'[q] = NoOne
                 PROVE  chanMap'[NewLow(q)] = q
      BY DEF MembersFindable, Low
    <3>1. q # p
      BY <2>3
    <3> QED
      BY <1>1, <2>3, <2>6, <3>1 DEF MembersFindable
  <2> QED
    BY <2>7, <2>10, <2>12, <2>13, <2>14 DEF MInv
<1> QED
  BY <1>4, <1>5

LEMMA JoinUsersMInv ==
    ASSUME MInv, NEW g \in Goroutine, JoinUsers(g)
    PROVE  MInv'
<1> DEFINE p == task[g].ptr
<1>1. IInv /\ IInv' /\ Types /\ Types' /\ NoPtr \notin Ptr /\ NoOne \notin Goroutine
  BY JoinUsersIInv, ChannelsAssumption DEF MInv, IInv
<1>2. /\ task[g].pc = "join" /\ p \in Ptr /\ mutex[p] = NoOne
      /\ UNCHANGED <<chanMap, chanMutex, orphaned>>
  BY <1>1, JoinUsersCases
<1>3. PICK u \in SUBSET User : /\ chan' = [chan EXCEPT ![p].users = u] /\ u # {}
  BY <1>1, JoinUsersCases
<1>4. /\ chan'[p].users # {}
      /\ \A q \in Ptr : chan'[q].name = chan[q].name
      /\ \A q \in Ptr \ {p} : chan'[q] = chan[q]
  BY <1>1, <1>2, <1>3, UsersStep
<1>5. \A h \in Goroutine \ {g} : task'[h] = task[h]
  <2>1. CASE task' = [task EXCEPT ![g].pc = "joinMap"]
    BY <1>1, <2>1 DEF Types
  <2>2. CASE task' = [task EXCEPT ![g] = Idle]
    BY <1>1, <2>2 DEF Types
  <2> QED
    BY <1>1, <2>1, <2>2, JoinUsersCases
<1>6. task'[g].ptr \in {p, NoPtr} /\ task'[g].pc # "partMap"
  <2>1. CASE task' = [task EXCEPT ![g].pc = "joinMap"]
    BY <1>1, <2>1, PcStep DEF PC
  <2>2. CASE task' = [task EXCEPT ![g] = Idle]
    BY <1>1, <2>2, DoneStep
  <2> QED
    BY <1>1, <2>1, <2>2, JoinUsersCases
<1>7. mutex'[p] = NoOne => chan[p].users # {}
  <2>1. CASE mutex' = [mutex EXCEPT ![p] = g]
    BY <1>1, <1>2, <2>1 DEF Types
  <2> QED
    BY <1>1, <2>1, JoinUsersCases
<1>8. \A q \in Ptr \ {p} : mutex'[q] = mutex[q]
  BY <1>1, <1>2, JoinUsersCases DEF Types
<1>9. \A q \in Ptr : (chan'[q].users # {} /\ mutex'[q] = NoOne) => chan[q].users # {} /\ mutex[q] = NoOne
  BY <1>2, <1>4, <1>7, <1>8
<1>10. \A q \in Ptr : chan'[q].users = {} =>
          chan[q].users = {} /\ \A h \in Goroutine : Tends(h, q) => Tends(h, q)'
  BY <1>2, <1>4, <1>5 DEF Tends
<1>11. NamesKept /\ NewEntries /\ EntriesKept(NoPtr)
  BY <1>2, <1>4, <1>5, <1>6 DEF NamesKept, NewEntries, EntriesKept
<1>12. MembersKept(NoPtr)
  BY <1>1, <1>9 DEF MembersKept
<1>13. EmptiedKept(NoPtr)
  BY <1>1, <1>5, <1>6 DEF EmptiedKept, IInv, TaskShape, Shape
<1>14. TendersKept
  BY <1>10 DEF TendersKept
<1> QED
  BY <1>1, <1>11, <1>12, <1>13, <1>14, SteadyStep

LEMMA JoinMapMInv ==
    ASSUME MInv, NEW g \in Goroutine, JoinMap(g)
    PROVE  MInv'
<1> DEFINE p == task[g].ptr
           n == chan[p].name
<1>1. /\ IInv /\ IInv' /\ Types /\ LockHeld /\ SpelledStays /\ NoPtr \notin Ptr
      /\ task[g].pc = "joinMap" /\ p \in Ptr /\ chan[p].users # {} /\ mutex[p] = g
  BY JoinMapIInv, ChannelsAssumption DEF MInv, IInv, LockHeld, TaskShape, Shape, JoinMap
<1>2. n \in Key /\ \A q \in Ptr : Low(q) \in Key
  BY <1>1, LowKey
<1>3. /\ chanMap' = IF chanMap[n] = NoPtr THEN [chanMap EXCEPT ![n] = p] ELSE chanMap
      /\ orphaned' = (orphaned \/ chanMap[n] \notin {NoPtr, p})
      /\ chan' = chan /\ mutex' = [mutex EXCEPT ![p] = NoOne] /\ task' = [task EXCEPT ![g] = Idle]
  BY DEF JoinMap
<1> HIDE DEF n
<1>4. /\ task'[g].pc = "idle" /\ task'[g].ptr = NoPtr
      /\ \A h \in Goroutine \ {g} : task'[h] = task[h]
  BY <1>1, <1>3, DoneStep
<1>5. \A k \in Key : \/ chanMap'[k] = chanMap[k]
                     \/ chanMap[k] = NoPtr /\ chanMap'[k] = p /\ k = n
  BY <1>1, <1>2, <1>3 DEF Types
<1>6. ~orphaned' => ~orphaned /\ chanMap'[n] = p
  BY <1>1, <1>2, <1>3 DEF Types
<1>7. \A q \in Ptr : chanMap[Low(q)] = q => chanMap'[Low(q)] = q
  BY <1>1, <1>2, <1>5
<1>8. ~orphaned' => chanMap'[Low(p)] = p
  <2>1. CASE n = Low(p)
    BY <1>6, <2>1
  <2>2. CASE n # Low(p)
    <3>1. Alive(p)
      BY DEF Alive, Garbage
    <3> QED
      BY <1>1, <1>6, <1>7, <2>2, <3>1 DEF SpelledStays, n
  <2> QED
    BY <2>1, <2>2
<1>9. \A q \in Ptr \ {p} : mutex'[q] = mutex[q]
  BY <1>1, <1>3 DEF Types
<1>10. \A h \in Goroutine, q \in Ptr : Tends(h, q) => Tends(h, q)'
  BY <1>1, <1>4 DEF Tends
<1>11. NamesKept
  BY <1>1, <1>3, <1>4 DEF NamesKept
<1>12. NewEntries
  BY <1>1, <1>3, <1>5 DEF NewEntries, n
<1>13. EntriesKept(NoPtr)
  BY <1>7 DEF EntriesKept
<1>14. MembersKept(NoPtr)
  BY <1>1, <1>3, <1>8, <1>9 DEF MembersKept
<1>15. EmptiedKept(NoPtr)
  BY <1>1, <1>4 DEF EmptiedKept, IInv, TaskShape, Shape
<1>16. TendersKept
  <2> SUFFICES ASSUME NEW k \in Key, NEW q \in Ptr, chanMap'[k] = q, chan'[q].users = {}
               PROVE  chan[q].users = {} /\ \A h \in Goroutine : Tends(h, q) => Tends(h, q)'
    BY DEF TendersKept
  <2> QED
    BY <1>3, <1>10
<1> QED
  BY <1>1, <1>11, <1>12, <1>13, <1>14, <1>15, <1>16, SteadyStep

LEMMA PartUserMInv ==
    ASSUME MInv, NEW g \in Goroutine, PartUser(g)
    PROVE  MInv'
<1> DEFINE p == task[g].ptr
           left == chan[p].users \ task[g].uids
<1>1. /\ IInv /\ IInv' /\ Types /\ MembersFindable /\ task[g].pc = "part"
      /\ p \in Ptr /\ mutex[p] = NoOne /\ NoPtr \notin Ptr
  BY PartUserIInv, ChannelsAssumption DEF MInv, IInv, TaskShape, Shape, PartUser
<1>2. PICK uid \in User : task[g].uids = {uid}
  BY <1>1 DEF IInv, TaskShape, Shape
<1>3. /\ left \in SUBSET User /\ chan' = [chan EXCEPT ![p].users = left]
      /\ left # {} => chan[p].users # {}
  BY <1>1 DEF Types, Channel, PartUser
<1>4. \/ /\ chan[p].users # {} /\ left = {}
         /\ task' = [task EXCEPT ![g].pc = "partMap"] /\ mutex' = [mutex EXCEPT ![p] = g]
      \/ /\ left = {} => chan[p].users = {}
         /\ task' = [task EXCEPT ![g] = Idle] /\ mutex' = mutex
  BY <1>2 DEF PartUser
<1> HIDE DEF left
<1>5. /\ chan'[p].users = left
      /\ \A q \in Ptr : chan'[q].name = chan[q].name
      /\ \A q \in Ptr \ {p} : chan'[q] = chan[q]
  BY <1>1, <1>3, UsersStep
<1>6. UNCHANGED <<chanMap, chanMutex, orphaned>>
  BY DEF PartUser
<1>7. CASE /\ chan[p].users # {} /\ left = {}
           /\ task' = [task EXCEPT ![g].pc = "partMap"] /\ mutex' = [mutex EXCEPT ![p] = g]
  <2>1. /\ task'[g].pc = "partMap" /\ task'[g].ptr = p
        /\ \A h \in Goroutine \ {g} : task'[h] = task[h]
    BY <1>1, <1>7, PcStep DEF PC
  <2>2. \A q \in Ptr \ {p} : mutex'[q] = mutex[q]
    BY <1>1, <1>7 DEF Types
  <2>3. ~orphaned' => chanMap'[Low(p)] = p
    BY <1>1, <1>6, <1>7 DEF MembersFindable
  <2>4. \A h \in Goroutine, q \in Ptr : Tends(h, q) => Tends(h, q)'
    BY <1>1, <2>1 DEF Tends
  <2>5. NamesKept /\ NewEntries /\ EntriesKept(NoPtr)
    BY <1>1, <1>5, <1>6, <2>1 DEF NamesKept, NewEntries, EntriesKept
  <2>6. MembersKept(NoPtr)
    BY <1>1, <1>5, <1>7, <2>2 DEF MembersKept
  <2>7. EmptiedKept(NoPtr)
    <3> SUFFICES ASSUME ~orphaned', NEW h \in Goroutine, task'[h].pc = "partMap"
                 PROVE  \/ chanMap'[Low(task'[h].ptr)] = task'[h].ptr
                        \/ task'[h] = task[h] /\ task[h].ptr # NoPtr
      BY DEF EmptiedKept
    <3>1. CASE h = g
      BY <2>1, <2>3, <3>1
    <3>2. CASE h # g
      BY <1>1, <2>1, <3>2 DEF IInv, TaskShape, Shape
    <3> QED
      BY <3>1, <3>2
  <2>8. TendersKept
    <3> SUFFICES ASSUME NEW q \in Ptr, chan'[q].users = {}
                 PROVE  \/ \E h \in Goroutine : Tends(h, q)'
                        \/ chan[q].users = {} /\ \A h \in Goroutine : Tends(h, q) => Tends(h, q)'
      BY DEF TendersKept
    <3>1. CASE q = p
      <4>1. Tends(g, q)'
        BY <2>1, <3>1 DEF Tends
      <4> QED
        BY <4>1
    <3>2. CASE q # p
      BY <1>5, <2>4, <3>2
    <3> QED
      BY <3>1, <3>2
  <2> QED
    BY <1>1, <2>5, <2>6, <2>7, <2>8, SteadyStep
<1>8. CASE /\ left = {} => chan[p].users = {}
           /\ task' = [task EXCEPT ![g] = Idle] /\ mutex' = mutex
  <2>1. /\ task'[g].pc = "idle" /\ task'[g].ptr = NoPtr
        /\ \A h \in Goroutine \ {g} : task'[h] = task[h]
    BY <1>1, <1>8, DoneStep
  <2>2. \A h \in Goroutine, q \in Ptr : Tends(h, q) => Tends(h, q)'
    BY <1>1, <2>1 DEF Tends
  <2>3. NamesKept /\ NewEntries /\ EntriesKept(NoPtr)
    BY <1>1, <1>5, <1>6, <2>1 DEF NamesKept, NewEntries, EntriesKept
  <2>4. MembersKept(NoPtr)
    BY <1>1, <1>3, <1>5, <1>8 DEF MembersKept
  <2>5. EmptiedKept(NoPtr)
    BY <1>1, <2>1 DEF EmptiedKept, IInv, TaskShape, Shape
  <2>6. TendersKept
    BY <1>5, <1>8, <2>2 DEF TendersKept
  <2> QED
    BY <1>1, <2>3, <2>4, <2>5, <2>6, SteadyStep
<1> QED
  BY <1>4, <1>7, <1>8

LEMMA PartMapMInv ==
    ASSUME MInv, NEW g \in Goroutine, PartMap(g)
    PROVE  MInv'
<1> DEFINE p == task[g].ptr
           n == chan[p].name
<1>1. /\ IInv /\ IInv' /\ Types /\ LockHeld /\ EntryNamed /\ EmptiedFindable /\ NoPtr \notin Ptr
      /\ task[g].pc = "partMap" /\ p \in Ptr /\ chan[p].users = {} /\ mutex[p] = g
  BY PartMapIInv, ChannelsAssumption DEF MInv, IInv, LockHeld, TaskShape, Shape, PartMap
<1>2. n \in Key /\ \A q \in Ptr : Low(q) \in Key
  BY <1>1, LowKey
<1>3. /\ chanMap' = [chanMap EXCEPT ![n] = NoPtr] /\ chan' = chan /\ orphaned' = orphaned
      /\ mutex' = [mutex EXCEPT ![p] = NoOne] /\ task' = [task EXCEPT ![g] = Idle]
  BY DEF PartMap
<1>4. /\ task'[g].pc = "idle" /\ task'[g].ptr = NoPtr
      /\ \A h \in Goroutine \ {g} : task'[h] = task[h]
  BY <1>1, <1>3, DoneStep
<1>5. chanMap'[n] = NoPtr /\ \A k \in Key \ {n} : chanMap'[k] = chanMap[k]
  BY <1>1, <1>2, <1>3 DEF Types
<1>6. ~orphaned => chanMap[Low(p)] = p
  BY <1>1 DEF EmptiedFindable
<1>7. \A q \in Ptr \ {p} : mutex'[q] = mutex[q]
  BY <1>1, <1>3 DEF Types
<1>8. \A h \in Goroutine \ {g} : task[h].pc = "partMap" => task[h].ptr # p
  BY <1>1 DEF LockHeld
<1>9. \A k \in Key : (chanMap'[k] = p /\ n = Low(p)) => FALSE
  BY <1>1, <1>5 DEF EntryNamed
<1>10. \A h \in Goroutine, q \in Ptr \ {p} : Tends(h, q) => Tends(h, q)'
  BY <1>1, <1>4 DEF Tends
<1> HIDE DEF n
<1>11. EntriesKept(p)
  <2>1. \A q \in Ptr : (~orphaned /\ chanMap[Low(q)] = q /\ Low(q) = n)
                       => q = p /\ chan[q].name = Low(q)
    BY <1>1, <1>6, DropKeeps DEF n
  <2> QED
    BY <1>2, <1>3, <1>5, <2>1 DEF EntriesKept
<1>12. MembersKept(p)
  BY <1>1, <1>3, <1>7 DEF MembersKept
<1>13. EmptiedKept(p)
  BY <1>4, <1>8 DEF EmptiedKept
<1>14. TendersKept
  BY <1>3, <1>9, <1>10 DEF TendersKept, n
<1>15. NamesKept /\ NewEntries
  BY <1>1, <1>3, <1>4, <1>5 DEF NamesKept, NewEntries
<1> QED
  BY <1>1, <1>11, <1>12, <1>13, <1>14, <1>15, SteadyStep

LEMMA BeginSweepMInv ==
    ASSUME MInv, NEW g \in Goroutine, NEW pc \in {"partAll", "split"}, NEW uids \in SUBSET User,
           BeginSweep(g, pc, uids), pc = "partAll" => \E uid \in User : uids = {uid}
    PROVE  MInv'
<1>1. IInv /\ IInv' /\ Types /\ NoPtr \notin Ptr /\ task[g] = Idle
  BY BeginSweepIInv, ChannelsAssumption DEF MInv, IInv, BeginSweep
<1>2. /\ task'[g].pc = pc /\ task'[g].ptr = task[g].ptr
      /\ \A h \in Goroutine \ {g} : task'[h] = task[h]
  BY <1>1 DEF BeginSweep, Types, Task
<1>3. UNCHANGED <<chan, chanMap, mutex, orphaned>>
  BY DEF BeginSweep
<1>4. NamesKept /\ NewEntries /\ EntriesKept(NoPtr)
  BY <1>1, <1>2, <1>3 DEF NamesKept, NewEntries, EntriesKept
<1>5. MembersKept(NoPtr)
  BY <1>1, <1>3 DEF MembersKept
<1>6. EmptiedKept(NoPtr)
  BY <1>1, <1>2 DEF EmptiedKept, IInv, TaskShape, Shape
<1>7. \A h \in Goroutine, q \in Ptr : Tends(h, q) => Tends(h, q)'
  BY <1>1, <1>2 DEF Tends, Idle
<1>8. TendersKept
  BY <1>3, <1>7 DEF TendersKept
<1> QED
  BY <1>1, <1>4, <1>5, <1>6, <1>8, SteadyStep

LEMMA EndSweepMInv ==
    ASSUME MInv, NEW g \in Goroutine, EndSweep(g)
    PROVE  MInv'
<1>1. IInv /\ IInv' /\ Types /\ NoPtr \notin Ptr /\ task[g].pc \in {"partAll", "split"}
  BY EndSweepIInv, ChannelsAssumption DEF MInv, IInv, EndSweep
<1>2. /\ task'[g].pc = "idle" /\ task'[g].ptr = NoPtr
      /\ \A h \in Goroutine \ {g} : task'[h] = task[h]
  BY <1>1, DoneStep DEF EndSweep
<1>3. UNCHANGED <<chan, chanMap, mutex, orphaned>>
  BY DEF EndSweep
<1>4. NamesKept /\ NewEntries /\ EntriesKept(NoPtr)
  BY <1>1, <1>2, <1>3 DEF NamesKept, NewEntries, EntriesKept
<1>5. MembersKept(NoPtr)
  BY <1>1, <1>3 DEF MembersKept
<1>6. EmptiedKept(NoPtr)
  BY <1>1, <1>2 DEF EmptiedKept, IInv, TaskShape, Shape
<1>7. \A h \in Goroutine, q \in Ptr : Tends(h, q) => Tends(h, q)'
  BY <1>1, <1>2 DEF Tends
<1>8. TendersKept
  BY <1>3, <1>7 DEF TendersKept
<1> QED
  BY <1>1, <1>4, <1>5, <1>6, <1>8, SteadyStep

LEMMA SweepMInv ==
    ASSUME MInv, NEW g \in Goroutine, NEW k \in Key, chanMap[k] # NoPtr,
           PartAllStep(g, k) \/ ChanSplitStep(g, k)
    PROVE  MInv'
<1> DEFINE p == chanMap[k]
           n == chan[p].name
           left == chan[p].users \ task[g].uids
<1>1. IInv /\ Types /\ NoPtr \notin Ptr /\ LockHeld /\ EntryNamed /\ p \in Ptr
  BY ChannelsAssumption DEF MInv, IInv, Types
<1>2. PICK drop \in BOOLEAN :
         /\ Sweep(g, k, drop)
         /\ drop => chan[p].users \subseteq task[g].uids
         /\ ~drop => ~(chan[p].users \subseteq task[g].uids) \/ chan[p].users = {}
  BY <1>1, SweepSteps
<1>3. task[g].pc \in {"partAll", "split"}
  BY <1>1, SweepSteps
<1>4. /\ IInv' /\ task'[g].pc = task[g].pc /\ task'[g].ptr = task[g].ptr
      /\ \A h \in Goroutine \ {g} : task'[h] = task[h]
  BY <1>1, <1>2, <1>3, SweepIInv
<1>5. /\ mutex[p] = NoOne /\ mutex' = mutex /\ orphaned' = orphaned
      /\ left \in SUBSET User /\ chan' = [chan EXCEPT ![p].users = left]
      /\ chanMap' = IF drop THEN [chanMap EXCEPT ![n] = NoPtr] ELSE chanMap
  BY <1>1, <1>2 DEF Sweep, Types, Channel
<1>6. /\ left # {} => chan[p].users # {}
      /\ drop => left = {}
      /\ ~drop => (left = {} => chan[p].users = {})
  BY <1>2
<1>7. n \in Key /\ \A q \in Ptr : Low(q) \in Key
  BY <1>1, LowKey
<1>8. k \in {Low(p), n}
  BY <1>1 DEF EntryNamed
<1> HIDE DEF left, n
<1>9. /\ chan'[p].users = left
      /\ \A q \in Ptr : chan'[q].name = chan[q].name
      /\ \A q \in Ptr \ {p} : chan'[q] = chan[q]
  BY <1>1, <1>5, UsersStep
<1>10. /\ drop => chanMap'[n] = NoPtr
       /\ \A j \in Key \ {n} : chanMap'[j] = chanMap[j]
       /\ ~drop => chanMap' = chanMap
  BY <1>1, <1>5, <1>7 DEF Types
<1>11. EntriesKept(p)
  <2>1. n = Low(p) => chanMap[Low(p)] = p
    BY <1>8
  <2>2. \A q \in Ptr : (chanMap[Low(q)] = q /\ Low(q) = n) => q = p /\ chan[q].name = Low(q)
    BY <1>1, <2>1, DropKeeps DEF n
  <2> QED
    BY <1>7, <1>10, <2>2 DEF EntriesKept
<1>12. MembersKept(p)
  <2> SUFFICES ASSUME ~orphaned', NEW q \in Ptr, chan'[q].users # {}, mutex'[q] = NoOne
               PROVE  \/ chanMap'[Low(q)] = q
                      \/ chan[q].users # {} /\ mutex[q] = NoOne /\ q # p
    BY DEF MembersKept
  <2>1. CASE q = p
    <3>1. ~drop /\ chan[p].users # {}
      BY <1>6, <1>9, <2>1
    <3>2. chanMap[Low(p)] = p
      BY <1>1, <1>5, <3>1 DEF MInv, MembersFindable
    <3> QED
      BY <1>10, <2>1, <3>1, <3>2
  <2>2. CASE q # p
    BY <1>5, <1>9, <2>2
  <2> QED
    BY <2>1, <2>2
<1>13. EmptiedKept(p)
  <2>1. \A h \in Goroutine : task[h].pc = "partMap" => task[h].ptr # p
    BY <1>1, <1>5, ChannelsAssumption DEF LockHeld
  <2> QED
    BY <1>3, <1>4, <2>1 DEF EmptiedKept
<1>14. \A h \in Goroutine, q \in Ptr : Tends(h, q) => Tends(h, q)'
  BY <1>3, <1>4 DEF Tends
<1>15. TendersKept
  <2> SUFFICES ASSUME NEW j \in Key, NEW q \in Ptr, chanMap'[j] = q, chan'[q].users = {},
                      chan[q].name = Low(q)
               PROVE  chan[q].users = {} /\ \A h \in Goroutine : Tends(h, q) => Tends(h, q)'
    BY DEF TendersKept
  <2>1. CASE q = p
    <3>1. CASE drop
      <4>1. j # n /\ chanMap[j] = p
        BY <1>1, <1>10, <2>1, <3>1
      <4> QED
        BY <1>1, <2>1, <4>1 DEF EntryNamed, n
    <3>2. CASE ~drop
      BY <1>6, <1>9, <1>14, <2>1, <3>2
    <3> QED
      BY <3>1, <3>2
  <2>2. CASE q # p
    BY <1>9, <1>14, <2>2
  <2> QED
    BY <2>1, <2>2
<1>16. NamesKept /\ NewEntries
  <2>1. NewEntries
    BY <1>10 DEF NewEntries
  <2> QED
    BY <1>4, <1>5, <1>9, <2>1 DEF NamesKept
<1> QED
  BY <1>1, <1>4, <1>11, <1>12, <1>13, <1>15, <1>16, SteadyStep

-----------------------------------------------------------------------------

LEMMA NextMInv ==
    ASSUME MInv, [Next]_vars
    PROVE  MInv'
<1>1. Types /\ IInv
  BY DEF MInv, IInv
<1>2. ASSUME NEW g \in Goroutine, NEW name \in Name, NEW uids \in (SUBSET User) \ {{}},
             BeginJoin(g, name, uids)
      PROVE  MInv'
  <2>1. PICK p \in Ptr :
          /\ GetChannel(name, TRUE, p)
          /\ task' = [task EXCEPT ![g].pc = "join", ![g].ptr = p, ![g].uids = uids]
    BY <1>2 DEF BeginJoin
  <2>2. task[g] = Idle /\ UNCHANGED <<mutex, chanMutex, orphaned, late>>
    BY <1>2 DEF BeginJoin
  <2>3. IInv'
    BY <1>1, <2>1, <2>2, BeginIInv
  <2> QED
    BY <2>1, <2>2, <2>3, BeginMInv
<1>3. ASSUME NEW g \in Goroutine, NEW name \in Name, NEW uid \in User, BeginPart(g, name, uid)
      PROVE  MInv'
  <2>1. PICK p \in Ptr :
          /\ GetChannel(name, FALSE, p)
          /\ task' = [task EXCEPT ![g].pc = "part", ![g].ptr = p, ![g].uids = {uid}]
    BY <1>3 DEF BeginPart
  <2>2. task[g] = Idle /\ UNCHANGED <<mutex, chanMutex, orphaned, late>>
    BY <1>3 DEF BeginPart
  <2>3. IInv'
    BY <1>1, <2>1, <2>2, BeginIInv, ZenonT(40)
  <2>4. {uid} \in SUBSET User
    OBVIOUS
  <2> QED
    BY <2>1, <2>2, <2>3, <2>4, BeginMInv
<1>4. ASSUME NEW g \in Goroutine, NEW uid \in User, BeginSweep(g, "partAll", {uid})
      PROVE  MInv'
  BY <1>4, BeginSweepMInv
<1>5. ASSUME NEW g \in Goroutine, NEW uids \in (SUBSET User) \ {{}}, BeginSweep(g, "split", uids)
      PROVE  MInv'
  BY <1>5, BeginSweepMInv
<1>6. CASE UNCHANGED vars
  BY <1>6 DEF vars, MInv, IInv, Types, LockHeld, TaskShape, Shape, EntryNamed, EmptyTended, Tends,
              SpelledStays, EmptiedFindable, MembersFindable, Alive, Garbage, Low
<1> QED
  BY <1>2, <1>3, <1>4, <1>5, <1>6, JoinUsersMInv, JoinMapMInv, PartUserMInv, PartMapMInv,
     SweepMInv, EndSweepMInv DEF Next

LEMMA InitMInv == Init => MInv
<1> SUFFICES ASSUME Init PROVE MInv
  OBVIOUS
<1>1. IInv
  BY InitIInv
<1>2. /\ \A k \in Key : chanMap[k] = NoPtr
      /\ \A p \in Ptr : chan[p].users = {}
      /\ \A g \in Goroutine : task[g].pc = "idle" /\ task[g].ptr = NoPtr
  BY DEF Init, Idle
<1>3. EntryNamed /\ EmptyTended
  BY <1>2 DEF EntryNamed, EmptyTended
<1>4. \A p \in Ptr : Garbage(p)
  BY <1>2, ChannelsAssumption DEF Garbage
<1> QED
  BY <1>1, <1>2, <1>3, <1>4 DEF MInv, SpelledStays, EmptiedFindable, MembersFindable, Alive

\* The inductive invariant holds of every behaviour.
LEMMA Inductive == Spec => []MInv
BY InitMInv, NextMInv, PTL DEF Spec

\* The state keeps its shape: in particular every key of the map, folded or as
\* spelled, is one that names lead to, and a lock is held between the two steps
\* of Join or Part on its channel and at no other time.
THEOREM ChannelsTypeCorrect == Spec => []TypeOK
<1>1. MInv => TypeOK
  BY DEF MInv, IInv, TypeOK
<1> QED
  BY <1>1, Inductive, PTL

\* Whatever the order of GetChannel, Join, Part, PartAll and ChanSplit, whoever
\* is on a channel is on the one GetChannel finds, unless Join has run into
\* another channel under its name (channel.go:115-123).
THEOREM MembersFindableCorrect == Spec => []MembersFindable
<1>1. MInv => MembersFindable
  BY DEF MInv
<1> QED
  BY <1>1, Inductive, PTL

\* Only a channel made under a name that is not in lower case stays in the map
\* when it is empty and no one is about to use it (channel.go:155-157).
THEOREM EmptyOnlyFoldedCorrect == Spec => []EmptyOnlyFolded
<1>1. ASSUME MInv PROVE EmptyOnlyFolded
  <2> SUFFICES ASSUME NEW k \in Key, chanMap[k] # NoPtr, chan[chanMap[k]].users = {},
                      \A g \in Goroutine : task[g].ptr # chanMap[k]
               PROVE  chan[chanMap[k]].name # Low(chanMap[k])
    BY DEF EmptyOnlyFolded
  <2> QED
    BY <1>1 DEF MInv, EmptyTended, Tends
<1> QED
  BY <1>1, Inductive, PTL

-----------------------------------------------------------------------------
(***************************************************************************)
(* Calls on channels as their callers see them: what a sweep leaves        *)
(* behind, and that Channels implements ChannelTable.                      *)
(***************************************************************************)

(* What each step does to the channels and the tasks. *)

OthersKept(g) == \A h \in Goroutine \ {g} : task'[h] = task[h]
OnlyChannel(p) == \A q \in Ptr : chan'[q].name = chan[q].name /\ (q # p => chan'[q] = chan[q])

LEMMA IdleEffect ==
    ASSUME Types, NEW g \in Goroutine, task' = [task EXCEPT ![g] = Idle]
    PROVE  task'[g] = Idle /\ OthersKept(g)
BY DEF Types, OthersKept

LEMMA PcEffect ==
    ASSUME Types, NEW g \in Goroutine, NEW pc \in PC, task' = [task EXCEPT ![g].pc = pc]
    PROVE  /\ task'[g].pc = pc /\ task'[g].ptr = task[g].ptr
           /\ task'[g].uids = task[g].uids /\ task'[g].todo = task[g].todo
           /\ OthersKept(g)
BY DEF Types, Task, OthersKept

LEMMA UsersEffect ==
    ASSUME Types, NEW p \in Ptr, NEW u \in SUBSET User, chan' = [chan EXCEPT ![p].users = u]
    PROVE  chan'[p].users = u /\ OnlyChannel(p)
BY UsersStep DEF OnlyChannel

\* A goroutine gets a channel for a Join or a Part.
BeginCall(g, name, p, pc, uids) ==
    /\ name \in Name /\ p \in Ptr /\ pc \in {"join", "part"} /\ uids \in SUBSET User
    /\ task[g] = Idle /\ \E create \in BOOLEAN : GetChannel(name, create, p)
    /\ task' = [task EXCEPT ![g].pc = pc, ![g].ptr = p, ![g].uids = uids]
    /\ UNCHANGED <<mutex, chanMutex, orphaned, late>>

\* The channel was there, or is a new one.
Found(name, p) == chan' = chan /\ chanMap' = chanMap /\ chanMap[ToLower(name)] = p
Made(name, p) ==
    /\ chanMap[ToLower(name)] = NoPtr /\ Garbage(p)
    /\ chan'[p] = [name |-> name, users |-> {}]
    /\ \A q \in Ptr \ {p} : chan'[q] = chan[q]
    /\ chanMap'[ToLower(name)] = p
    /\ \A k \in Key \ {ToLower(name)} : chanMap'[k] = chanMap[k]

LEMMA BeginTask ==
    ASSUME IInv, NEW g \in Goroutine, NEW name, NEW p, NEW pc, NEW uids,
           BeginCall(g, name, p, pc, uids)
    PROVE  /\ OthersKept(g) /\ task[g] = Idle
           /\ task'[g] = [pc |-> pc, ptr |-> p, uids |-> uids, todo |-> {}]
<1> USE DEF BeginCall
<1>1. Types
  BY DEF IInv
<1>2. task'[g] = [task[g] EXCEPT !.pc = pc, !.ptr = p, !.uids = uids]
  BY <1>1 DEF Types
<1>3. task'[g] = [Idle EXCEPT !.pc = pc, !.ptr = p, !.uids = uids]
  BY <1>2
<1>4. task'[g] = [pc |-> pc, ptr |-> p, uids |-> uids, todo |-> {}]
  BY <1>3 DEF Idle
<1>5. OthersKept(g)
  BY <1>1 DEF Types, OthersKept
<1> QED
  BY <1>4, <1>5

LEMMA BeginChannel ==
    ASSUME IInv, NEW g \in Goroutine, NEW name, NEW p, NEW pc, NEW uids,
           BeginCall(g, name, p, pc, uids)
    PROVE  Found(name, p) \/ Made(name, p)
<1> USE DEF BeginCall
<1>1. Types /\ ToLower(name) \in Key
  BY Keys DEF IInv
<1>2. CASE chanMap[ToLower(name)] # NoPtr
  BY <1>2 DEF GetChannel, Found
<1>3. CASE chanMap[ToLower(name)] = NoPtr
  <2>1. /\ Garbage(p)
        /\ chan' = [chan EXCEPT ![p] = [name |-> name, users |-> {}]]
        /\ chanMap' = [chanMap EXCEPT ![ToLower(name)] = p]
    BY <1>3 DEF GetChannel
  <2>2. /\ chan'[p] = [name |-> name, users |-> {}]
        /\ \A q \in Ptr \ {p} : chan'[q] = chan[q]
    BY <1>1, <2>1 DEF Types
  <2>3. /\ chanMap'[ToLower(name)] = p
        /\ \A k \in Key \ {ToLower(name)} : chanMap'[k] = chanMap[k]
    BY <1>1, <2>1 DEF Types
  <2> QED
    BY <1>3, <2>1, <2>2, <2>3 DEF Made
<1> QED
  BY <1>2, <1>3

LEMMA JoinUsersEffect ==
    ASSUME IInv, NEW g \in Goroutine, JoinUsers(g)
    PROVE  LET p == task[g].ptr
               users == chan[p].users
               uids == task[g].uids
           IN
           /\ task[g].pc = "join" /\ p \in Ptr /\ mutex[p] = NoOne /\ uids # {}
           /\ UNCHANGED <<chanMap, chanMutex, orphaned>>
           /\ late' = IF chanMutex = NoOne THEN late ELSE late \cup ({p} \X (chan'[p].users \ users))
           /\ OthersKept(g) /\ OnlyChannel(p)
           /\ \/ /\ uids \cap users = {} /\ chan'[p].users = users \cup uids
                 /\ task'[g].pc = "joinMap" /\ task'[g].ptr = p
                 /\ task'[g].uids = uids /\ task'[g].todo = task[g].todo
              \/ /\ uids \cap users # {} /\ task'[g] = Idle
                 /\ \E entered \in SUBSET uids : chan'[p].users = users \cup entered
<1> DEFINE p == task[g].ptr
           users == chan[p].users
           uids == task[g].uids
<1>1. /\ Types /\ task[g].pc = "join" /\ p \in Ptr /\ mutex[p] = NoOne /\ uids # {}
      /\ UNCHANGED <<chanMap, chanMutex, orphaned>>
      /\ late' = IF chanMutex = NoOne THEN late ELSE late \cup ({p} \X (chan'[p].users \ users))
  BY DEF IInv, TaskShape, Shape, JoinUsers
<1>2. uids \subseteq User /\ users \subseteq User
  BY <1>1 DEF Types, Task, Channel
<1>3. CASE uids \cap users = {}
  <2>1. /\ chan' = [chan EXCEPT ![p].users = users \cup uids]
        /\ task' = [task EXCEPT ![g].pc = "joinMap"]
    BY <1>3 DEF JoinUsers
  <2>2. users \cup uids \in SUBSET User
    BY <1>2
  <2>3. chan'[p].users = users \cup uids /\ OnlyChannel(p)
    BY <1>1, <2>1, <2>2, UsersEffect, ZenonT(40)
  <2>4. /\ task'[g].pc = "joinMap" /\ task'[g].ptr = p /\ OthersKept(g)
        /\ task'[g].uids = uids /\ task'[g].todo = task[g].todo
    BY <1>1, <2>1, PcEffect DEF PC
  <2> QED
    BY <1>1, <1>3, <2>3, <2>4
<1>4. CASE uids \cap users # {}
  <2>1. PICK entered \in SUBSET (uids \ users) :
          chan' = [chan EXCEPT ![p].users = users \cup entered]
    BY <1>4 DEF JoinUsers
  <2> DEFINE u == users \cup entered
  <2>2. u \in SUBSET User /\ entered \in SUBSET uids /\ chan' = [chan EXCEPT ![p].users = u]
    BY <1>2, <2>1
  <2> HIDE DEF u
  <2>3. chan'[p].users = u /\ OnlyChannel(p)
    BY <1>1, <2>2, UsersEffect
  <2>5. chan'[p].users = users \cup entered
    BY <2>3 DEF u
  <2>4. task'[g] = Idle /\ OthersKept(g)
    BY <1>1, <1>4, IdleEffect DEF JoinUsers
  <2> QED
    BY <1>1, <1>4, <2>2, <2>3, <2>4, <2>5
<1> QED
  BY <1>3, <1>4

LEMMA JoinMapEffect ==
    ASSUME IInv, NEW g \in Goroutine, JoinMap(g)
    PROVE  LET p == task[g].ptr
               n == chan[p].name
           IN
           /\ task[g].pc = "joinMap" /\ p \in Ptr /\ mutex[p] = g /\ chanMutex = NoOne
           /\ chan[p].users # {}
           /\ UNCHANGED <<chan, chanMutex, late>>
           /\ orphaned' = (orphaned \/ chanMap[n] \notin {NoPtr, p})
           /\ task'[g] = Idle /\ OthersKept(g)
           /\ \A k \in Key \ {n} : chanMap'[k] = chanMap[k]
           /\ chanMap'[n] = IF chanMap[n] = NoPtr THEN p ELSE chanMap[n]
<1> DEFINE p == task[g].ptr
           n == chan[p].name
<1>1. Types /\ task[g].pc = "joinMap" /\ p \in Ptr /\ mutex[p] = g /\ chan[p].users # {}
  BY DEF IInv, LockHeld, TaskShape, Shape, JoinMap
<1>2. task'[g] = Idle /\ OthersKept(g)
  BY <1>1, IdleEffect DEF JoinMap
<1>3. n \in Key
  BY <1>1, LowKey
<1>4. chanMap' = IF chanMap[n] = NoPtr THEN [chanMap EXCEPT ![n] = p] ELSE chanMap
  BY DEF JoinMap
<1> HIDE DEF n
<1>5. /\ \A k \in Key \ {n} : chanMap'[k] = chanMap[k]
      /\ chanMap'[n] = IF chanMap[n] = NoPtr THEN p ELSE chanMap[n]
  BY <1>1, <1>3, <1>4 DEF Types
<1> QED
  BY <1>1, <1>2, <1>5 DEF JoinMap, n

LEMMA PartUserEffect ==
    ASSUME IInv, NEW g \in Goroutine, PartUser(g)
    PROVE  LET p == task[g].ptr
               users == chan[p].users
               uids == task[g].uids
           IN
           /\ task[g].pc = "part" /\ p \in Ptr /\ mutex[p] = NoOne
           /\ \E uid \in User : uids = {uid}
           /\ UNCHANGED <<chanMap, chanMutex, orphaned, late>>
           /\ OthersKept(g) /\ OnlyChannel(p) /\ chan'[p].users = users \ uids
           /\ \/ task'[g] = Idle
              \/ /\ uids \subseteq users
                 /\ task'[g].pc = "partMap" /\ task'[g].ptr = p
                 /\ task'[g].uids = uids /\ task'[g].todo = task[g].todo
<1> DEFINE p == task[g].ptr
           left == chan[p].users \ task[g].uids
<1>1. /\ Types /\ task[g].pc = "part" /\ p \in Ptr /\ mutex[p] = NoOne
      /\ \E uid \in User : task[g].uids = {uid}
      /\ UNCHANGED <<chanMap, chanMutex, orphaned, late>>
  BY DEF IInv, TaskShape, Shape, PartUser
<1>2. left \in SUBSET User /\ chan' = [chan EXCEPT ![p].users = left]
  BY <1>1 DEF Types, Channel, PartUser
<1>3. chan'[p].users = left /\ OnlyChannel(p)
  BY <1>1, <1>2, UsersEffect
<1>4. CASE task' = [task EXCEPT ![g].pc = "partMap"] /\ task[g].uids \subseteq chan[p].users
  <2>1. /\ task'[g].pc = "partMap" /\ task'[g].ptr = p /\ OthersKept(g)
        /\ task'[g].uids = task[g].uids /\ task'[g].todo = task[g].todo
    BY <1>1, <1>4, PcEffect DEF PC
  <2> QED
    BY <1>1, <1>3, <1>4, <2>1
<1>5. CASE task' = [task EXCEPT ![g] = Idle]
  BY <1>1, <1>3, <1>5, IdleEffect
<1> QED
  BY <1>4, <1>5 DEF PartUser

LEMMA PartMapEffect ==
    ASSUME IInv, NEW g \in Goroutine, PartMap(g)
    PROVE  LET p == task[g].ptr
               n == chan[p].name
           IN
           /\ task[g].pc = "partMap" /\ p \in Ptr /\ mutex[p] = g /\ chanMutex = NoOne
           /\ chan[p].users = {}
           /\ UNCHANGED <<chan, chanMutex, orphaned, late>>
           /\ task'[g] = Idle /\ OthersKept(g)
           /\ chanMap'[n] = NoPtr /\ \A k \in Key \ {n} : chanMap'[k] = chanMap[k]
<1> DEFINE p == task[g].ptr
           n == chan[p].name
<1>1. Types /\ task[g].pc = "partMap" /\ p \in Ptr /\ mutex[p] = g /\ chan[p].users = {}
  BY DEF IInv, LockHeld, TaskShape, Shape, PartMap
<1>2. task'[g] = Idle /\ OthersKept(g)
  BY <1>1, IdleEffect DEF PartMap
<1>3. n \in Key
  BY <1>1, LowKey
<1>4. chanMap' = [chanMap EXCEPT ![n] = NoPtr]
  BY DEF PartMap
<1> HIDE DEF n
<1>5. chanMap'[n] = NoPtr /\ \A k \in Key \ {n} : chanMap'[k] = chanMap[k]
  BY <1>1, <1>3, <1>4 DEF Types
<1> QED
  BY <1>1, <1>2, <1>5 DEF PartMap, n

LEMMA BeginSweepEffect ==
    ASSUME IInv, NEW g \in Goroutine, NEW pc \in {"partAll", "split"}, NEW uids \in SUBSET User,
           BeginSweep(g, pc, uids)
    PROVE  /\ task[g] = Idle /\ chanMutex = NoOne /\ chanMutex' = g
           /\ UNCHANGED <<chan, chanMap, mutex, orphaned, late>>
           /\ task'[g] = [pc |-> pc, ptr |-> NoPtr, uids |-> uids,
                          todo |-> {k \in Key : chanMap[k] # NoPtr}]
           /\ OthersKept(g)
<1> DEFINE keys == {k \in Key : chanMap[k] # NoPtr}
<1>1. Types /\ task[g] = Idle
  BY DEF IInv, BeginSweep
<1>2. task' = [task EXCEPT ![g].pc = pc, ![g].uids = uids, ![g].todo = keys]
  BY DEF BeginSweep
<1> HIDE DEF keys
<1>3. task'[g] = [task[g] EXCEPT !.pc = pc, !.uids = uids, !.todo = keys]
  BY <1>1, <1>2 DEF Types
<1>4. task'[g] = [Idle EXCEPT !.pc = pc, !.uids = uids, !.todo = keys]
  BY <1>1, <1>3
<1>5. task'[g] = [pc |-> pc, ptr |-> NoPtr, uids |-> uids, todo |-> keys]
  BY <1>4 DEF Idle
<1>6. OthersKept(g)
  BY <1>1, <1>2 DEF Types, OthersKept
<1> QED
  BY <1>5, <1>6 DEF BeginSweep, keys

LEMMA SweepEffect ==
    ASSUME IInv, NEW g \in Goroutine, NEW k \in Key, chanMap[k] # NoPtr,
           PartAllStep(g, k) \/ ChanSplitStep(g, k)
    PROVE  LET p == chanMap[k]
               n == chan[p].name
           IN
           /\ task[g].pc \in {"partAll", "split"} /\ k \in task[g].todo
           /\ p \in Ptr /\ mutex[p] = NoOne
           /\ UNCHANGED <<mutex, chanMutex, orphaned, late>>
           /\ OthersKept(g) /\ OnlyChannel(p)
           /\ chan'[p].users = chan[p].users \ task[g].uids
           /\ task'[g].pc = task[g].pc /\ task'[g].ptr = task[g].ptr
           /\ task'[g].uids = task[g].uids /\ task'[g].todo = task[g].todo \ {k}
           /\ \A j \in Key \ {n} : chanMap'[j] = chanMap[j]
           /\ \/ chanMap'[n] = chanMap[n]
              \/ chanMap'[n] = NoPtr /\ chan'[p].users = {}
<1> DEFINE p == chanMap[k]
           n == chan[p].name
           left == chan[p].users \ task[g].uids
<1>1. Types /\ p \in Ptr /\ task[g].pc \in {"partAll", "split"}
  BY SweepSteps DEF IInv, Types
<1>2. PICK drop \in BOOLEAN : Sweep(g, k, drop) /\ (drop => chan[p].users \subseteq task[g].uids)
  BY SweepSteps
<1>3. /\ k \in task[g].todo /\ mutex[p] = NoOne /\ UNCHANGED <<mutex, chanMutex, orphaned, late>>
      /\ left \in SUBSET User /\ chan' = [chan EXCEPT ![p].users = left]
      /\ chanMap' = IF drop THEN [chanMap EXCEPT ![n] = NoPtr] ELSE chanMap
  BY <1>1, <1>2 DEF Sweep, Types, Channel
<1>4. chan'[p].users = left /\ OnlyChannel(p)
  BY <1>1, <1>3, UsersEffect, ZenonT(40)
<1>5. /\ task'[g].pc = task[g].pc /\ task'[g].ptr = task[g].ptr /\ OthersKept(g)
      /\ task'[g].uids = task[g].uids /\ task'[g].todo = task[g].todo \ {k}
  <2>1. task' = [task EXCEPT ![g].todo = task[g].todo \ {k}]
    BY <1>2 DEF Sweep, Visited
  <2> QED
    BY <1>1, <2>1 DEF Types, Task, OthersKept
<1>6. n \in Key
  BY <1>1, LowKey
<1> HIDE DEF n
<1>7. \A j \in Key \ {n} : chanMap'[j] = chanMap[j]
  BY <1>1, <1>3, <1>6 DEF Types
<1>8. chanMap'[n] = chanMap[n] \/ (chanMap'[n] = NoPtr /\ left = {})
  <2>1. CASE drop
    <3>1. chanMap'[n] = NoPtr
      BY <1>1, <1>3, <1>6, <2>1 DEF Types
    <3>2. left = {}
      BY <1>2, <2>1
    <3> QED
      BY <3>1, <3>2
  <2>2. CASE ~drop
    BY <1>3, <2>2
  <2> QED
    BY <2>1, <2>2
<1> QED
  BY <1>1, <1>3, <1>4, <1>5, <1>7, <1>8 DEF n

LEMMA EndSweepEffect ==
    ASSUME IInv, NEW g \in Goroutine, EndSweep(g)
    PROVE  /\ task[g].pc \in {"partAll", "split"}
           /\ \A k \in task[g].todo : chanMap[k] = NoPtr
           /\ chanMutex' = NoOne /\ UNCHANGED <<chan, chanMap, mutex, orphaned>>
           /\ task'[g] = Idle /\ OthersKept(g)
BY IdleEffect DEF IInv, EndSweep

-----------------------------------------------------------------------------
(* Sweeps. *)

Sweeping(g) == task[g].pc \in {"partAll", "split"}

\* Who sweeps holds chanMutex.
SweepHolds == \A g \in Goroutine : Sweeping(g) => chanMutex = g

Waiting(p) == \E h \in Goroutine : task[h].pc = "joinMap" /\ task[h].ptr = p

Ahead(g, p, uid) ==
    \/ <<p, uid>> \in late
    \/ Waiting(p)
    \/ chanMap[Low(p)] = p /\ Low(p) \in task[g].todo

\* One who leaves and is on a channel yet was entered meanwhile, or the sweep
\* has still to visit the channel, under its folded name.
SweepAhead ==
    ~orphaned => \A g \in Goroutine, p \in Ptr, uid \in User :
        (Sweeping(g) /\ uid \in task[g].uids /\ uid \in chan[p].users) => Ahead(g, p, uid)

\* A channel that a Join has to enter in the map again has no other users.
JoinAlone ==
    ~orphaned => \A g \in Goroutine : task[g].pc = "joinMap" =>
        \/ chanMap[Low(task[g].ptr)] = task[g].ptr
        \/ chan[task[g].ptr].users = task[g].uids

CInv == MInv /\ SweepHolds /\ SweepAhead /\ JoinAlone

\* The tasks of the steps that wait for chanMutex: no one sweeps.
LEMMA FreeStep ==
    ASSUME SweepHolds, NEW g \in Goroutine, OthersKept(g), chanMutex \in {NoOne, g},
           task'[g].pc \notin {"partAll", "split"}
    PROVE  SweepHolds' /\ SweepAhead'
<1>1. \A h \in Goroutine : ~Sweeping(h)'
  BY ChannelsAssumption DEF SweepHolds, Sweeping, OthersKept
<1> QED
  BY <1>1 DEF SweepHolds, SweepAhead

\* Whoever waits for the map has the lock of a channel.
LEMMA WaitingLocks ==
    ASSUME IInv, NEW h \in Goroutine, task[h].pc = "joinMap"
    PROVE  task[h].ptr \in Ptr /\ mutex[task[h].ptr] = h /\ mutex[task[h].ptr] # NoOne
BY ChannelsAssumption DEF IInv, LockHeld, TaskShape, Shape

\* The removal of the entry under the name of p is no loss for another channel.
LEMMA DropOther ==
    ASSUME Types, NEW p \in Ptr, chan[p].name = Low(p) => chanMap[Low(p)] = p,
           \A k \in Key \ {chan[p].name} : chanMap'[k] = chanMap[k],
           NEW q \in Ptr \ {p}, chanMap[Low(q)] = q
    PROVE  chanMap'[Low(q)] = q
<1>1. Low(q) # chan[p].name
  BY DropKeeps
<1> QED
  BY <1>1, LowKey

\* JoinAlone where the users of the channels Joins wait for stay as they are.
LEMMA AloneKept ==
    ASSUME JoinAlone, orphaned => orphaned', NEW g \in Goroutine, OthersKept(g),
           task'[g].pc # "joinMap",
           ~orphaned' => \A h \in Goroutine \ {g} : task[h].pc = "joinMap" =>
               /\ chan'[task[h].ptr] = chan[task[h].ptr]
               /\ chanMap[Low(task[h].ptr)] = task[h].ptr =>
                    chanMap'[Low(task[h].ptr)] = task[h].ptr
    PROVE  JoinAlone'
<1> SUFFICES ASSUME ~orphaned', NEW h \in Goroutine, task'[h].pc = "joinMap"
             PROVE  \/ chanMap'[ToLower(chan'[task'[h].ptr].name)] = task'[h].ptr
                    \/ chan'[task'[h].ptr].users = task'[h].uids
  BY DEF JoinAlone, Low
<1>1. h # g /\ task'[h] = task[h]
  BY DEF OthersKept
<1>2. /\ chan'[task[h].ptr] = chan[task[h].ptr]
      /\ chanMap[Low(task[h].ptr)] = task[h].ptr => chanMap'[Low(task[h].ptr)] = task[h].ptr
  BY <1>1
<1>3. ToLower(chan'[task'[h].ptr].name) = Low(task[h].ptr)
  BY <1>1, <1>2 DEF Low
<1> QED
  BY <1>1, <1>2, <1>3 DEF JoinAlone

LEMMA BeginCInv ==
    ASSUME CInv, MInv', NEW g \in Goroutine, NEW name, NEW p, NEW pc, NEW uids,
           BeginCall(g, name, p, pc, uids)
    PROVE  CInv'
<1>1. IInv /\ Types /\ NoPtr \notin Ptr
  BY ChannelsAssumption DEF CInv, MInv, IInv
<1>2. /\ pc \in {"join", "part"} /\ chanMutex = NoOne /\ orphaned' = orphaned
  BY DEF BeginCall, GetChannel
<1>3. OthersKept(g) /\ task'[g] = [pc |-> pc, ptr |-> p, uids |-> uids, todo |-> {}]
  BY <1>1, BeginTask
<1>4. task'[g].pc \notin {"partAll", "split", "joinMap"}
  BY <1>2, <1>3
<1>5. SweepHolds' /\ SweepAhead'
  BY <1>2, <1>3, <1>4, FreeStep DEF CInv
<1>6. ASSUME NEW h \in Goroutine \ {g}, task[h].pc = "joinMap"
      PROVE  /\ chan'[task[h].ptr] = chan[task[h].ptr]
             /\ chanMap[Low(task[h].ptr)] = task[h].ptr => chanMap'[Low(task[h].ptr)] = task[h].ptr
  <2>1. task[h].ptr \in Ptr /\ Low(task[h].ptr) \in Key
    BY <1>1, <1>6, WaitingLocks, LowKey
  <2>2. CASE Found(name, p)
    BY <2>2 DEF Found
  <2>3. CASE Made(name, p)
    BY <1>1, <2>1, <2>3 DEF Made, Garbage
  <2> QED
    BY <1>1, <2>2, <2>3, BeginChannel
<1>7. JoinAlone'
  BY <1>2, <1>3, <1>4, <1>6, AloneKept DEF CInv
<1> QED
  BY <1>5, <1>7 DEF CInv

\* Whoever sweeps goes on, and finds what it has yet to visit, when users are
\* entered in p under the eyes of the history, or leave it.
LEMMA UsersCInv ==
    ASSUME CInv, MInv', NEW g \in Goroutine, NEW p \in Ptr, mutex[p] = NoOne,
           task[g].pc \in {"join", "part"},
           task'[g].pc \notin {"partAll", "split"},
           UNCHANGED <<chanMap, chanMutex, orphaned>>, OthersKept(g), OnlyChannel(p),
           late \subseteq late',
           chanMutex # NoOne => \A uid \in chan'[p].users \ chan[p].users : <<p, uid>> \in late'
    PROVE  SweepHolds' /\ SweepAhead'
<1>1. SweepHolds'
  BY DEF CInv, SweepHolds, Sweeping, OthersKept
<1>2. ASSUME ~orphaned, NEW h \in Goroutine, NEW q \in Ptr, NEW uid \in User, Sweeping(h)',
             uid \in task'[h].uids, uid \in chan'[q].users
      PROVE  Ahead(h, q, uid)'
  <2>1. h # g /\ task'[h] = task[h] /\ Sweeping(h) /\ chanMutex # NoOne
    BY <1>2, ChannelsAssumption DEF CInv, SweepHolds, Sweeping, OthersKept
  <2>2. CASE uid \in chan[q].users
    <3>1. Ahead(h, q, uid)
      BY <1>2, <2>1, <2>2 DEF CInv, SweepAhead
    <3>2. Waiting(q) => Waiting(q)'
      BY DEF Waiting, OthersKept
    <3>3. Low(q)' = Low(q)
      BY DEF OnlyChannel, Low
    <3> QED
      BY <2>1, <3>1, <3>2, <3>3 DEF Ahead
  <2>3. CASE uid \notin chan[q].users
    <3>1. q = p
      BY <1>2, <2>3 DEF OnlyChannel
    <3> QED
      BY <1>2, <2>1, <2>3, <3>1 DEF Ahead
  <2> QED
    BY <2>2, <2>3
<1>3. SweepAhead'
  BY <1>2 DEF SweepAhead
<1> QED
  BY <1>1, <1>3

LEMMA JoinUsersCInv ==
    ASSUME CInv, MInv', NEW g \in Goroutine, JoinUsers(g)
    PROVE  CInv'
<1> DEFINE p == task[g].ptr
<1>1. IInv /\ Types
  BY DEF CInv, MInv, IInv
<1>2. /\ task[g].pc = "join" /\ p \in Ptr /\ mutex[p] = NoOne
      /\ UNCHANGED <<chanMap, chanMutex, orphaned>>
      /\ late' = IF chanMutex = NoOne THEN late
                 ELSE late \cup ({p} \X (chan'[p].users \ chan[p].users))
      /\ OthersKept(g) /\ OnlyChannel(p)
  BY <1>1, JoinUsersEffect
<1>3. \/ /\ task[g].uids \cap chan[p].users = {}
         /\ chan'[p].users = chan[p].users \cup task[g].uids
         /\ task'[g].pc = "joinMap" /\ task'[g].ptr = p /\ task'[g].uids = task[g].uids
      \/ task'[g] = Idle
  BY <1>1, JoinUsersEffect
<1>4. task'[g].pc \notin {"partAll", "split"}
  BY <1>3 DEF Idle
<1>5. /\ late \subseteq late'
      /\ chanMutex # NoOne => \A uid \in chan'[p].users \ chan[p].users : <<p, uid>> \in late'
  BY <1>2
<1>6. SweepHolds' /\ SweepAhead'
  BY <1>2, <1>4, <1>5, UsersCInv
<1>7. JoinAlone'
  <2> SUFFICES ASSUME ~orphaned, NEW h \in Goroutine, task'[h].pc = "joinMap"
               PROVE  \/ chanMap[ToLower(chan'[task'[h].ptr].name)] = task'[h].ptr
                      \/ chan'[task'[h].ptr].users = task'[h].uids
    BY <1>2 DEF JoinAlone, Low
  <2>1. CASE h = g
    <3>1. task'[g].ptr = p /\ chan'[p].users = chan[p].users \cup task'[g].uids
      BY <1>3, <2>1 DEF Idle
    <3>2. CASE chan[p].users = {}
      BY <2>1, <3>1, <3>2
    <3>3. CASE chan[p].users # {}
      <4>1. chanMap[Low(p)] = p
        BY <1>2, <3>3 DEF CInv, MInv, MembersFindable
      <4>2. ToLower(chan'[task'[h].ptr].name) = Low(p)
        BY <1>2, <2>1, <3>1 DEF Low, OnlyChannel
      <4> QED
        BY <2>1, <3>1, <4>1, <4>2
    <3> QED
      BY <3>2, <3>3
  <2>2. CASE h # g
    <3>1. task'[h] = task[h] /\ task[h].pc = "joinMap"
      BY <1>2, <2>2 DEF OthersKept
    <3>2. task[h].ptr \in Ptr \ {p}
      BY <1>1, <1>2, <3>1, WaitingLocks
    <3>3. chan'[task[h].ptr] = chan[task[h].ptr]
      BY <1>2, <3>2 DEF OnlyChannel
    <3>4. ToLower(chan'[task'[h].ptr].name) = Low(task[h].ptr)
      BY <3>1, <3>3 DEF Low
    <3> QED
      BY <3>1, <3>3, <3>4 DEF CInv, JoinAlone
  <2> QED
    BY <2>1, <2>2
<1> QED
  BY <1>6, <1>7 DEF CInv

LEMMA PartUserCInv ==
    ASSUME CInv, MInv', NEW g \in Goroutine, PartUser(g)
    PROVE  CInv'
<1> DEFINE p == task[g].ptr
<1>1. IInv /\ Types
  BY DEF CInv, MInv, IInv
<1>2. /\ task[g].pc = "part" /\ p \in Ptr /\ mutex[p] = NoOne
      /\ UNCHANGED <<chanMap, chanMutex, orphaned, late>>
      /\ OthersKept(g) /\ OnlyChannel(p) /\ chan'[p].users = chan[p].users \ task[g].uids
  BY <1>1, PartUserEffect
<1>3. task'[g].pc \notin {"partAll", "split", "joinMap"}
  <2>1. task'[g] = Idle \/ task'[g].pc = "partMap"
    BY <1>1, PartUserEffect
  <2> QED
    BY <2>1 DEF Idle
<1>4. /\ late \subseteq late'
      /\ \A uid \in chan'[p].users \ chan[p].users : <<p, uid>> \in late'
  BY <1>2
<1>5. SweepHolds' /\ SweepAhead'
  BY <1>2, <1>3, <1>4, UsersCInv
<1>6. \A h \in Goroutine \ {g} : task[h].pc = "joinMap" => chan'[task[h].ptr] = chan[task[h].ptr]
  BY <1>1, <1>2, WaitingLocks DEF OnlyChannel
<1>7. JoinAlone'
  BY <1>2, <1>3, <1>6, AloneKept DEF CInv
<1> QED
  BY <1>5, <1>7 DEF CInv

LEMMA JoinMapCInv ==
    ASSUME CInv, MInv', NEW g \in Goroutine, JoinMap(g)
    PROVE  CInv'
<1> DEFINE p == task[g].ptr
           n == chan[p].name
<1>1. IInv /\ Types /\ NoPtr \notin Ptr
  BY ChannelsAssumption DEF CInv, MInv, IInv
<1>2. /\ p \in Ptr /\ chanMutex = NoOne /\ chan' = chan
      /\ orphaned' = (orphaned \/ chanMap[n] \notin {NoPtr, p})
      /\ task'[g] = Idle /\ OthersKept(g)
      /\ \A k \in Key \ {n} : chanMap'[k] = chanMap[k]
      /\ chanMap'[n] = IF chanMap[n] = NoPtr THEN p ELSE chanMap[n]
  BY <1>1, JoinMapEffect
<1> HIDE DEF n
<1>3. task'[g].pc \notin {"partAll", "split", "joinMap"}
  BY <1>2 DEF Idle
<1>4. SweepHolds' /\ SweepAhead'
  BY <1>2, <1>3, FreeStep DEF CInv
<1>5. \A q \in Ptr : chanMap[Low(q)] = q => chanMap'[Low(q)] = q
  BY <1>1, <1>2, LowKey
<1>6. \A h \in Goroutine \ {g} : task[h].pc = "joinMap" => task[h].ptr \in Ptr
  BY <1>1, WaitingLocks
<1>7. JoinAlone'
  BY <1>2, <1>3, <1>5, <1>6, AloneKept DEF CInv
<1> QED
  BY <1>4, <1>7 DEF CInv

LEMMA PartMapCInv ==
    ASSUME CInv, MInv', NEW g \in Goroutine, PartMap(g)
    PROVE  CInv'
<1> DEFINE p == task[g].ptr
<1>1. IInv /\ Types
  BY DEF CInv, MInv, IInv
<1>2. /\ task[g].pc = "partMap" /\ p \in Ptr /\ mutex[p] = g /\ chanMutex = NoOne
      /\ UNCHANGED <<chan, chanMutex, orphaned, late>>
      /\ task'[g] = Idle /\ OthersKept(g)
      /\ \A k \in Key \ {chan[p].name} : chanMap'[k] = chanMap[k]
  BY <1>1, PartMapEffect
<1>3. task'[g].pc \notin {"partAll", "split", "joinMap"}
  BY <1>2 DEF Idle
<1>4. SweepHolds' /\ SweepAhead'
  BY <1>2, <1>3, FreeStep DEF CInv
<1>5. ~orphaned => chanMap[Low(p)] = p
  BY <1>2 DEF CInv, MInv, EmptiedFindable
<1>6. \A q \in Ptr \ {p} : (~orphaned /\ chanMap[Low(q)] = q) => chanMap'[Low(q)] = q
  BY <1>1, <1>2, <1>5, DropOther
<1>7. \A h \in Goroutine \ {g} : task[h].pc = "joinMap" => task[h].ptr \in Ptr \ {p}
  BY <1>1, <1>2, WaitingLocks
<1>8. JoinAlone'
  BY <1>2, <1>3, <1>6, <1>7, AloneKept DEF CInv
<1> QED
  BY <1>4, <1>8 DEF CInv

\* When a sweep begins, every channel with users is in the map under its folded
\* name, or its holder waits for the map.
LEMMA BeginSweepCInv ==
    ASSUME CInv, MInv', NEW g \in Goroutine, NEW pc \in {"partAll", "split"},
           NEW uids \in SUBSET User, BeginSweep(g, pc, uids)
    PROVE  CInv'
<1>1. IInv /\ Types /\ NoPtr \notin Ptr
  BY ChannelsAssumption DEF CInv, MInv, IInv
<1>2. /\ task[g] = Idle /\ chanMutex = NoOne /\ chanMutex' = g
      /\ UNCHANGED <<chan, chanMap, mutex, orphaned, late>>
      /\ task'[g] = [pc |-> pc, ptr |-> NoPtr, uids |-> uids,
                     todo |-> {k \in Key : chanMap[k] # NoPtr}]
      /\ OthersKept(g)
  BY <1>1, BeginSweepEffect
<1>8. task'[g].pc = pc /\ task'[g].todo = {k \in Key : chanMap[k] # NoPtr}
  BY <1>2
<1>3. \A h \in Goroutine \ {g} : ~Sweeping(h)'
  BY <1>2, ChannelsAssumption DEF CInv, SweepHolds, Sweeping, OthersKept
<1>4. SweepHolds'
  BY <1>2, <1>3 DEF SweepHolds
<1>5. ASSUME ~orphaned, NEW p \in Ptr, NEW uid \in User, uid \in chan[p].users
      PROVE  Ahead(g, p, uid)'
  <2>1. CASE mutex[p] = NoOne
    <3>1. chanMap[Low(p)] = p /\ Low(p) \in Key
      BY <1>1, <1>5, <2>1, LowKey DEF CInv, MInv, MembersFindable
    <3>2. Low(p)' = Low(p)
      BY <1>2 DEF Low
    <3> QED
      BY <1>1, <1>2, <1>8, <3>1, <3>2 DEF Ahead
  <2>2. CASE mutex[p] # NoOne
    <3>1. mutex[p] \in Goroutine /\ task[mutex[p]].ptr = p /\ task[mutex[p]].pc = "joinMap"
      <4>1. mutex[p] \in Goroutine
        BY <1>1, <2>2 DEF Types
      <4>2. task[mutex[p]].pc \in {"joinMap", "partMap"} /\ task[mutex[p]].ptr = p
        BY <1>1, <2>2 DEF IInv, LockHeld
      <4>3. task[mutex[p]].pc # "partMap"
        BY <1>1, <1>5, <4>1, <4>2 DEF IInv, TaskShape, Shape
      <4> QED
        BY <4>1, <4>2, <4>3
    <3>2. task'[mutex[p]] = task[mutex[p]]
      BY <1>2, <3>1 DEF OthersKept, Idle
    <3> QED
      BY <3>1, <3>2 DEF Ahead, Waiting
  <2> QED
    BY <2>1, <2>2
<1>6. SweepAhead'
  BY <1>2, <1>3, <1>5 DEF SweepAhead
<1>7. JoinAlone'
  <2>1. task'[g].pc # "joinMap"
    BY <1>8
  <2> QED
    BY <1>2, <2>1, AloneKept DEF CInv
<1> QED
  BY <1>4, <1>6, <1>7 DEF CInv

\* The channel visited loses the users; the others stay where they are.
LEMMA SweepCInv ==
    ASSUME CInv, MInv', NEW g \in Goroutine, NEW k \in Key, chanMap[k] # NoPtr,
           PartAllStep(g, k) \/ ChanSplitStep(g, k)
    PROVE  CInv'
<1> DEFINE p == chanMap[k]
<1>1. IInv /\ Types
  BY DEF CInv, MInv, IInv
<1>2. /\ task[g].pc \in {"partAll", "split"} /\ p \in Ptr /\ mutex[p] = NoOne
      /\ UNCHANGED <<mutex, chanMutex, orphaned, late>>
      /\ OthersKept(g) /\ OnlyChannel(p)
      /\ chan'[p].users = chan[p].users \ task[g].uids
      /\ task'[g].pc = task[g].pc /\ task'[g].uids = task[g].uids
      /\ task'[g].todo = task[g].todo \ {k}
      /\ \A j \in Key \ {chan[p].name} : chanMap'[j] = chanMap[j]
  BY <1>1, SweepEffect
<1>3. chan[p].name = Low(p) => chanMap[Low(p)] = p
  BY DEF CInv, MInv, EntryNamed
<1>4. \A q \in Ptr \ {p} : chanMap[Low(q)] = q => chanMap'[Low(q)] = q
  BY <1>1, <1>2, <1>3, DropOther
<1>5. SweepHolds'
  BY <1>2 DEF CInv, SweepHolds, Sweeping, OthersKept
<1>6. ASSUME ~orphaned, NEW h \in Goroutine, NEW q \in Ptr, NEW uid \in User, Sweeping(h)',
             uid \in task'[h].uids, uid \in chan'[q].users
      PROVE  Ahead(h, q, uid)'
  <2>1. h = g /\ Sweeping(g)
    BY <1>2, <1>5, <1>6 DEF CInv, SweepHolds, Sweeping
  <2>2. q # p
    BY <1>2, <1>6, <2>1
  <2>3. uid \in task[g].uids /\ uid \in chan[q].users
    BY <1>2, <1>6, <2>1, <2>2 DEF OnlyChannel
  <2>4. Ahead(g, q, uid)
    BY <1>6, <2>1, <2>3 DEF CInv, SweepAhead
  <2>5. Waiting(q) => Waiting(q)'
    BY <1>2 DEF Waiting, OthersKept
  <2>6. Low(q)' = Low(q)
    BY <1>2 DEF OnlyChannel, Low
  <2>7. chanMap[Low(q)] = q => chanMap'[Low(q)] = q /\ Low(q) # k
    BY <1>4, <2>2
  <2> QED
    BY <1>2, <2>1, <2>4, <2>5, <2>6, <2>7 DEF Ahead
<1>7. SweepAhead'
  BY <1>2, <1>6 DEF SweepAhead
<1>8. \A h \in Goroutine \ {g} : task[h].pc = "joinMap" => task[h].ptr \in Ptr \ {p}
  BY <1>1, <1>2, WaitingLocks
<1>9. JoinAlone'
  <2>1. task'[g].pc # "joinMap"
    BY <1>2
  <2>2. \A h \in Goroutine \ {g} : task[h].pc = "joinMap" => chan'[task[h].ptr] = chan[task[h].ptr]
    BY <1>2, <1>8 DEF OnlyChannel
  <2> QED
    BY <1>2, <1>4, <1>8, <2>1, <2>2, AloneKept DEF CInv
<1> QED
  BY <1>5, <1>7, <1>9 DEF CInv

LEMMA EndSweepCInv ==
    ASSUME CInv, MInv', NEW g \in Goroutine, EndSweep(g)
    PROVE  CInv'
<1>1. IInv /\ Types
  BY DEF CInv, MInv, IInv
<1>2. /\ task[g].pc \in {"partAll", "split"}
      /\ UNCHANGED <<chan, chanMap, mutex, orphaned>> /\ task'[g] = Idle /\ OthersKept(g)
  BY <1>1, EndSweepEffect
<1>3. task'[g].pc \notin {"partAll", "split", "joinMap"} /\ chanMutex = g
  BY <1>2 DEF Idle, CInv, SweepHolds, Sweeping
<1>4. SweepHolds' /\ SweepAhead'
  BY <1>2, <1>3, FreeStep DEF CInv
<1>5. JoinAlone'
  BY <1>2, <1>3, AloneKept DEF CInv
<1> QED
  BY <1>4, <1>5 DEF CInv

LEMMA InitCInv == Init => CInv
<1>1. Init => SweepHolds /\ SweepAhead /\ JoinAlone
  BY DEF Init, Idle, SweepHolds, SweepAhead, JoinAlone, Sweeping
<1> QED
  BY <1>1, InitMInv DEF CInv

\* The calls of GetChannel that begin a Join or a Part.
LEMMA BeginCalls ==
    ASSUME NEW g \in Goroutine
    PROVE  /\ \A name \in Name, uids \in (SUBSET User) \ {{}} :
                BeginJoin(g, name, uids) => \E p \in Ptr : BeginCall(g, name, p, "join", uids)
           /\ \A name \in Name, uid \in User :
                BeginPart(g, name, uid) => \E p \in Ptr : BeginCall(g, name, p, "part", {uid})
<1>1. ASSUME NEW name \in Name, NEW uids \in (SUBSET User) \ {{}}, BeginJoin(g, name, uids)
      PROVE  \E p \in Ptr : BeginCall(g, name, p, "join", uids)
  BY <1>1 DEF BeginJoin, BeginCall
<1>2. ASSUME NEW name \in Name, NEW uid \in User, BeginPart(g, name, uid)
      PROVE  \E p \in Ptr : BeginCall(g, name, p, "part", {uid})
  <2>1. {uid} \in SUBSET User
    OBVIOUS
  <2> QED
    BY <1>2, <2>1 DEF BeginPart, BeginCall
<1> QED
  BY <1>1, <1>2

LEMMA NextCInv == CInv /\ [Next]_vars => CInv'
<1> SUFFICES ASSUME CInv, [Next]_vars
             PROVE  CInv'
  OBVIOUS
<1>1. MInv'
  BY NextMInv DEF CInv
<1>2. ASSUME NEW g \in Goroutine, NEW name \in Name, NEW uids \in (SUBSET User) \ {{}},
             BeginJoin(g, name, uids)
      PROVE  CInv'
  BY <1>1, <1>2, BeginCalls, BeginCInv
<1>3. ASSUME NEW g \in Goroutine, NEW name \in Name, NEW uid \in User, BeginPart(g, name, uid)
      PROVE  CInv'
  BY <1>1, <1>3, BeginCalls, BeginCInv
<1>4. ASSUME NEW g \in Goroutine, NEW uid \in User, BeginSweep(g, "partAll", {uid})
      PROVE  CInv'
  BY <1>1, <1>4, BeginSweepCInv
<1>5. ASSUME NEW g \in Goroutine, NEW uids \in (SUBSET User) \ {{}}, BeginSweep(g, "split", uids)
      PROVE  CInv'
  BY <1>1, <1>5, BeginSweepCInv
<1>6. CASE UNCHANGED vars
  <2>1. \A p : Low(p)' = Low(p)
    BY <1>6 DEF vars, Low
  <2> QED
    BY <1>1, <1>6, <2>1 DEF vars, CInv, SweepHolds, SweepAhead, JoinAlone, Sweeping, Ahead, Waiting
<1> QED
  BY <1>1, <1>2, <1>3, <1>4, <1>5, <1>6, JoinUsersCInv, JoinMapCInv, PartUserCInv, PartMapCInv,
     SweepCInv, EndSweepCInv DEF Next

LEMMA CallsInvariance == Spec => []CInv
BY InitCInv, NextCInv, PTL DEF Spec

\* When PartAll or ChanSplit returns, its users are on no channel but those
\* they were entered in meanwhile, or that a Join is about to enter in the map
\* again (channel.go:161-191, 193-243), however many calls run beside it.
THEOREM SweepCompleteCorrect == Spec => SweepComplete
<1>1. CInv /\ [Next]_vars => [SweepCompleteStep]_vars
  <2> SUFFICES ASSUME CInv, NEW g \in Goroutine, EndSweep(g), NEW p \in Ptr,
                      NEW uid \in task[g].uids, uid \in chan[p].users, ~orphaned
               PROVE  <<p, uid>> \in late \/ Waiting(p)
    BY DEF SweepCompleteStep, Waiting
  <2>1. IInv /\ Types /\ p # NoPtr
    BY ChannelsAssumption DEF CInv, MInv, IInv
  <2>2. Sweeping(g) /\ \A k \in task[g].todo : chanMap[k] = NoPtr
    BY DEF EndSweep, Sweeping
  <2>3. uid \in User
    BY <2>1 DEF Types, Channel
  <2>4. Ahead(g, p, uid)
    BY <2>2, <2>3 DEF CInv, SweepAhead
  <2> QED
    BY <2>1, <2>2, <2>4 DEF Ahead
<1> QED
  BY <1>1, CallsInvariance, PTL DEF Spec, SweepComplete

-----------------------------------------------------------------------------
(* The table: what its callers see of a state. *)

LEMMA RoomOfChannel ==
    ASSUME Types, NEW p \in Ptr
    PROVE  /\ Low(p) \in Room
           /\ chan[p].name \in Room => chan[p].name = Low(p)
<1>1. chan[p].name \in Name
  BY DEF Types, Channel
<1>2. Low(p) \in Room
  BY <1>1 DEF Room, Low
<1>3. ASSUME NEW n \in Name, chan[p].name = ToLower(n) PROVE chan[p].name = Low(p)
  BY <1>3, Keys DEF Low
<1> QED
  BY <1>2, <1>3 DEF Room

LEMMA RoomIsKey ==
    ASSUME NEW r \in Room
    PROVE  r \in Key
BY DEF Room, Key

\* The channel of a room is found under its folded name.
LEMMA RoomEntry ==
    ASSUME MInv, NEW r \in Room, chanMap[r] # NoPtr
    PROVE  chanMap[r] \in Ptr /\ r = Low(chanMap[r])
<1>1. r \in Key /\ Types /\ EntryNamed
  BY RoomIsKey DEF MInv, IInv
<1>2. chanMap[r] \in Ptr /\ r \in {Low(chanMap[r]), chan[chanMap[r]].name}
  BY <1>1 DEF Types, EntryNamed
<1> QED
  BY <1>1, <1>2, RoomOfChannel

\* One room gets other members.
LEMMA MemberSet ==
    ASSUME NEW s \in Room, NEW u, member'[s] = u, \A r \in Room \ {s} : member'[r] = member[r]
    PROVE  member' = [member EXCEPT ![s] = u]
<1>1. member' = [r \in Room |-> member'[r]] /\ member = [r \in Room |-> member[r]]
  BY DEF member
<1> HIDE DEF member
<1>2. member' = [r \in Room |-> IF r = s THEN u ELSE member[r]]
  BY <1>1
<1>3. [member EXCEPT ![s] = u] = [r \in Room |-> IF r = s THEN u ELSE member[r]]
  BY <1>1
<1> QED
  BY <1>2, <1>3

LEMMA MemberSame ==
    ASSUME \A r \in Room : member'[r] = member[r]
    PROVE  member' = member
BY DEF member

LEMMA RoomKept ==
    ASSUME NEW r \in Room, chanMap'[r] = chanMap[r],
           chanMap[r] # NoPtr => chan'[chanMap[r]].users = chan[chanMap[r]].users
    PROVE  member'[r] = member[r]
BY DEF member

\* The members of a room change with the users of the channel that is found.
LEMMA UsersMember ==
    ASSUME MInv, NEW p \in Ptr, OnlyChannel(p), chanMap' = chanMap
    PROVE  /\ chanMap[Low(p)] = p => /\ member[Low(p)] = chan[p].users
                                     /\ member' = [member EXCEPT ![Low(p)] = chan'[p].users]
           /\ chanMap[Low(p)] # p => member' = member
<1>1. Low(p) \in Room /\ p # NoPtr
  BY RoomOfChannel, ChannelsAssumption DEF MInv, IInv
<1>2. ASSUME NEW r \in Room, chanMap[r] # p PROVE member'[r] = member[r]
  <2>1. chanMap[r] # NoPtr => chan'[chanMap[r]].users = chan[chanMap[r]].users
    BY <1>2, RoomEntry DEF OnlyChannel
  <2> QED
    BY <2>1, RoomKept
<1>3. \A r \in Room : chanMap[r] = p => r = Low(p)
  BY <1>1, RoomEntry
<1>4. CASE chanMap[Low(p)] = p
  <2>1. member[Low(p)] = chan[p].users /\ member'[Low(p)] = chan'[p].users
    BY <1>1, <1>4 DEF member
  <2>2. \A r \in Room \ {Low(p)} : member'[r] = member[r]
    BY <1>2, <1>3
  <2> QED
    BY <1>1, <1>4, <2>1, <2>2, MemberSet
<1>5. CASE chanMap[Low(p)] # p
  <2>1. \A r \in Room : member'[r] = member[r]
    BY <1>2, <1>3, <1>5
  <2> QED
    BY <1>5, <2>1, MemberSame
<1> QED
  BY <1>4, <1>5

-----------------------------------------------------------------------------
(* The calls. *)

Joined(g) == chanMap[Low(task[g].ptr)] = task[g].ptr

LEMMA OpFields ==
    ASSUME NEW g \in Goroutine
    PROVE  /\ op[g].kind = IF task[g].pc = "joinMap" /\ Joined(g) THEN "joined"
                           ELSE Kind[task[g].pc]
           /\ op[g].room = IF task[g].ptr = NoPtr THEN NoPtr ELSE Low(task[g].ptr)
           /\ op[g].uids = task[g].uids
           /\ op[g].todo = task[g].todo \cap Room
BY DEF op, Joined

LEMMA Kinds ==
    /\ Kind["idle"] = "none" /\ Kind["join"] = "join" /\ Kind["joinMap"] = "join"
    /\ Kind["part"] = "part" /\ Kind["partMap"] = "parted"
    /\ Kind["partAll"] = "sweep" /\ Kind["split"] = "sweep"
BY DEF Kind

LEMMA IdleOp ==
    ASSUME NEW g \in Goroutine, task'[g] = Idle
    PROVE  op'[g] = Table!NoOp
<1>1. /\ task'[g].pc = "idle" /\ task'[g].ptr = NoPtr
      /\ task'[g].uids = {} /\ task'[g].todo = {}
  BY DEF Idle
<1>2. op'[g] = [kind |-> Kind[task'[g].pc], room |-> NoPtr, uids |-> {}, todo |-> {}]
  BY <1>1 DEF op
<1> QED
  BY <1>1, <1>2, Kinds DEF Table!NoOp

\* The other calls stay as they are: no step renames their channels, nor finds
\* or loses the channel that a Join is to enter in the map.
JoinsKept(g) ==
    \A h \in Goroutine \ {g} : task[h].pc = "joinMap" =>
        (chanMap'[Low(task[h].ptr)] = task[h].ptr <=> chanMap[Low(task[h].ptr)] = task[h].ptr)
ChannelNamesKept(g) ==
    \A h \in Goroutine \ {g} : task[h].ptr \in Ptr =>
        chan'[task[h].ptr].name = chan[task[h].ptr].name

LEMMA OthersOp ==
    ASSUME IInv, NEW g \in Goroutine, OthersKept(g), ChannelNamesKept(g), JoinsKept(g)
    PROVE  \A h \in Goroutine \ {g} : op'[h] = op[h]
<1> SUFFICES ASSUME NEW h \in Goroutine \ {g} PROVE op'[h] = op[h]
  OBVIOUS
<1>1. task'[h] = task[h] /\ task[h].ptr \in Ptr \cup {NoPtr}
      /\ (task[h].pc = "joinMap" => task[h].ptr \in Ptr)
  BY DEF OthersKept, IInv, Types, Task, TaskShape, Shape
<1>2. task[h].ptr \in Ptr => ToLower(chan'[task[h].ptr].name) = Low(task[h].ptr)
  BY DEF ChannelNamesKept, Low
<1>3. task[h].pc = "joinMap" =>
        (chanMap'[Low(task[h].ptr)] = task[h].ptr <=> chanMap[Low(task[h].ptr)] = task[h].ptr)
  BY DEF JoinsKept
<1>4. op[h] = [kind |-> IF task[h].pc = "joinMap" /\ chanMap[Low(task[h].ptr)] = task[h].ptr
                        THEN "joined" ELSE Kind[task[h].pc],
               room |-> IF task[h].ptr = NoPtr THEN NoPtr ELSE Low(task[h].ptr),
               uids |-> task[h].uids, todo |-> task[h].todo \cap Room]
  BY DEF op
<1>5. op'[h] = [kind |-> IF task[h].pc = "joinMap"
                            /\ chanMap'[ToLower(chan'[task[h].ptr].name)] = task[h].ptr
                         THEN "joined" ELSE Kind[task[h].pc],
                room |-> IF task[h].ptr = NoPtr THEN NoPtr
                         ELSE ToLower(chan'[task[h].ptr].name),
                uids |-> task[h].uids, todo |-> task[h].todo \cap Room]
  BY <1>1 DEF op, Low
<1> QED
  BY <1>1, <1>2, <1>3, <1>4, <1>5

LEMMA SetOp ==
    ASSUME NEW g \in Goroutine, NEW o, op'[g] = o,
           \A h \in Goroutine \ {g} : op'[h] = op[h]
    PROVE  Table!Set(g, o)
<1>1. op' = [h \in Goroutine |-> op'[h]] /\ op = [h \in Goroutine |-> op[h]]
  BY DEF op
<1> HIDE DEF op
<1>2. op' = [h \in Goroutine |-> IF h = g THEN o ELSE op[h]]
  BY <1>1
<1>3. [op EXCEPT ![g] = o] = [h \in Goroutine |-> IF h = g THEN o ELSE op[h]]
  BY <1>1
<1> QED
  BY <1>2, <1>3 DEF Table!Set

LEMMA EndOp ==
    ASSUME NEW g \in Goroutine, task'[g] = Idle, \A h \in Goroutine \ {g} : op'[h] = op[h]
    PROVE  Table!End(g)
BY IdleOp, SetOp DEF Table!End

\* A call of Part that misses its user from now on misses it in the room.
LEMMA GlimpseStep ==
    ASSUME IInv', \A h \in missed' \ missed :
               chanMap'[ToLower(chan'[task'[h].ptr].name)] \in {task'[h].ptr, NoPtr}
    PROVE  Table!Glimpse
<1> SUFFICES ASSUME NEW h \in missed' \ missed
             PROVE  op'[h].kind = "part" /\ op'[h].uids \cap member'[op'[h].room] = {}
  BY DEF Table!Glimpse
<1> DEFINE q == task'[h].ptr
           r == ToLower(chan'[q].name)
<1>1. h \in Goroutine /\ task'[h].pc = "part" /\ task'[h].uids \cap chan'[q].users = {}
  BY DEF missed
<1>2. q \in Ptr /\ q # NoPtr /\ chan'[q].name \in Name
  BY <1>1, ChannelsAssumption DEF IInv, TaskShape, Shape, Types, Channel
<1>3. op'[h].kind = Kind["part"] /\ op'[h].uids = task'[h].uids /\ op'[h].room = r
  BY <1>1, <1>2 DEF op, Low
<1>4. r \in Room
  BY <1>2 DEF Room
<1>5. member'[r] = IF chanMap'[r] = NoPtr THEN {} ELSE chan'[chanMap'[r]].users
  BY <1>4 DEF member
<1> QED
  BY <1>1, <1>2, <1>3, <1>5, Kinds

LEMMA OpSame ==
    ASSUME \A g \in Goroutine : op'[g] = op[g]
    PROVE  op' = op
BY DEF op

\* No call of Part misses its user anew while no users leave.
LEMMA GlimpseSame ==
    ASSUME IInv, NEW g \in Goroutine, OthersKept(g), task'[g].pc # "part",
           \A q \in Ptr : chan[q].users \subseteq chan'[q].users
    PROVE  Table!Glimpse
<1>1. ASSUME NEW h \in missed' PROVE h \in missed
  <2>1. h \in Goroutine /\ task'[h].pc = "part" /\ task'[h].uids \cap chan'[task'[h].ptr].users = {}
    BY DEF missed
  <2>2. h # g /\ task'[h] = task[h]
    BY <2>1 DEF OthersKept
  <2>3. task[h].ptr \in Ptr
    BY <2>1, <2>2 DEF IInv, TaskShape, Shape
  <2> QED
    BY <2>1, <2>2, <2>3 DEF missed
<1> QED
  BY <1>1 DEF Table!Glimpse

\* A step of a goroutine that the callers see.
LEMMA TableStep ==
    ASSUME NEW g \in Goroutine, Table!Glimpse,
           \/ Table!BeginJoin(g) \/ Table!BeginPart(g) \/ Table!BeginSweep(g)
           \/ Table!Enter(g) \/ Table!EnterSome(g) \/ Table!Leave(g) \/ Table!NotThere(g)
           \/ \E r \in Room : Table!Visit(g, r)
           \/ Table!Return(g)
    PROVE  Table!Next
BY DEF Table!Next, Table!Step

-----------------------------------------------------------------------------
(* The steps. *)

LEMMA BeginTable ==
    ASSUME MInv, MInv', NEW g \in Goroutine, NEW name, NEW p, NEW pc, NEW uids,
           BeginCall(g, name, p, pc, uids)
    PROVE  /\ Table!Glimpse /\ Table!Idle(g) /\ ToLower(name) \in Room
           /\ Table!Set(g, Table!Begun(pc, ToLower(name), uids, {}))
<1>1. /\ IInv /\ IInv' /\ Types /\ Types' /\ NoPtr \notin Ptr
      /\ name \in Name /\ p \in Ptr /\ pc \in {"join", "part"} /\ task[g] = Idle
  BY ChannelsAssumption DEF MInv, IInv, BeginCall
<1>2. OthersKept(g) /\ task'[g] = [pc |-> pc, ptr |-> p, uids |-> uids, todo |-> {}]
  BY <1>1, BeginTask
<1>3. task'[g].pc = pc /\ task'[g].ptr = p /\ task'[g].uids = uids /\ task'[g].todo = {}
  BY <1>2
<1>4. Found(name, p) \/ Made(name, p)
  BY <1>1, BeginChannel
<1>5. ToLower(name) \in Room /\ ToLower(name) \in Key
  BY <1>1, Keys DEF Room
<1>6. ToLower(chan'[p].name) = ToLower(name) /\ chanMap'[ToLower(name)] = p
  <2>1. CASE Found(name, p)
    BY <1>1, <1>5, <2>1, RoomEntry DEF Found, Low
  <2>2. CASE Made(name, p)
    BY <2>2 DEF Made
  <2> QED
    BY <1>4, <2>1, <2>2
<1>7. op'[g] = Table!Begun(pc, ToLower(name), uids, {})
  <2>1. op'[g] = [kind |-> Kind[pc], room |-> ToLower(chan'[p].name), uids |-> uids, todo |-> {}]
    BY <1>1, <1>3 DEF op, Low
  <2> QED
    BY <1>1, <1>6, <2>1, Kinds DEF Table!Begun
<1>8. \A h \in Goroutine \ {g} : op'[h] = op[h]
  <2>1. CASE Found(name, p)
    BY <1>1, <1>2, <2>1, OthersOp DEF Found, ChannelNamesKept, JoinsKept
  <2>2. CASE Made(name, p)
    <3>1. ChannelNamesKept(g)
      BY <2>2 DEF ChannelNamesKept, Made, Garbage
    <3>2. JoinsKept(g)
      <4> SUFFICES ASSUME NEW h \in Goroutine \ {g}, task[h].pc = "joinMap"
                   PROVE  chanMap'[Low(task[h].ptr)] = task[h].ptr
                            <=> chanMap[Low(task[h].ptr)] = task[h].ptr
        BY DEF JoinsKept
      <4>1. task[h].ptr \in Ptr /\ Low(task[h].ptr) \in Key /\ task[h].ptr # p
        BY <1>1, <2>2, WaitingLocks, LowKey DEF Made, Garbage
      <4> QED
        BY <1>1, <2>2, <4>1 DEF Made
    <3> QED
      BY <1>1, <1>2, <3>1, <3>2, OthersOp
  <2> QED
    BY <1>4, <2>1, <2>2
<1>9. member' = member
  <2>1. CASE Found(name, p)
    BY <2>1 DEF Found, member
  <2>2. CASE Made(name, p)
    <3>1. ASSUME NEW r \in Room PROVE member'[r] = member[r]
      <4>1. CASE r = ToLower(name)
        <5>1. chanMap[r] = NoPtr /\ chanMap'[r] = p /\ p # NoPtr /\ chan'[p].users = {}
          BY <1>1, <2>2, <4>1 DEF Made
        <5> QED
          BY <5>1 DEF member
      <4>2. CASE r # ToLower(name)
        <5>1. r \in Key /\ chanMap[r] # p /\ chanMap'[r] = chanMap[r]
          BY <2>2, <4>2, RoomIsKey DEF Made, Garbage
        <5>2. chanMap[r] # NoPtr => chan'[chanMap[r]] = chan[chanMap[r]]
          BY <2>2, <5>1, RoomEntry DEF Made
        <5> QED
          BY <5>1, <5>2, RoomKept
      <4> QED
        BY <4>1, <4>2
    <3> QED
      BY <3>1, MemberSame
  <2> QED
    BY <1>4, <2>1, <2>2
<1>10. op[g].kind = "none"
  <2>1. task[g].pc = "idle"
    BY <1>1 DEF Idle
  <2> QED
    BY <2>1, OpFields, Kinds
<1>11. ASSUME NEW h \in missed' \ missed
       PROVE  chanMap'[ToLower(chan'[task'[h].ptr].name)] \in {task'[h].ptr, NoPtr}
  <2>1. CASE h = g
    BY <1>3, <1>6, <2>1
  <2>2. CASE h # g
    <3>1. h \in Goroutine /\ task'[h].pc = "part" /\ task'[h].uids \cap chan'[task'[h].ptr].users = {}
      BY DEF missed
    <3>2. task'[h] = task[h] /\ task[h].ptr \in Ptr
      BY <1>1, <1>2, <2>2, <3>1 DEF OthersKept, IInv, TaskShape, Shape
    <3>3. chan'[task[h].ptr] = chan[task[h].ptr]
      BY <1>4, <3>1, <3>2 DEF Found, Made, Garbage
    <3>4. h \in missed
      BY <3>1, <3>2, <3>3 DEF missed
    <3> QED
      BY <3>4
  <2> QED
    BY <2>1, <2>2
<1>12. Table!Glimpse
  BY <1>1, <1>11, GlimpseStep
<1>13. Table!Set(g, Table!Begun(pc, ToLower(name), uids, {}))
  BY <1>7, <1>8, SetOp
<1> QED
  BY <1>5, <1>9, <1>10, <1>12, <1>13 DEF Table!Idle

LEMMA BeginSweepTable ==
    ASSUME MInv, NEW g \in Goroutine, NEW pc \in {"partAll", "split"},
           NEW uids \in SUBSET User, BeginSweep(g, pc, uids)
    PROVE  Table!Next
<1>1. IInv /\ Types
  BY DEF MInv, IInv
<1> DEFINE keys == {k \in Key : chanMap[k] # NoPtr}
<1>2. /\ task[g] = Idle /\ UNCHANGED <<chan, chanMap>> /\ OthersKept(g)
      /\ task'[g] = [pc |-> pc, ptr |-> NoPtr, uids |-> uids, todo |-> keys]
  BY <1>1, BeginSweepEffect
<1>3. /\ task'[g].pc = pc /\ task'[g].ptr = NoPtr /\ task'[g].uids = uids
      /\ task'[g].todo = keys /\ task[g].pc = "idle"
  BY <1>2 DEF Idle
<1> HIDE DEF keys
<1>4. op'[g] = Table!Begun("sweep", NoPtr, uids, keys \cap Room)
  <2>1. op'[g] = [kind |-> Kind[pc], room |-> NoPtr, uids |-> uids, todo |-> keys \cap Room]
    BY <1>3 DEF op
  <2> QED
    BY <2>1, Kinds DEF Table!Begun
<1>5. \A h \in Goroutine \ {g} : op'[h] = op[h]
  BY <1>1, <1>2, OthersOp DEF ChannelNamesKept, JoinsKept
<1>6. Table!Idle(g)
  <2>1. op[g].kind = "none"
    BY <1>3, OpFields, Kinds
  <2>2. member' = member
    BY <1>2 DEF member
  <2> QED
    BY <2>1, <2>2 DEF Table!Idle
<1>7. \A r \in Room : member[r] \cap uids # {} => r \in keys \cap Room
  BY RoomIsKey DEF member, keys
<1>8. Table!BeginSweep(g)
  <2>1. Table!Set(g, Table!Begun("sweep", NoPtr, uids, keys \cap Room))
    BY <1>4, <1>5, SetOp
  <2>2. keys \cap Room \in SUBSET Room
    OBVIOUS
  <2> QED
    BY <1>6, <1>7, <2>1, <2>2 DEF Table!BeginSweep
<1>9. Table!Glimpse
  BY <1>1, <1>2, <1>3, GlimpseSame
<1> QED
  BY <1>8, <1>9, TableStep

LEMMA EndSweepTable ==
    ASSUME MInv, NEW g \in Goroutine, EndSweep(g)
    PROVE  Table!Next
<1>1. IInv /\ Types
  BY DEF MInv, IInv
<1>2. /\ task[g].pc \in {"partAll", "split"} /\ \A k \in task[g].todo : chanMap[k] = NoPtr
      /\ UNCHANGED <<chan, chanMap>> /\ task'[g] = Idle /\ OthersKept(g)
  BY <1>1, EndSweepEffect
<1>3. \A h \in Goroutine \ {g} : op'[h] = op[h]
  BY <1>1, <1>2, OthersOp DEF ChannelNamesKept, JoinsKept
<1>4. Table!End(g) /\ member' = member
  BY <1>2, <1>3, EndOp DEF member
<1>5. op[g].kind = "sweep" /\ op[g].todo = task[g].todo \cap Room
  BY <1>2, OpFields, Kinds
<1>6. \A r \in op[g].todo : member[r] \cap op[g].uids = {}
  BY <1>2, <1>5 DEF member
<1>7. Table!Return(g)
  BY <1>4, <1>5, <1>6 DEF Table!Return
<1>8. Table!Glimpse
  BY <1>1, <1>2, GlimpseSame DEF Idle
<1> QED
  BY <1>7, <1>8, TableStep

\* A call in the hands of which channel it is: that of a Join or a Part.
LEMMA OpOfChannel ==
    ASSUME IInv, NEW g \in Goroutine, task[g].ptr \in Ptr
    PROVE  /\ op[g].room = Low(task[g].ptr) /\ op[g].room \in Room
           /\ op[g].uids = task[g].uids
<1>1. task[g].ptr # NoPtr
  BY ChannelsAssumption
<1> QED
  BY <1>1, OpFields, RoomOfChannel DEF IInv

\* A step on channel p leaves the channels that Joins wait with as they are.
LEMMA OthersOpAt ==
    ASSUME IInv, NEW g \in Goroutine, NEW p \in Ptr, OthersKept(g), mutex[p] \in {NoOne, g},
           \A q \in Ptr : chan'[q].name = chan[q].name,
           \A q \in Ptr \ {p} : chanMap'[Low(q)] = q <=> chanMap[Low(q)] = q
    PROVE  \A h \in Goroutine \ {g} : op'[h] = op[h]
<1>1. \A h \in Goroutine \ {g} : task[h].pc = "joinMap" => task[h].ptr \in Ptr \ {p}
  BY WaitingLocks, ChannelsAssumption
<1> QED
  BY <1>1, OthersOp DEF ChannelNamesKept, JoinsKept

LEMMA JoinUsersTable ==
    ASSUME MInv, NEW g \in Goroutine, JoinUsers(g), ~orphaned
    PROVE  Table!Next
<1> DEFINE p == task[g].ptr
           users == chan[p].users
           uids == task[g].uids
<1>1. IInv /\ Types /\ MembersFindable
  BY DEF MInv, IInv
<1>2. /\ task[g].pc = "join" /\ p \in Ptr /\ mutex[p] = NoOne /\ uids # {}
      /\ chanMap' = chanMap /\ OthersKept(g) /\ OnlyChannel(p)
  BY <1>1, JoinUsersEffect
<1>3. \/ /\ uids \cap users = {} /\ chan'[p].users = users \cup uids
         /\ task'[g].pc = "joinMap" /\ task'[g].ptr = p
         /\ task'[g].uids = uids /\ task'[g].todo = task[g].todo
      \/ /\ uids \cap users # {} /\ task'[g] = Idle
         /\ \E entered \in SUBSET uids : chan'[p].users = users \cup entered
  BY <1>1, JoinUsersEffect
<1>4. op[g].kind = "join" /\ op[g].room = Low(p) /\ op[g].uids = uids /\ Low(p) \in Room
  BY <1>1, <1>2, OpFields, OpOfChannel, Kinds
<1>5. \A h \in Goroutine \ {g} : op'[h] = op[h]
  BY <1>1, <1>2, OthersOpAt DEF OnlyChannel
<1>6. Table!Glimpse
  <2>1. task'[g].pc # "part"
    BY <1>3 DEF Idle
  <2>2. \A q \in Ptr : chan[q].users \subseteq chan'[q].users
    BY <1>2, <1>3 DEF OnlyChannel
  <2> QED
    BY <1>1, <1>2, <2>1, <2>2, GlimpseSame
<1>7. users # {} => chanMap[Low(p)] = p
  BY <1>1, <1>2 DEF MembersFindable
<1>8. chanMap[Low(p)] = p => /\ member[Low(p)] = users
                             /\ member' = [member EXCEPT ![Low(p)] = chan'[p].users]
  BY <1>2, UsersMember
<1>9. chanMap[Low(p)] # p => member' = member
  BY <1>2, UsersMember
<1>10. ToLower(chan'[p].name) = Low(p)
  BY <1>2 DEF OnlyChannel, Low
<1>11. CASE uids \cap users # {}
  <2>1. PICK entered \in SUBSET uids : chan'[p].users = users \cup entered
    BY <1>3, <1>11
  <2>2. member' = [member EXCEPT ![Low(p)] = @ \cup entered] /\ member[Low(p)] = users
    BY <1>7, <1>8, <1>11, <2>1
  <2>3. Table!End(g)
    BY <1>3, <1>5, <1>11, EndOp
  <2>4. Table!EnterSome(g)
    BY <1>4, <1>11, <2>2, <2>3 DEF Table!EnterSome
  <2> QED
    BY <1>6, <2>4, TableStep
<1>12. CASE uids \cap users = {}
  <2>1. /\ chan'[p].users = users \cup uids /\ task'[g].pc = "joinMap" /\ task'[g].ptr = p
        /\ task'[g].uids = uids /\ task'[g].todo = task[g].todo
    BY <1>3, <1>12
  <2>2. p # NoPtr
    BY <1>2, ChannelsAssumption
  <2>3. op'[g] = [kind |-> IF chanMap[Low(p)] = p THEN "joined" ELSE "join",
                  room |-> Low(p), uids |-> uids, todo |-> task[g].todo \cap Room]
    BY <1>2, <1>10, <2>1, <2>2, Kinds DEF op, Low
  <2>4. op[g] = [kind |-> "join", room |-> Low(p), uids |-> uids, todo |-> task[g].todo \cap Room]
    BY <1>2, <2>2, Kinds DEF op
  <2>5. CASE chanMap[Low(p)] = p
    <3>1. op'[g] = [op[g] EXCEPT !.kind = "joined"]
      BY <2>3, <2>4, <2>5
    <3>2. Table!Set(g, [op[g] EXCEPT !.kind = "joined"])
      BY <1>5, <3>1, SetOp
    <3>3. member' = [member EXCEPT ![Low(p)] = @ \cup uids]
      BY <1>8, <2>1, <2>5
    <3>4. Table!Enter(g)
      BY <1>4, <1>8, <1>12, <2>5, <3>2, <3>3 DEF Table!Enter
    <3> QED
      BY <1>6, <3>4, TableStep
  <2>6. CASE chanMap[Low(p)] # p
    <3>1. op' = op
      BY <1>5, <2>3, <2>4, <2>6, OpSame
    <3> QED
      BY <1>6, <1>9, <2>6, <3>1 DEF Table!Next
  <2> QED
    BY <2>5, <2>6
<1> QED
  BY <1>11, <1>12

\* A Join that returns has entered its users in the room before, or does so now,
\* with the channel.
LEMMA JoinMapTable ==
    ASSUME CInv, NEW g \in Goroutine, JoinMap(g), ~orphaned'
    PROVE  Table!Next
<1> DEFINE p == task[g].ptr
           n == chan[p].name
<1>1. MInv /\ IInv /\ Types /\ SpelledStays /\ JoinAlone
  BY DEF CInv, MInv, IInv
<1>2. /\ task[g].pc = "joinMap" /\ p \in Ptr /\ mutex[p] = g /\ chan[p].users # {}
      /\ chan' = chan /\ ~orphaned /\ chanMap[n] \in {NoPtr, p}
      /\ task'[g] = Idle /\ OthersKept(g)
      /\ \A k \in Key \ {n} : chanMap'[k] = chanMap[k]
      /\ chanMap'[n] = p
  BY <1>1, JoinMapEffect
<1>3. p # NoPtr /\ Low(p) \in Room /\ Low(p) \in Key /\ (n \in Room => n = Low(p))
      /\ \A q \in Ptr : Low(q) \in Key
  BY <1>1, <1>2, RoomOfChannel, LowKey, ChannelsAssumption
<1>4. n # Low(p) => chanMap[Low(p)] = p
  <2>1. Alive(p)
    BY DEF Alive, Garbage
  <2> QED
    BY <1>1, <1>2, <2>1 DEF SpelledStays
<1> HIDE DEF n
<1>5. \A h \in Goroutine \ {g} : op'[h] = op[h]
  <2>1. \A q \in Ptr \ {p} : chanMap'[Low(q)] = q <=> chanMap[Low(q)] = q
    BY <1>2, <1>3, ChannelsAssumption
  <2> QED
    BY <1>1, <1>2, <2>1, OthersOpAt
<1>6. Table!End(g)
  BY <1>2, <1>5, EndOp
<1>7. Table!Glimpse
  BY <1>1, <1>2, GlimpseSame DEF Idle
<1>8. op[g].room = Low(p) /\ op[g].uids = task[g].uids
  BY <1>1, <1>2, OpOfChannel
<1>9. CASE chanMap[Low(p)] = p
  <2>1. op[g].kind = "joined"
    BY <1>2, <1>9, OpFields DEF Joined
  <2>2. ASSUME NEW r \in Room PROVE member'[r] = member[r]
    <3>1. chanMap'[r] = chanMap[r]
      BY <1>2, <1>3, <1>9, RoomIsKey
    <3> QED
      BY <1>2, <3>1, RoomKept
  <2>3. Table!Return(g)
    BY <1>6, <2>1, <2>2, MemberSame DEF Table!Return
  <2> QED
    BY <1>7, <2>3, TableStep
<1>10. CASE chanMap[Low(p)] # p
  <2>1. n = Low(p) /\ chanMap[n] = NoPtr
    BY <1>2, <1>4, <1>10
  <2>2. op[g].kind = "join"
    BY <1>2, <1>10, OpFields, Kinds DEF Joined
  <2>3. chan[p].users = task[g].uids
    BY <1>1, <1>2, <1>10 DEF JoinAlone
  <2>4. member[Low(p)] = {} /\ member'[Low(p)] = task[g].uids
    BY <1>2, <1>3, <2>1, <2>3 DEF member
  <2>5. \A r \in Room \ {Low(p)} : member'[r] = member[r]
    BY <1>2, <2>1, RoomIsKey, RoomKept
  <2>6. member' = [member EXCEPT ![Low(p)] = @ \cup task[g].uids]
    BY <1>3, <2>4, <2>5, MemberSet
  <2>7. Table!Enter(g)
    BY <1>6, <1>8, <2>2, <2>4, <2>6 DEF Table!Enter
  <2> QED
    BY <1>7, <2>7, TableStep
<1> QED
  BY <1>9, <1>10

\* A call of Part that misses its user has missed it in the room.
LEMMA PartUserTable ==
    ASSUME MInv, MInv', NEW g \in Goroutine, PartUser(g), ~orphaned
    PROVE  Table!Next
<1> DEFINE p == task[g].ptr
           users == chan[p].users
           uids == task[g].uids
<1>1. IInv /\ IInv' /\ Types /\ MembersFindable
  BY DEF MInv, IInv
<1>2. /\ task[g].pc = "part" /\ p \in Ptr /\ mutex[p] = NoOne
      /\ \E uid \in User : uids = {uid}
      /\ chanMap' = chanMap /\ OthersKept(g) /\ OnlyChannel(p)
      /\ chan'[p].users = users \ uids
  BY <1>1, PartUserEffect
<1>3. \/ task'[g] = Idle
      \/ /\ uids \subseteq users /\ task'[g].pc = "partMap" /\ task'[g].ptr = p
         /\ task'[g].uids = uids /\ task'[g].todo = task[g].todo
  BY <1>1, PartUserEffect
<1>4. op[g].kind = "part" /\ op[g].room = Low(p) /\ op[g].uids = uids /\ Low(p) \in Room
  BY <1>1, <1>2, OpFields, OpOfChannel, Kinds
<1>5. \A h \in Goroutine \ {g} : op'[h] = op[h]
  BY <1>1, <1>2, OthersOpAt DEF OnlyChannel
<1>6. users # {} => chanMap[Low(p)] = p
  BY <1>1, <1>2 DEF MembersFindable
<1>7. ToLower(chan'[p].name) = Low(p) /\ p # NoPtr
  BY <1>2, ChannelsAssumption DEF OnlyChannel, Low
<1>8. Table!Glimpse
  <2>1. ASSUME NEW h \in missed' \ missed
        PROVE  chanMap'[ToLower(chan'[task'[h].ptr].name)] \in {task'[h].ptr, NoPtr}
    <3>1. /\ h \in Goroutine /\ task'[h].pc = "part"
          /\ task'[h].uids \cap chan'[task'[h].ptr].users = {}
      BY DEF missed
    <3>2. h # g /\ task'[h] = task[h]
      BY <1>2, <1>3, <3>1 DEF OthersKept, Idle
    <3>3. task[h].ptr \in Ptr /\ task[h].uids \cap chan[task[h].ptr].users # {}
      BY <1>1, <3>1, <3>2 DEF missed, IInv, TaskShape, Shape
    <3>4. task[h].ptr = p /\ users # {}
      BY <1>2, <3>1, <3>2, <3>3 DEF OnlyChannel
    <3> QED
      BY <1>2, <1>6, <1>7, <3>2, <3>4
  <2> QED
    BY <1>1, <2>1, GlimpseStep
<1>9. CASE uids \subseteq users
  <2>1. chanMap[Low(p)] = p
    BY <1>2, <1>6, <1>9
  <2>2. member[Low(p)] = users /\ member' = [member EXCEPT ![Low(p)] = @ \ uids]
    BY <1>2, <2>1, UsersMember
  <2>3. Table!Set(g, [op[g] EXCEPT !.kind = "parted"]) \/ Table!End(g)
    <3>1. CASE task'[g] = Idle
      BY <1>5, <3>1, EndOp
    <3>2. CASE /\ task'[g].pc = "partMap" /\ task'[g].ptr = p
               /\ task'[g].uids = uids /\ task'[g].todo = task[g].todo
      <4>1. op'[g] = [kind |-> "parted", room |-> Low(p), uids |-> uids,
                      todo |-> task[g].todo \cap Room]
        BY <1>7, <3>2, Kinds DEF op, Low
      <4>2. op[g] = [kind |-> "part", room |-> Low(p), uids |-> uids,
                     todo |-> task[g].todo \cap Room]
        BY <1>2, <1>7, Kinds DEF op
      <4>3. op'[g] = [op[g] EXCEPT !.kind = "parted"]
        BY <4>1, <4>2
      <4> QED
        BY <1>5, <4>3, SetOp
    <3> QED
      BY <1>3, <3>1, <3>2
  <2>4. Table!Leave(g)
    BY <1>4, <1>9, <2>2, <2>3 DEF Table!Leave
  <2> QED
    BY <1>8, <2>4, TableStep
<1>10. CASE ~(uids \subseteq users)
  <2>1. g \in missed
    BY <1>2, <1>10 DEF missed
  <2>2. member' = member
    <3>1. chan'[p].users = users
      BY <1>2, <1>10
    <3>2. \A r \in Room : member'[r] = member[r]
      BY <1>2, <3>1, RoomEntry, RoomKept DEF OnlyChannel
    <3> QED
      BY <3>2, MemberSame
  <2>3. Table!NotThere(g)
    BY <1>3, <1>5, <1>10, <2>1, <2>2, EndOp DEF Table!NotThere
  <2> QED
    BY <1>8, <2>3, TableStep
<1> QED
  BY <1>9, <1>10

\* The channel that Part removes is the one of its room, and empty.
LEMMA PartMapTable ==
    ASSUME MInv, NEW g \in Goroutine, PartMap(g), ~orphaned
    PROVE  Table!Next
<1> DEFINE p == task[g].ptr
           n == chan[p].name
<1>1. IInv /\ Types /\ EmptiedFindable
  BY DEF MInv, IInv
<1>2. /\ task[g].pc = "partMap" /\ p \in Ptr /\ mutex[p] = g /\ chan[p].users = {}
      /\ chan' = chan /\ task'[g] = Idle /\ OthersKept(g)
      /\ chanMap'[n] = NoPtr /\ \A k \in Key \ {n} : chanMap'[k] = chanMap[k]
  BY <1>1, PartMapEffect
<1>3. chanMap[Low(p)] = p /\ p # NoPtr /\ Low(p) \in Room /\ (n \in Room => n = Low(p))
  BY <1>1, <1>2, RoomOfChannel, ChannelsAssumption DEF EmptiedFindable
<1>4. \A q \in Ptr \ {p} : chanMap'[Low(q)] = q <=> chanMap[Low(q)] = q
  <2>1. ASSUME NEW q \in Ptr \ {p}, chanMap'[Low(q)] = q PROVE chanMap[Low(q)] = q
    <3>1. q # NoPtr /\ Low(q) \in Key
      BY <1>1, LowKey, ChannelsAssumption
    <3> QED
      BY <1>2, <2>1, <3>1
  <2> QED
    BY <1>1, <1>2, <1>3, <2>1, DropOther
<1>5. \A h \in Goroutine \ {g} : op'[h] = op[h]
  BY <1>1, <1>2, <1>4, OthersOpAt
<1>6. Table!End(g)
  BY <1>2, <1>5, EndOp
<1>7. Table!Glimpse
  BY <1>1, <1>2, GlimpseSame DEF Idle
<1>8. ASSUME NEW r \in Room PROVE member'[r] = member[r]
  <2>1. CASE r = n
    <3>1. member[r] = {} /\ member'[r] = {}
      BY <1>2, <1>3, <2>1 DEF member
    <3> QED
      BY <3>1
  <2>2. CASE r # n
    BY <1>2, <2>2, RoomIsKey, RoomKept
  <2> QED
    BY <2>1, <2>2
<1>9. op[g].kind = "parted"
  BY <1>2, OpFields, Kinds
<1>10. Table!Return(g)
  BY <1>6, <1>8, <1>9, MemberSame DEF Table!Return
<1> QED
  BY <1>7, <1>10, TableStep

\* A channel that a sweep comes by is the one of its room.
LEMMA SweepTable ==
    ASSUME MInv, MInv', NEW g \in Goroutine, NEW k \in Key, chanMap[k] # NoPtr,
           PartAllStep(g, k) \/ ChanSplitStep(g, k), ~orphaned
    PROVE  Table!Next
<1> DEFINE p == chanMap[k]
           n == chan[p].name
           r == Low(p)
           users == chan[p].users
           uids == task[g].uids
<1>1. IInv /\ IInv' /\ Types /\ EntryNamed /\ SpelledStays
  BY DEF MInv, IInv
<1>2. /\ task[g].pc \in {"partAll", "split"} /\ p \in Ptr /\ mutex[p] = NoOne
      /\ OthersKept(g) /\ OnlyChannel(p) /\ chan'[p].users = users \ uids
      /\ task'[g].pc = task[g].pc /\ task'[g].ptr = task[g].ptr
      /\ task'[g].uids = uids /\ task'[g].todo = task[g].todo \ {k}
      /\ \A j \in Key \ {n} : chanMap'[j] = chanMap[j]
      /\ (chanMap'[n] = chanMap[n] \/ (chanMap'[n] = NoPtr /\ chan'[p].users = {}))
  BY <1>1, SweepEffect
<1>3. /\ p # NoPtr /\ r \in Room /\ r \in Key /\ (n \in Room => n = r)
      /\ (k \in Room => k = r)
  BY <1>1, <1>2, RoomOfChannel, LowKey, RoomEntry, ChannelsAssumption
<1>4. chanMap[r] = p
  <2>1. Alive(p)
    BY <1>3 DEF Alive, Garbage
  <2>2. n # r => chanMap[r] = p
    BY <1>1, <1>2, <2>1 DEF SpelledStays
  <2>3. n = r => k = r
    BY <1>1 DEF EntryNamed
  <2> QED
    BY <2>2, <2>3
<1>5. chanMap'[r] = p \/ (chanMap'[r] = NoPtr /\ chan'[p].users = {})
  BY <1>2, <1>3, <1>4
<1>6. ToLower(chan'[p].name) = r
  BY <1>2 DEF OnlyChannel, Low
<1>7. \A q \in Ptr \ {p} : chanMap'[Low(q)] = q <=> chanMap[Low(q)] = q
  <2>1. ASSUME NEW q \in Ptr \ {p}, chanMap'[Low(q)] = q PROVE chanMap[Low(q)] = q
    <3>1. q # NoPtr /\ Low(q) \in Key
      BY <1>1, LowKey, ChannelsAssumption
    <3> QED
      BY <1>2, <2>1, <3>1
  <2> QED
    BY <1>1, <1>2, <1>4, <2>1, DropOther
<1>8. \A h \in Goroutine \ {g} : op'[h] = op[h]
  BY <1>1, <1>2, <1>7, OthersOpAt DEF OnlyChannel
<1>9. member' = [member EXCEPT ![r] = @ \ uids]
  <2>1. member[r] = users /\ member'[r] = users \ uids
    BY <1>2, <1>3, <1>4, <1>5 DEF member
  <2>2. ASSUME NEW s \in Room \ {r} PROVE member'[s] = member[s]
    <3>1. chanMap'[s] = chanMap[s]
      BY <1>2, <1>3, RoomIsKey
    <3>2. chanMap[s] # NoPtr => chan'[chanMap[s]].users = chan[chanMap[s]].users
      BY <1>2, RoomEntry DEF OnlyChannel
    <3> QED
      BY <3>1, <3>2, RoomKept
  <2> QED
    BY <1>3, <2>1, <2>2, MemberSet
<1>10. op[g].kind = "sweep" /\ op[g].uids = uids /\ op[g].todo = task[g].todo \cap Room
  BY <1>2, OpFields, Kinds
<1> DEFINE room == IF task[g].ptr = NoPtr THEN NoPtr ELSE Low(task[g].ptr)
<1>11. op[g] = [kind |-> "sweep", room |-> room, uids |-> uids, todo |-> task[g].todo \cap Room]
  BY <1>2, Kinds DEF op
<1>12. op'[g] = [kind |-> "sweep", room |-> room, uids |-> uids,
                 todo |-> (task[g].todo \ {k}) \cap Room]
  <2>1. Low(task[g].ptr)' = Low(task[g].ptr) \/ task[g].ptr = NoPtr
    <3>1. task[g].ptr \in Ptr \cup {NoPtr}
      BY <1>1 DEF Types, Task
    <3> QED
      BY <1>2, <3>1 DEF OnlyChannel, Low
  <2> QED
    BY <1>2, <2>1, Kinds, ZenonT(40) DEF op
<1> HIDE DEF room
<1>13. Table!Visit(g, r)
  <2>1. CASE k \in Room
    <3>1. op'[g] = [op[g] EXCEPT !.todo = @ \ {r}]
      <4>1. (task[g].todo \ {k}) \cap Room = (task[g].todo \cap Room) \ {r}
        BY <1>3, <2>1
      <4> QED
        BY <1>11, <1>12, <4>1
    <3>2. Table!Set(g, [op[g] EXCEPT !.todo = @ \ {r}])
      BY <1>8, <3>1, SetOp
    <3> QED
      BY <1>9, <1>10, <3>2 DEF Table!Visit
  <2>2. CASE k \notin Room
    <3>1. op'[g] = op[g]
      <4>1. (task[g].todo \ {k}) \cap Room = task[g].todo \cap Room
        BY <2>2
      <4> QED
        BY <1>11, <1>12, <4>1
    <3>2. op' = op
      BY <1>8, <3>1, OpSame
    <3> QED
      BY <1>9, <1>10, <3>2 DEF Table!Visit
  <2> QED
    BY <2>1, <2>2
<1>14. Table!Glimpse
  <2>1. ASSUME NEW h \in missed' \ missed
        PROVE  chanMap'[ToLower(chan'[task'[h].ptr].name)] \in {task'[h].ptr, NoPtr}
    <3>1. /\ h \in Goroutine /\ task'[h].pc = "part"
          /\ task'[h].uids \cap chan'[task'[h].ptr].users = {}
      BY DEF missed
    <3>2. h # g /\ task'[h] = task[h]
      BY <1>2, <3>1 DEF OthersKept
    <3>3. task[h].ptr \in Ptr /\ task[h].uids \cap chan[task[h].ptr].users # {}
      BY <1>1, <3>1, <3>2 DEF missed, IInv, TaskShape, Shape
    <3>4. task[h].ptr = p
      BY <1>2, <3>1, <3>2, <3>3 DEF OnlyChannel
    <3> QED
      BY <1>5, <1>6, <3>2, <3>4
  <2> QED
    BY <1>1, <2>1, GlimpseStep
<1> QED
  BY <1>3, <1>13, <1>14, TableStep

-----------------------------------------------------------------------------

\* What Join runs into is never forgotten.
LEMMA OrphanedStays ==
    ASSUME Next, orphaned
    PROVE  orphaned'
<1>1. ASSUME NEW g \in Goroutine, NEW k \in Key, PartAllStep(g, k) \/ ChanSplitStep(g, k)
      PROVE  orphaned'
  BY <1>1 DEF PartAllStep, ChanSplitStep, Sweep
<1>2. ASSUME NEW g \in Goroutine, JoinMap(g)
      PROVE  orphaned'
  BY <1>2 DEF JoinMap
<1>3. ASSUME NEW g \in Goroutine,
             \/ \E name \in Name, uids \in (SUBSET User) \ {{}} : BeginJoin(g, name, uids)
             \/ \E name \in Name, uid \in User : BeginPart(g, name, uid)
             \/ JoinUsers(g) \/ PartUser(g) \/ PartMap(g) \/ EndSweep(g)
             \/ \E uid \in User : BeginSweep(g, "partAll", {uid})
             \/ \E uids \in (SUBSET User) \ {{}} : BeginSweep(g, "split", uids)
      PROVE  orphaned'
  BY <1>3 DEF BeginJoin, BeginPart, JoinUsers, PartUser, PartMap, EndSweep, BeginSweep
<1> QED
  BY <1>1, <1>2, <1>3 DEF Next

LEMMA NextTable ==
    ASSUME CInv, Next, ~orphaned'
    PROVE  Table!Next
<1>1. MInv /\ ~orphaned
  BY OrphanedStays DEF CInv
<1>2. MInv'
  BY <1>1, NextMInv
<1>3. ASSUME NEW g \in Goroutine, NEW name \in Name, NEW uids \in (SUBSET User) \ {{}},
             BeginJoin(g, name, uids)
      PROVE  Table!Next
  <2>1. PICK p \in Ptr : BeginCall(g, name, p, "join", uids)
    BY <1>3, BeginCalls
  <2>2. Table!BeginJoin(g) /\ Table!Glimpse
    BY <1>1, <1>2, <2>1, BeginTable DEF Table!BeginJoin
  <2> QED
    BY <2>2, TableStep
<1>4. ASSUME NEW g \in Goroutine, NEW name \in Name, NEW uid \in User, BeginPart(g, name, uid)
      PROVE  Table!Next
  <2>1. PICK p \in Ptr : BeginCall(g, name, p, "part", {uid})
    BY <1>4, BeginCalls
  <2>2. Table!BeginPart(g) /\ Table!Glimpse
    BY <1>1, <1>2, <2>1, BeginTable DEF Table!BeginPart
  <2> QED
    BY <2>2, TableStep
<1>5. ASSUME NEW g \in Goroutine, NEW uid \in User, BeginSweep(g, "partAll", {uid})
      PROVE  Table!Next
  BY <1>1, <1>5, BeginSweepTable
<1>6. ASSUME NEW g \in Goroutine, NEW uids \in (SUBSET User) \ {{}}, BeginSweep(g, "split", uids)
      PROVE  Table!Next
  BY <1>1, <1>6, BeginSweepTable
<1>7. ASSUME NEW g \in Goroutine,
             JoinUsers(g) \/ JoinMap(g) \/ PartUser(g) \/ PartMap(g) \/ EndSweep(g)
      PROVE  Table!Next
  BY <1>1, <1>2, <1>7, JoinUsersTable, JoinMapTable, PartUserTable, PartMapTable, EndSweepTable
<1>8. ASSUME NEW g \in Goroutine, NEW k \in Key, chanMap[k] # NoPtr,
             PartAllStep(g, k) \/ ChanSplitStep(g, k)
      PROVE  Table!Next
  BY <1>1, <1>2, <1>8, SweepTable
<1> QED
  BY <1>3, <1>4, <1>5, <1>6, <1>7, <1>8 DEF Next

LEMMA InitTable == Init => Table!Init
<1> SUFFICES ASSUME Init PROVE Table!Init
  OBVIOUS
<1>1. \A g \in Goroutine : /\ task[g].pc = "idle" /\ task[g].ptr = NoPtr
                           /\ task[g].uids = {} /\ task[g].todo = {}
  BY DEF Init, Idle
<1>2. member = [r \in Room |-> {}]
  BY RoomIsKey DEF Init, member
<1>3. \A g \in Goroutine : op[g] = Table!NoOp
  BY <1>1, Kinds DEF op, Table!NoOp
<1>4. op = [g \in Goroutine |-> Table!NoOp]
  <2>1. op = [g \in Goroutine |-> op[g]]
    BY DEF op
  <2> QED
    BY <1>3, <2>1
<1>5. missed = {}
  BY <1>1 DEF missed
<1> QED
  BY <1>2, <1>4, <1>5 DEF Table!Init

\* The channels implement the table of rooms: until a Join has run into another
\* channel under its name, each call takes effect once and as a whole for those
\* who look the channel up, or fails for a reason that held while it ran
\* (channel.go:94-243), in every interleaving and whatever pointers are stale.
THEOREM ImplementsTableCorrect == Spec => ImplementsTable
<1>1. CInv /\ [Next]_vars => [~orphaned' => Table!Next]_<<member, op, missed>>
  <2> SUFFICES ASSUME CInv, [Next]_vars, ~orphaned', ~UNCHANGED <<member, op, missed>>
               PROVE  Table!Next
    OBVIOUS
  <2>1. CASE Next
    BY <2>1, NextTable
  <2>2. CASE UNCHANGED vars
    <3>1. \A p : Low(p)' = Low(p)
      BY <2>2 DEF vars, Low
    <3>2. member' = member /\ op' = op /\ missed' = missed
      BY <2>2, <3>1 DEF vars, member, op, missed
    <3> QED
      BY <3>2
  <2> QED
    BY <2>1, <2>2
<1> QED
  BY <1>1, InitTable, CallsInvariance, PTL DEF Spec, ImplementsTable

=============================================================================
