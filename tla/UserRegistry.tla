---------------------------- MODULE UserRegistry ----------------------------
(***************************************************************************)
(* The user table of the daemon (src/ircd/user.go): User objects reached   *)
(* from userMap by id, and userNicks, the index from a folded nickname to  *)
(* the id that holds it.  Hook goroutines obtain a pointer with GetUser    *)
(* and call the methods of the object later, while manageClients deletes   *)
(* records and other goroutines import remote users: a goroutine may well  *)
(* act on an object that is no longer in userMap.                          *)
(*                                                                         *)
(* An object's address stands for the object.  An address no map and no    *)
(* goroutine refers to is garbage and may be used again.  A Go map is a    *)
(* total function with a value that stands for "no entry".                 *)
(***************************************************************************)
EXTENDS Util

CONSTANTS
    LocalID,    \* ids of the connections of this server
    RemoteID,   \* ids of users behind other servers
    Nick,       \* the strings clients and peers offer as nicknames
    UserName,   \* the user names they offer, the empty one excluded
    Ptr,        \* addresses of User objects
    Goroutine,  \* hook goroutines (ConnReg) at work at the same time
    NoUser, NoID, NoPtr

UID == LocalID \cup RemoteID

\* The nick of a record GetUser has just made.
Star == <<42>>

ASSUME RegistryAssumption ==
    /\ Nick \subseteq Seq(Nat)
    /\ Star \notin Nick
    /\ NoUser \notin UserName
    /\ NoID \notin UID
    /\ NoPtr \notin Ptr

Key == {ToLower(n) : n \in Nick}

VARIABLES
    heap,        \* the User objects
    userMap,     \* id -> object
    userNicks,   \* folded nick -> id
    held,        \* the object a goroutine works on
    setting,     \* the user name it is about to store (SetUser past its check)
    staleRename  \* history: SetNick has succeeded on an object not in userMap

vars == <<heap, userMap, userNicks, held, setting, staleRename>>

UserRecord == [id : UID \cup {NoID}, nick : Nick \cup {Star},
               user : UserName \cup {NoUser}, registered : BOOLEAN]

Types ==
    /\ heap \in [Ptr -> UserRecord]
    /\ userMap \in [UID -> Ptr \cup {NoPtr}]
    /\ userNicks \in [Key -> UID \cup {NoID}]
    /\ held \in [Goroutine -> Ptr \cup {NoPtr}]
    /\ setting \in [Goroutine -> UserName \cup {NoUser}]
    /\ staleRename \in BOOLEAN

\* The record GetUser makes, before it has an id.
NewUser == [id |-> NoID, nick |-> Star, user |-> NoUser, registered |-> FALSE]

Live(id) == userMap[id] # NoPtr
InMap(p) == \E id \in UID : userMap[id] = p

\* An address no map entry of m and no goroutine of h refers to is garbage;
\* the collector blanks it.
Unreferenced(p, m, h) == p \notin {m[id] : id \in UID} \cup {h[g] : g \in Goroutine}
Collected(m, h) == [p \in Ptr |-> IF Unreferenced(p, m, h) THEN NewUser ELSE heap[p]]
Garbage(p) == Unreferenced(p, userMap, held)

Init ==
    /\ heap = [p \in Ptr |-> NewUser]
    /\ userMap = [id \in UID |-> NoPtr]
    /\ userNicks = [k \in Key |-> NoID]
    /\ held = [g \in Goroutine |-> NoPtr]
    /\ setting = [g \in Goroutine |-> NoUser]
    /\ staleRename = FALSE

-----------------------------------------------------------------------------

\* GetUser: the record of id, made when there is none; p is its address.
GetUser(id, p) ==
    IF Live(id)
    THEN p = userMap[id] /\ UNCHANGED <<heap, userMap>>
    ELSE /\ Garbage(p)
         /\ heap' = [heap EXCEPT ![p] = [NewUser EXCEPT !.id = id]]
         /\ userMap' = [userMap EXCEPT ![id] = p]

\* manageClients for a new connection or a message, Burst for every user
\* it has listed: they read the record and keep nothing.
TouchUser(id) ==
    /\ \E p \in Ptr : GetUser(id, p)
    /\ UNCHANGED <<userNicks, held, setting, staleRename>>

\* ConnReg begins with GetUser and keeps the pointer until it returns.
BeginConnReg(g, id) ==
    /\ held[g] = NoPtr
    /\ \E p \in Ptr : GetUser(id, p) /\ held' = [held EXCEPT ![g] = p]
    /\ UNCHANGED <<userNicks, setting, staleRename>>

EndConnReg(g) ==
    /\ held[g] # NoPtr /\ setting[g] = NoUser
    /\ held' = [held EXCEPT ![g] = NoPtr]
    /\ heap' = Collected(userMap, held')
    /\ UNCHANGED <<userMap, userNicks, setting, staleRename>>

\* userNicks after delete(userNicks, k): nothing when k is no key.
Forget(nicks, k) == [key \in DOMAIN nicks |-> IF key = k THEN NoID ELSE nicks[key]]

\* Faulty variant of SetNickResult: the index is not consulted.
SetNickResultUnchecked(p, nick) ==
    IF ValidNick(nick) THEN "renamed" ELSE "ERR_ERRONEUSNICKNAME"

\* What SetNick answers: "ok" also for a nick the id holds already, which
\* then stays as it was spelled.
SetNickResult(p, nick) ==
    IF ~ValidNick(nick) THEN "ERR_ERRONEUSNICKNAME"
    ELSE IF userNicks[ToLower(nick)] = NoID THEN "renamed"
    ELSE IF userNicks[ToLower(nick)] = heap[p].id THEN "ok"
    ELSE "ERR_NICKNAMEINUSE"

\* The entry of the new nick is made first, that of the old one removed
\* after it, whoever holds it.
SetNick(g, nick) ==
    LET p == held[g] IN
    /\ p # NoPtr /\ setting[g] = NoUser
    /\ SetNickResult(p, nick) = "renamed"
    /\ userNicks' = Forget([userNicks EXCEPT ![ToLower(nick)] = heap[p].id],
                           ToLower(heap[p].nick))
    /\ heap' = [heap EXCEPT ![p].nick = nick]
    /\ staleRename' = (staleRename \/ ~InMap(p))
    /\ UNCHANGED <<userMap, held, setting>>

\* SetUser reads the field before it takes the lock ...
CheckUser(g, user) ==
    /\ held[g] # NoPtr /\ setting[g] = NoUser
    /\ heap[held[g]].user = NoUser
    /\ setting' = [setting EXCEPT ![g] = user]
    /\ UNCHANGED <<heap, userMap, userNicks, held, staleRename>>

\* ... and writes it under the lock.
StoreUser(g) ==
    /\ setting[g] # NoUser
    /\ heap' = [heap EXCEPT ![held[g]].user = setting[g]]
    /\ setting' = [setting EXCEPT ![g] = NoUser]
    /\ UNCHANGED <<userMap, userNicks, held, staleRename>>

\* Faulty variant of SetType: the nick alone lets a user in.
SetTypeByNick(g) ==
    LET p == held[g] IN
    /\ p # NoPtr /\ setting[g] = NoUser
    /\ heap[p].nick # Star /\ ~heap[p].registered
    /\ heap' = [heap EXCEPT ![p].registered = TRUE]
    /\ UNCHANGED <<userMap, userNicks, held, setting, staleRename>>

\* sendSignon, which ConnReg calls once Info shows a nick and a user name.
SetType(g) ==
    LET p == held[g] IN
    /\ p # NoPtr /\ setting[g] = NoUser
    /\ heap[p].nick # Star /\ heap[p].user # NoUser
    /\ ~heap[p].registered
    /\ heap' = [heap EXCEPT ![p].registered = TRUE]
    /\ UNCHANGED <<userMap, userNicks, held, setting, staleRename>>

\* Faulty variant of Delete: the nick is not folded at all.
DeleteUnfolded(id) ==
    /\ Live(id)
    /\ userNicks' = Forget(userNicks, heap[userMap[id]].nick)
    /\ userMap' = [userMap EXCEPT ![id] = NoPtr]
    /\ heap' = Collected(userMap', held)
    /\ UNCHANGED <<held, setting, staleRename>>

\* Delete folds the nick with strings.ToLower.
Delete(id) ==
    /\ Live(id)
    /\ userNicks' = Forget(userNicks, StringsToLower(heap[userMap[id]].nick))
    /\ userMap' = [userMap EXCEPT ![id] = NoPtr]
    /\ heap' = Collected(userMap', held)
    /\ UNCHANGED <<held, setting, staleRename>>

\* Faulty variant of ImportAccepts: no check for a "NICK collision".
ImportAcceptsAnyNick(uid, nick) == ~Live(uid)

\* Import refuses an id that is present ("UID collision") and a nick that is
\* taken ("NICK collision").
ImportAccepts(uid, nick) == ~Live(uid) /\ userNicks[ToLower(nick)] = NoID

Import(uid, nick, user) ==
    /\ ImportAccepts(uid, nick)
    /\ \E p \in Ptr :
         /\ Garbage(p)
         /\ heap' = [heap EXCEPT ![p] = [id |-> uid, nick |-> nick,
                                         user |-> user, registered |-> TRUE]]
         /\ userMap' = [userMap EXCEPT ![uid] = p]
    /\ userNicks' = [userNicks EXCEPT ![ToLower(nick)] = uid]
    /\ UNCHANGED <<held, setting, staleRename>>

Next ==
    \/ \E id \in UID : TouchUser(id) \/ Delete(id)
    \/ \E g \in Goroutine :
         \/ \E id \in LocalID : BeginConnReg(g, id)
         \/ \E nick \in Nick : SetNick(g, nick)
         \/ \E user \in UserName : CheckUser(g, user)
         \/ StoreUser(g) \/ SetType(g) \/ EndConnReg(g)
    \/ \E uid \in RemoteID, nick \in Nick, user \in UserName :
         Import(uid, nick, user)

Spec == Init /\ [][Next]_vars

-----------------------------------------------------------------------------

\* GetID for a nick (an id is never a nick).
GetID(nick) == userNicks[ToLower(nick)]

\* The tables have their types, and whoever is signed on has a nick and a user
\* name: Info asked for them (registration.go:89), and no method takes one away.
SignedOnNamed ==
    \A p \in Ptr : heap[p].registered => heap[p].nick # Star /\ heap[p].user # NoUser
TypeOK == Types /\ SignedOnNamed

HasNick(id) == Live(id) /\ heap[userMap[id]].nick # Star
NickOf(id) == heap[userMap[id]].nick
GoesBy(id, k) == HasNick(id) /\ ToLower(NickOf(id)) = k

\* As long as no goroutine has renamed an object that was already out of
\* userMap, a message to the nick a user shows reaches that user: the index
\* user.go:17 keeps agrees with the records, through renames, imports,
\* deletions and records that are made again.
NickOwned ==
    ~staleRename => \A id \in UID : HasNick(id) => GetID(NickOf(id)) = id

\* Consequence: no two users go by nicks that differ in case only, which is
\* what the ERR_NICKNAMEINUSE and "NICK collision" answers are for.
NickUnique ==
    ~staleRename => \A i, j \in UID :
        (HasNick(i) /\ GoesBy(j, ToLower(NickOf(i)))) => i = j

\* Entries outlive their user only under keys of one kind (again without stale
\* renames): those that some nick leads to by the IRC folding and not by
\* strings.ToLower, so that Delete (user.go:236) can look for a key SetNick never
\* made.  Under a key all of whose nicks fold alike no entry is left behind.
LeakOnlyFolded ==
    ~staleRename => \A k \in Key, id \in UID :
        (userNicks[k] = id /\ ~GoesBy(id, k))
        => \E n \in Nick : ToLower(n) = k /\ StringsToLower(n) # k

\* A nick never passes from one user to another in one step: it is free in
\* between (SetNick and Import both refuse an entry that exists).
NickStep == \A k \in Key : userNicks[k] \in {NoID, userNicks'[k]} \/ userNicks'[k] = NoID
NickHandover == [][NickStep]_vars

=============================================================================
