------------------------- MODULE UserRegistryProofs -------------------------
(***************************************************************************)
(* Proofs about the user table, for any sets of ids, nicks, addresses and  *)
(* goroutines.                                                             *)
(***************************************************************************)
EXTENDS UserRegistry, SequenceTheorems, TLAPS

\* A code point the folding of package strings takes to an image of the IRC
\* folding is one the two agree on.
LEMMA RunesAgree ==
    ASSUME NEW r \in Nat, NEW q \in Nat, StringsLowerRune(r) = LowerRune(q)
    PROVE  StringsLowerRune(r) = LowerRune(r)
BY DEF StringsLowerRune, LowerRune

\* When the folding of package strings produces a key of the index at all, it
\* produces the key SetNick made for that nick: Delete never removes the
\* entry of another nick.
LEMMA FoldingsAgree ==
    ASSUME NEW n \in Seq(Nat), NEW m \in Seq(Nat),
           StringsToLower(n) = ToLower(m)
    PROVE  StringsToLower(n) = ToLower(n)
<1>1. DOMAIN n = DOMAIN m
  BY DEF StringsToLower, ToLower
<1>2. \A i \in DOMAIN n : n[i] \in Nat /\ m[i] \in Nat
  BY <1>1, LenProperties
<1>3. ASSUME NEW i \in DOMAIN n
      PROVE  StringsLowerRune(n[i]) = LowerRune(n[i])
  <2>1. StringsLowerRune(n[i]) = LowerRune(m[i])
    BY <1>1, <1>3 DEF StringsToLower, ToLower
  <2> QED
    BY <1>2, <2>1, RunesAgree
<1> QED
  BY <1>3 DEF StringsToLower, ToLower

\* The nick of a new record is no key: deleting it changes nothing.
LEMMA StarIsNoKey ==
    ToLower(Star) \notin Key /\ StringsToLower(Star) \notin Key
<1>1. ToLower(Star) = Star /\ StringsToLower(Star) = Star
  BY DEF ToLower, StringsToLower, LowerRune, StringsLowerRune, Star
<1>2. ASSUME NEW n \in Nick, ToLower(n) = Star
      PROVE  FALSE
  <2>1. n \in Seq(Nat) /\ n # Star
    BY RegistryAssumption
  <2>2. DOMAIN n = 1..Len(n) /\ Len(n) \in Nat /\ \A i \in 1..Len(n) : n[i] \in Nat
    BY <2>1, LenProperties
  <2>3. DOMAIN n = 1..1
    BY <1>2 DEF ToLower, Star
  <2>4. Len(n) = 1
    <3> DEFINE k == Len(n)
    <3>1. 1..k = 1..1 /\ k \in Nat
      BY <2>2, <2>3
    <3> HIDE DEF k
    <3>2. 1 \in 1..k
      BY <3>1
    <3>3. k \in 1..k
      BY <3>1, <3>2
    <3>4. k \in 1..1
      BY <3>1, <3>3, Zenon
    <3> QED
      BY <3>4 DEF k
  <2>5. n[1] \in Nat /\ LowerRune(n[1]) = 42
    BY <1>2, <2>2, <2>4 DEF ToLower, Star
  <2>6. n[1] = 42
    BY <2>5 DEF LowerRune
  <2> QED
    BY <2>1, <2>2, <2>4, <2>6 DEF Star
<1> QED
  BY <1>1, <1>2 DEF Key

LEMMA NickFold ==
    ASSUME NEW n \in Nick
    PROVE  ToLower(n) \in Key /\ n # Star /\ n \in Seq(Nat)
BY RegistryAssumption DEF Key

-----------------------------------------------------------------------------

\* What every action keeps of the types, and that a record carries the id
\* under which userMap lists it.
IdMatches == \A id \in UID : Live(id) => heap[userMap[id]].id = id

\* A goroutine that is about to store a user name holds an object.
SetterHolds == \A g \in Goroutine : setting[g] # NoUser => held[g] # NoPtr

IInv == Types /\ IdMatches /\ SetterHolds

LEMMA NewUserType == NewUser \in UserRecord
BY DEF NewUser, UserRecord

\* The collector keeps the types, and blanks no object a map refers to.
LEMMA CollectedType ==
    ASSUME Types, NEW m, NEW h
    PROVE  /\ Collected(m, h) \in [Ptr -> UserRecord]
           /\ \A p \in Ptr : (\E id \in UID : m[id] = p) => Collected(m, h)[p] = heap[p]
BY NewUserType DEF Types, Collected, Unreferenced

LEMMA ForgetType ==
    ASSUME NEW nicks \in [Key -> UID \cup {NoID}], NEW k
    PROVE  /\ Forget(nicks, k) \in [Key -> UID \cup {NoID}]
           /\ \A key \in Key : Forget(nicks, k)[key] = IF key = k THEN NoID ELSE nicks[key]
BY DEF Forget

\* GetUser leaves every object that was in userMap where and as it is; an
\* object it makes is new in userMap, has the id and shows no nick.
LEMMA GetUserStep ==
    ASSUME Types, IdMatches, NEW id \in UID, NEW p \in Ptr, GetUser(id, p)
    PROVE  /\ heap' \in [Ptr -> UserRecord]
           /\ userMap' \in [UID -> Ptr \cup {NoPtr}]
           /\ IdMatches'
           /\ \A j \in UID : HasNick(j)' => HasNick(j) /\ NickOf(j)' = NickOf(j)
           /\ \A j \in UID : HasNick(j) => HasNick(j)' /\ NickOf(j)' = NickOf(j)
<1>1. CASE Live(id)
  BY <1>1 DEF GetUser, Types, IdMatches, Live, HasNick, NickOf
<1>2. CASE ~Live(id)
  <2>1. /\ \A j \in UID : userMap[j] # p
        /\ heap' = [heap EXCEPT ![p] = [NewUser EXCEPT !.id = id]]
        /\ userMap' = [userMap EXCEPT ![id] = p]
    BY <1>2 DEF GetUser, Garbage, Unreferenced
  <2>2. /\ [NewUser EXCEPT !.id = id] \in UserRecord
        /\ [NewUser EXCEPT !.id = id].id = id
        /\ [NewUser EXCEPT !.id = id].nick = Star
    BY DEF NewUser, UserRecord
  <2>3. heap' \in [Ptr -> UserRecord] /\ userMap' \in [UID -> Ptr \cup {NoPtr}]
    BY <2>1, <2>2 DEF Types
  <2>4. /\ userMap'[id] = p /\ p # NoPtr
        /\ heap'[p].id = id /\ heap'[p].nick = Star
    BY <2>1, <2>2, RegistryAssumption DEF Types
  <2>5. ASSUME NEW j \in UID, j # id
        PROVE  userMap'[j] = userMap[j] /\ (Live(j) => heap'[userMap[j]] = heap[userMap[j]])
    BY <2>1, <2>5 DEF Types, Live
  <2> QED
    BY <1>2, <2>3, <2>4, <2>5 DEF IdMatches, Live, HasNick, NickOf
<1> QED
  BY <1>1, <1>2

-----------------------------------------------------------------------------

LEMMA InitIInv == Init => IInv
BY NewUserType, RegistryAssumption
   DEF Init, IInv, Types, IdMatches, SetterHolds, Live

LEMMA NextIInv == IInv /\ [Next]_vars => IInv'
<1> SUFFICES ASSUME IInv, [Next]_vars
             PROVE  IInv'
  OBVIOUS
<1> USE DEF IInv
<1>1. ASSUME NEW id \in UID, TouchUser(id)
      PROVE  IInv'
  BY <1>1, GetUserStep DEF TouchUser, Types, SetterHolds
<1>2. ASSUME NEW id \in UID, Delete(id)
      PROVE  IInv'
  <2>1. Types'
    BY <1>2, CollectedType, ForgetType DEF Delete, Types
  <2>2. IdMatches'
    <3> SUFFICES ASSUME NEW j \in UID, Live(j)'
                 PROVE  (heap[userMap[j]].id = j)'
      BY DEF IdMatches
    <3>1. userMap'[j] = userMap[j] /\ Live(j) /\ userMap'[j] \in Ptr
      BY <1>2 DEF Delete, Types, Live
    <3>2. ~Unreferenced(userMap'[j], userMap', held)
      BY DEF Unreferenced
    <3>3. heap'[userMap'[j]] = heap[userMap'[j]]
      BY <1>2, <3>1, <3>2 DEF Delete, Collected
    <3> QED
      BY <3>1, <3>3 DEF IdMatches
  <2> QED
    BY <1>2, <2>1, <2>2 DEF Delete, SetterHolds
<1>3. ASSUME NEW g \in Goroutine, NEW id \in LocalID, BeginConnReg(g, id)
      PROVE  IInv'
  <2> PICK p \in Ptr : GetUser(id, p) /\ held' = [held EXCEPT ![g] = p]
    BY <1>3 DEF BeginConnReg
  <2>1. id \in UID
    BY DEF UID
  <2>2. Types' /\ IdMatches'
    BY <1>3, <2>1, GetUserStep DEF BeginConnReg, Types
  <2>3. SetterHolds'
    BY <1>3, RegistryAssumption DEF BeginConnReg, SetterHolds, Types
  <2> QED
    BY <2>2, <2>3
<1>4. ASSUME NEW g \in Goroutine, NEW nick \in Nick, SetNick(g, nick)
      PROVE  IInv'
  <2> DEFINE p == held[g]
  <2>1. p \in Ptr /\ heap[p].id \in UID \cup {NoID} /\ ToLower(nick) \in Key
    BY <1>4, NickFold DEF SetNick, Types, UserRecord
  <2>2. /\ heap' = [heap EXCEPT ![p].nick = nick]
        /\ heap'[p] \in UserRecord /\ heap'[p].id = heap[p].id
    BY <1>4, <2>1 DEF SetNick, Types, UserRecord
  <2>3. userNicks' \in [Key -> UID \cup {NoID}]
    BY <1>4, <2>1, ForgetType DEF SetNick, Types
  <2>4. Types'
    BY <1>4, <2>1, <2>2, <2>3 DEF SetNick, Types
  <2>5. IdMatches' /\ SetterHolds'
    BY <1>4, <2>1, <2>2 DEF SetNick, Types, IdMatches, SetterHolds, Live
  <2> QED
    BY <2>4, <2>5
<1>5. ASSUME NEW g \in Goroutine, NEW user \in UserName, CheckUser(g, user)
      PROVE  IInv'
  BY <1>5 DEF CheckUser, Types, IdMatches, SetterHolds, Live
<1>6. ASSUME NEW g \in Goroutine, StoreUser(g)
      PROVE  IInv'
  <2>1. held[g] \in Ptr /\ setting[g] \in UserName
    BY <1>6 DEF StoreUser, SetterHolds, Types
  <2>2. /\ heap' = [heap EXCEPT ![held[g]].user = setting[g]]
        /\ heap'[held[g]] \in UserRecord /\ heap'[held[g]].id = heap[held[g]].id
    BY <1>6, <2>1 DEF StoreUser, Types, UserRecord
  <2> QED
    BY <1>6, <2>1, <2>2 DEF StoreUser, Types, IdMatches, SetterHolds, Live
<1>7. ASSUME NEW g \in Goroutine, SetType(g)
      PROVE  IInv'
  <2>1. held[g] \in Ptr
    BY <1>7 DEF SetType, Types
  <2>2. /\ heap' = [heap EXCEPT ![held[g]].registered = TRUE]
        /\ heap'[held[g]] \in UserRecord /\ heap'[held[g]].id = heap[held[g]].id
    BY <1>7, <2>1, ZenonT(40) DEF SetType, Types, UserRecord
  <2> QED
    BY <1>7, <2>1, <2>2 DEF SetType, Types, IdMatches, SetterHolds, Live
<1>8. ASSUME NEW g \in Goroutine, EndConnReg(g)
      PROVE  IInv'
  <2>1. heap' \in [Ptr -> UserRecord]
    BY <1>8, CollectedType DEF EndConnReg
  <2>2. ASSUME NEW j \in UID, Live(j)
        PROVE  heap'[userMap[j]] = heap[userMap[j]]
    BY <1>8, <2>2, CollectedType DEF EndConnReg, Types, Live
  <2> QED
    BY <1>8, <2>1, <2>2 DEF EndConnReg, Types, IdMatches, SetterHolds, Live
<1>9. ASSUME NEW uid \in RemoteID, NEW nick \in Nick, NEW user \in UserName,
             Import(uid, nick, user)
      PROVE  IInv'
  <2> DEFINE rec == [id |-> uid, nick |-> nick, user |-> user, registered |-> TRUE]
  <2>1. PICK p \in Ptr : /\ Garbage(p)
                         /\ heap' = [heap EXCEPT ![p] = rec]
                         /\ userMap' = [userMap EXCEPT ![uid] = p]
    BY <1>9 DEF Import
  <2>2. uid \in UID /\ rec \in UserRecord /\ ToLower(nick) \in Key
    BY NickFold DEF UID, UserRecord
  <2>3. Types'
    BY <1>9, <2>1, <2>2 DEF Import, Types
  <2>4. \A j \in UID : userMap[j] # p
    BY <2>1 DEF Garbage, Unreferenced
  <2>5. IdMatches'
    BY <2>1, <2>2, <2>4 DEF Types, IdMatches, Live
  <2> QED
    BY <1>9, <2>3, <2>5 DEF Import, SetterHolds
<1>10. CASE UNCHANGED vars
  BY <1>10 DEF vars, Types, IdMatches, SetterHolds, Live
<1> QED
  BY <1>1, <1>2, <1>3, <1>4, <1>5, <1>6, <1>7, <1>8, <1>9, <1>10 DEF Next

LEMMA Invariance == Spec => []IInv
BY InitIInv, NextIInv, PTL DEF Spec

\* What is signed on stays complete: the nick is replaced by another one, the
\* user name by another one, and a blanked record is not signed on.
LEMMA SignedOnNamedStep ==
    ASSUME IInv, SignedOnNamed, [Next]_vars
    PROVE  SignedOnNamed'
<1> SUFFICES ASSUME NEW p \in Ptr, heap'[p].registered
             PROVE  heap'[p].nick # Star /\ heap'[p].user # NoUser
  BY DEF SignedOnNamed
<1> USE DEF IInv
<1>1. heap' = heap => heap'[p].nick # Star /\ heap'[p].user # NoUser
  BY DEF SignedOnNamed
<1>2. \A m, h : heap' = Collected(m, h) => heap'[p].nick # Star /\ heap'[p].user # NoUser
  BY DEF SignedOnNamed, Collected, NewUser
<1>3. ASSUME NEW q \in Ptr, NEW id \in UID, GetUser(id, q)
      PROVE  heap'[p].nick # Star /\ heap'[p].user # NoUser
  BY <1>1, <1>3 DEF GetUser, SignedOnNamed, NewUser, Types
<1>4. ASSUME NEW id \in UID, TouchUser(id) \/ Delete(id)
      PROVE  heap'[p].nick # Star /\ heap'[p].user # NoUser
  BY <1>2, <1>3, <1>4 DEF TouchUser, Delete
<1>5. ASSUME NEW g \in Goroutine, NEW id \in LocalID, BeginConnReg(g, id)
      PROVE  heap'[p].nick # Star /\ heap'[p].user # NoUser
  BY <1>3, <1>5 DEF BeginConnReg, UID
<1>6. ASSUME NEW g \in Goroutine, NEW nick \in Nick, SetNick(g, nick)
      PROVE  heap'[p].nick # Star /\ heap'[p].user # NoUser
  <2>1. heap' = [heap EXCEPT ![held[g]].nick = nick] /\ nick # Star
    BY <1>6, RegistryAssumption DEF SetNick
  <2>2. heap[p] \in UserRecord
    BY DEF Types
  <2> QED
    BY <2>1, <2>2 DEF SignedOnNamed, Types, UserRecord
<1>7. ASSUME NEW g \in Goroutine, StoreUser(g)
      PROVE  heap'[p].nick # Star /\ heap'[p].user # NoUser
  <2>1. heap' = [heap EXCEPT ![held[g]].user = setting[g]] /\ setting[g] # NoUser
    BY <1>7 DEF StoreUser
  <2>2. heap[p] \in UserRecord
    BY DEF Types
  <2> QED
    BY <2>1, <2>2 DEF SignedOnNamed, Types, UserRecord
<1>8. ASSUME NEW g \in Goroutine, SetType(g)
      PROVE  heap'[p].nick # Star /\ heap'[p].user # NoUser
  <2>1. /\ heap' = [heap EXCEPT ![held[g]].registered = TRUE]
        /\ heap[held[g]].nick # Star /\ heap[held[g]].user # NoUser
    BY <1>8 DEF SetType
  <2>2. heap[p] \in UserRecord
    BY DEF Types
  <2> QED
    BY <2>1, <2>2 DEF SignedOnNamed, Types, UserRecord
<1>9. ASSUME NEW uid \in RemoteID, NEW nick \in Nick, NEW user \in UserName,
             Import(uid, nick, user)
      PROVE  heap'[p].nick # Star /\ heap'[p].user # NoUser
  BY <1>9, RegistryAssumption DEF Import, SignedOnNamed, Types
<1> QED
  BY <1>1, <1>2, <1>4, <1>5, <1>6, <1>7, <1>8, <1>9 DEF Next, vars, CheckUser, EndConnReg

\* Every pointer the table and the hook goroutines hold is that of an object,
\* every key of the nick index a folded nick, and a record that is signed on is
\* complete (Info asks for both, registration.go:89).
THEOREM TypeCorrect == Spec => []TypeOK
<1>1. Init => SignedOnNamed
  BY DEF Init, SignedOnNamed, NewUser
<1>2. IInv => Types
  BY DEF IInv
<1>3. IInv /\ SignedOnNamed /\ [Next]_vars => SignedOnNamed'
  BY SignedOnNamedStep
<1> QED
  BY <1>1, <1>2, <1>3, Invariance, PTL DEF Spec, TypeOK

-----------------------------------------------------------------------------

\* The index and the records together: neither half is inductive without the
\* other's types, and both hold only until a stale rename.
NInv == IInv /\ NickOwned /\ LeakOnlyFolded

\* A step that renames no record and leaves the index alone.
LEMMA SameNicks ==
    ASSUME NickOwned, LeakOnlyFolded,
           userNicks' = userNicks, staleRename' = staleRename,
           \A j \in UID : (HasNick(j)' <=> HasNick(j))
                           /\ (HasNick(j) => NickOf(j)' = NickOf(j)),
           Types
    PROVE  NickOwned' /\ LeakOnlyFolded'
<1>1. NickOwned'
  BY DEF NickOwned, GetID
<1>2. LeakOnlyFolded'
  <2> SUFFICES ASSUME ~staleRename, NEW k \in Key, NEW i \in UID,
                      userNicks[k] = i, ~GoesBy(i, k)'
               PROVE  \E n \in Nick : ToLower(n) = k /\ StringsToLower(n) # k
    BY DEF LeakOnlyFolded
  <2>1. ~GoesBy(i, k)
    BY DEF GoesBy
  <2> QED
    BY <2>1 DEF LeakOnlyFolded
<1> QED
  BY <1>1, <1>2

\* Delete takes out the entry of the deleted user or none.
LEMMA DeleteNInv ==
    ASSUME NInv, NEW id \in UID, Delete(id)
    PROVE  NickOwned' /\ LeakOnlyFolded'
<1> USE DEF NInv, IInv
<1> DEFINE old == heap[userMap[id]].nick
           gone == StringsToLower(old)
<1>1. /\ Live(id) /\ userMap[id] \in Ptr /\ old \in Nick \cup {Star}
      /\ staleRename' = staleRename
      /\ \A k \in Key : userNicks'[k] = IF k = gone THEN NoID ELSE userNicks[k]
      /\ userMap' = [userMap EXCEPT ![id] = NoPtr]
  BY ForgetType DEF Delete, Types, Live, UserRecord
<1>2. ~HasNick(id)' /\ ~Live(id)'
  BY <1>1 DEF HasNick, Live, Types
<1>3. ASSUME NEW j \in UID, j # id
      PROVE  (HasNick(j)' <=> HasNick(j)) /\ (HasNick(j) => NickOf(j)' = NickOf(j))
  <2>1. userMap'[j] = userMap[j]
    BY <1>1, <1>3 DEF Types
  <2>2. CASE ~Live(j)
    BY <2>1, <2>2 DEF HasNick, Live
  <2>3. CASE Live(j)
    <3>1. userMap[j] \in Ptr /\ ~Unreferenced(userMap[j], userMap', held)
      BY <2>1, <2>3 DEF Live, Types, Unreferenced
    <3>2. heap'[userMap'[j]] = heap[userMap[j]]
      BY <2>1, <3>1 DEF Delete, Collected
    <3> QED
      BY <2>1, <3>2 DEF HasNick, NickOf, Live
  <2> QED
    BY <2>2, <2>3
<1>4. ASSUME gone \in Key
      PROVE  old \in Nick /\ gone = ToLower(old)
  <2>1. old \in Nick
    BY <1>1, <1>4, StarIsNoKey
  <2>2. PICK m \in Nick : gone = ToLower(m)
    BY <1>4 DEF Key
  <2> QED
    BY <2>1, <2>2, NickFold, FoldingsAgree
<1>5. NickOwned'
  <2> SUFFICES ASSUME ~staleRename, NEW j \in UID, HasNick(j)'
               PROVE  userNicks'[ToLower(NickOf(j)')] = j
    BY <1>1 DEF NickOwned, GetID
  <2>1. j # id /\ HasNick(j) /\ NickOf(j)' = NickOf(j)
    BY <1>2, <1>3
  <2>2. userNicks[ToLower(NickOf(j))] = j
    BY <2>1 DEF NickOwned, GetID
  <2>3. NickOf(j) \in Nick
    BY <2>1 DEF NickOf, HasNick, Live, Types, UserRecord
  <2>4. ToLower(NickOf(j)) \in Key
    BY <2>3, NickFold
  <2>5. ToLower(NickOf(j)) # gone
    <3> SUFFICES ASSUME ToLower(NickOf(j)) = gone
                 PROVE  FALSE
      OBVIOUS
    <3>1. gone = ToLower(old) /\ old # Star
      BY <1>4, <2>4, NickFold
    <3>2. userNicks[ToLower(old)] = id
      BY <1>1, <3>1 DEF NickOwned, GetID, HasNick, NickOf
    <3> QED
      BY <2>1, <2>2, <3>1, <3>2
  <2> QED
    BY <1>1, <2>1, <2>2, <2>4, <2>5
<1>6. LeakOnlyFolded'
  <2> SUFFICES ASSUME ~staleRename, NEW k \in Key, NEW i \in UID,
                      userNicks'[k] = i, ~GoesBy(i, k)'
               PROVE  \E n \in Nick : ToLower(n) = k /\ StringsToLower(n) # k
    BY <1>1 DEF LeakOnlyFolded
  <2>1. k # gone /\ userNicks[k] = i
    BY <1>1, RegistryAssumption
  <2>2. CASE GoesBy(i, k)
    <3>1. i = id
      BY <1>3, <2>2 DEF GoesBy
    <3>2. old \in Nick /\ ToLower(old) = k
      BY <1>1, <2>2, <3>1 DEF GoesBy, HasNick, NickOf
    <3> QED
      BY <2>1, <3>2
  <2>3. CASE ~GoesBy(i, k)
    BY <2>1, <2>3 DEF LeakOnlyFolded
  <2> QED
    BY <2>2, <2>3
<1> QED
  BY <1>5, <1>6

\* SetNick takes a key only when it is free.
LEMMA SetNickGuard ==
    ASSUME Types, NEW g \in Goroutine, NEW nick \in Nick, SetNick(g, nick)
    PROVE  held[g] \in Ptr /\ userNicks[ToLower(nick)] = NoID
<1>1. held[g] # NoPtr /\ SetNickResult(held[g], nick) = "renamed"
  BY DEF SetNick
<1>2. userNicks[ToLower(nick)] = NoID
  BY <1>1 DEF SetNickResult
<1> QED
  BY <1>1, <1>2 DEF Types

LEMMA SetNickIndex ==
    ASSUME Types, NEW g \in Goroutine, NEW nick \in Nick, SetNick(g, nick)
    PROVE  \A k \in Key : userNicks'[k] =
               IF k = ToLower(heap[held[g]].nick) THEN NoID
               ELSE IF k = ToLower(nick) THEN heap[held[g]].id ELSE userNicks[k]
<1> DEFINE made == [userNicks EXCEPT ![ToLower(nick)] = heap[held[g]].id]
<1>1. heap[held[g]].id \in UID \cup {NoID}
  BY SetNickGuard DEF Types, UserRecord
<1>2. /\ made \in [Key -> UID \cup {NoID}]
      /\ \A k \in Key : made[k] = IF k = ToLower(nick) THEN heap[held[g]].id ELSE userNicks[k]
  BY <1>1 DEF Types
<1>3. userNicks' = Forget(made, ToLower(heap[held[g]].nick))
  BY DEF SetNick
<1> HIDE DEF made
<1> QED
  BY <1>2, <1>3, ForgetType

\* A rename of a record that is in userMap moves its entry and no other.
LEMMA SetNickNInv ==
    ASSUME NInv, NEW g \in Goroutine, NEW nick \in Nick, SetNick(g, nick)
    PROVE  NickOwned' /\ LeakOnlyFolded'
<1> USE DEF NInv, IInv
<1> DEFINE p == held[g]
           key == ToLower(nick)
           old == heap[p].nick
<1>1. /\ p \in Ptr /\ key \in Key /\ old \in Nick \cup {Star}
      /\ userNicks[key] = NoID
      /\ heap' = [heap EXCEPT ![p].nick = nick]
      /\ userMap' = userMap
      /\ staleRename' = (staleRename \/ ~InMap(p))
  <2>1. p \in Ptr /\ key \in Key /\ userNicks[key] = NoID
    BY NickFold, SetNickGuard
  <2>2. old \in Nick \cup {Star}
    BY <2>1 DEF Types, UserRecord
  <2> QED
    BY <2>1, <2>2 DEF SetNick
<1> SUFFICES ASSUME ~staleRename'
             PROVE  NickOwned' /\ LeakOnlyFolded'
  BY DEF NickOwned, LeakOnlyFolded
<1>2. PICK id \in UID : userMap[id] = p
  BY <1>1 DEF InMap
<1>3. ~staleRename /\ heap[p].id = id /\ Live(id)
  BY <1>1, <1>2, RegistryAssumption DEF IdMatches, Live
<1>4. \A k \in Key : userNicks'[k] = IF k = ToLower(old) THEN NoID
                                     ELSE IF k = key THEN id ELSE userNicks[k]
  BY <1>1, <1>3, SetNickIndex
<1>5. ASSUME NEW j \in UID
      PROVE  /\ j = id => HasNick(j)' /\ NickOf(j)' = nick
             /\ j # id => (HasNick(j)' <=> HasNick(j)) /\ (HasNick(j) => NickOf(j)' = NickOf(j))
  <2>1. j # id /\ Live(j) => userMap[j] # p
    BY <1>2, <1>3 DEF IdMatches
  <2>2. nick # Star /\ heap'[p].nick = nick
    BY <1>1, NickFold DEF Types, UserRecord
  <2> QED
    BY <1>1, <1>2, <1>3, <2>1, <2>2 DEF HasNick, NickOf, Live, Types
<1>6. ToLower(old) \in Key => userNicks[ToLower(old)] = id /\ GoesBy(id, ToLower(old))
  BY <1>1, <1>2, <1>3, StarIsNoKey DEF NickOwned, GetID, GoesBy, HasNick, NickOf
<1>7. key # ToLower(old)
  BY <1>1, <1>6, RegistryAssumption
<1>8. NickOwned'
  <2> SUFFICES ASSUME NEW j \in UID, HasNick(j)'
               PROVE  userNicks'[ToLower(NickOf(j)')] = j
    BY DEF NickOwned, GetID
  <2>1. CASE j = id
    BY <1>1, <1>4, <1>5, <1>7, <2>1
  <2>2. CASE j # id
    <3>1. HasNick(j) /\ NickOf(j)' = NickOf(j) /\ userNicks[ToLower(NickOf(j))] = j
      BY <1>3, <1>5, <2>2 DEF NickOwned, GetID
    <3>2. NickOf(j) \in Nick
      BY <3>1 DEF NickOf, HasNick, Live, Types, UserRecord
    <3>3. ToLower(NickOf(j)) \in Key
      BY <3>2, NickFold
    <3>4. ToLower(NickOf(j)) # ToLower(old) /\ ToLower(NickOf(j)) # key
      BY <1>1, <1>6, <2>2, <3>1, <3>3, RegistryAssumption
    <3> QED
      BY <1>4, <3>1, <3>3, <3>4
  <2> QED
    BY <2>1, <2>2
<1>9. LeakOnlyFolded'
  <2> SUFFICES ASSUME NEW k \in Key, NEW i \in UID, userNicks'[k] = i, ~GoesBy(i, k)'
               PROVE  \E n \in Nick : ToLower(n) = k /\ StringsToLower(n) # k
    BY DEF LeakOnlyFolded
  <2>1. k # ToLower(old)
    BY <1>4, RegistryAssumption
  <2>2. k # key
    BY <1>4, <1>5, <2>1 DEF GoesBy
  <2>3. userNicks[k] = i
    BY <1>4, <2>1, <2>2
  <2>4. ~GoesBy(i, k)
    <3>1. CASE i = id
      BY <1>2, <2>1, <3>1 DEF GoesBy, NickOf
    <3>2. CASE i # id
      BY <1>5, <3>2 DEF GoesBy
    <3> QED
      BY <3>1, <3>2
  <2> QED
    BY <1>3, <2>3, <2>4 DEF LeakOnlyFolded
<1> QED
  BY <1>8, <1>9

\* Import takes a free key and a free id.
LEMMA ImportNInv ==
    ASSUME NInv, NEW uid \in RemoteID, NEW nick \in Nick, NEW user \in UserName,
           Import(uid, nick, user)
    PROVE  NickOwned' /\ LeakOnlyFolded'
<1> USE DEF NInv, IInv
<1> DEFINE key == ToLower(nick)
           rec == [id |-> uid, nick |-> nick, user |-> user, registered |-> TRUE]
<1>1. PICK p \in Ptr : /\ Garbage(p)
                       /\ heap' = [heap EXCEPT ![p] = rec]
                       /\ userMap' = [userMap EXCEPT ![uid] = p]
  BY DEF Import
<1>2. /\ uid \in UID /\ key \in Key /\ nick # Star
      /\ ~Live(uid) /\ userNicks[key] = NoID /\ staleRename' = staleRename
      /\ userNicks' = [userNicks EXCEPT ![key] = uid]
  BY NickFold DEF Import, ImportAccepts, UID
<1>3. HasNick(uid)' /\ NickOf(uid)' = nick
  BY <1>1, <1>2, RegistryAssumption DEF HasNick, NickOf, Live, Types
<1>4. ASSUME NEW j \in UID, j # uid
      PROVE  (HasNick(j)' <=> HasNick(j)) /\ (HasNick(j) => NickOf(j)' = NickOf(j))
  BY <1>1, <1>4 DEF Garbage, Unreferenced, HasNick, NickOf, Live, Types
<1>5. NickOwned'
  <2> SUFFICES ASSUME ~staleRename, NEW j \in UID, HasNick(j)'
               PROVE  userNicks'[ToLower(NickOf(j)')] = j
    BY <1>2 DEF NickOwned, GetID
  <2>1. CASE j = uid
    BY <1>2, <1>3, <2>1 DEF Types
  <2>2. CASE j # uid
    <3>1. HasNick(j) /\ NickOf(j)' = NickOf(j) /\ userNicks[ToLower(NickOf(j))] = j
      BY <1>4, <2>2 DEF NickOwned, GetID
    <3> QED
      BY <1>2, <3>1, RegistryAssumption DEF Types
  <2> QED
    BY <2>1, <2>2
<1>6. LeakOnlyFolded'
  <2> SUFFICES ASSUME ~staleRename, NEW k \in Key, NEW i \in UID,
                      userNicks'[k] = i, ~GoesBy(i, k)'
               PROVE  \E n \in Nick : ToLower(n) = k /\ StringsToLower(n) # k
    BY <1>2 DEF LeakOnlyFolded
  <2>1. k # key
    BY <1>2, <1>3 DEF GoesBy, Types
  <2>2. userNicks[k] = i
    BY <1>2, <2>1 DEF Types
  <2>3. ~GoesBy(i, k)
    BY <1>2, <1>4 DEF GoesBy, HasNick
  <2> QED
    BY <2>2, <2>3 DEF LeakOnlyFolded
<1> QED
  BY <1>5, <1>6

LEMMA NextNInv == NInv /\ [Next]_vars => NInv'
<1> SUFFICES ASSUME NInv, [Next]_vars
             PROVE  NickOwned' /\ LeakOnlyFolded'
  BY NextIInv DEF NInv
<1> USE DEF NInv, IInv
<1>1. ASSUME NEW id \in UID, TouchUser(id)
      PROVE  NickOwned' /\ LeakOnlyFolded'
  BY <1>1, GetUserStep, SameNicks DEF TouchUser
<1>2. ASSUME NEW g \in Goroutine, NEW id \in LocalID, BeginConnReg(g, id)
      PROVE  NickOwned' /\ LeakOnlyFolded'
  <2>1. id \in UID
    BY DEF UID
  <2> QED
    BY <1>2, <2>1, GetUserStep, SameNicks DEF BeginConnReg
<1>3. ASSUME NEW g \in Goroutine, EndConnReg(g)
      PROVE  NickOwned' /\ LeakOnlyFolded'
  <2>1. ASSUME NEW j \in UID, Live(j)
        PROVE  heap'[userMap[j]] = heap[userMap[j]]
    BY <1>3, <2>1, CollectedType DEF EndConnReg, Types, Live
  <2> QED
    BY <1>3, <2>1, SameNicks DEF EndConnReg, HasNick, NickOf, Live
<1>4. ASSUME NEW g \in Goroutine, NEW user \in UserName, CheckUser(g, user)
      PROVE  NickOwned' /\ LeakOnlyFolded'
  BY <1>4, SameNicks DEF CheckUser, HasNick, NickOf, Live
<1>5. ASSUME NEW g \in Goroutine, StoreUser(g) \/ SetType(g)
      PROVE  NickOwned' /\ LeakOnlyFolded'
  <2>1. held[g] \in Ptr
    BY <1>5 DEF StoreUser, SetType, SetterHolds, Types
  <2>2. \A p \in Ptr : heap'[p].nick = heap[p].nick
    BY <1>5, <2>1 DEF StoreUser, SetType, Types, UserRecord
  <2>3. userMap' = userMap /\ userNicks' = userNicks /\ staleRename' = staleRename
    BY <1>5 DEF StoreUser, SetType
  <2> QED
    BY <2>2, <2>3, SameNicks DEF HasNick, NickOf, Live, Types
<1>6. CASE UNCHANGED vars
  BY <1>6, SameNicks DEF vars, HasNick, NickOf, Live
<1> QED
  BY <1>1, <1>2, <1>3, <1>4, <1>5, <1>6, DeleteNInv, SetNickNInv, ImportNInv DEF Next

LEMMA InitNInv == Init => NInv
BY InitIInv, RegistryAssumption
   DEF Init, NInv, NickOwned, LeakOnlyFolded, HasNick, GoesBy, Live

LEMMA NickInvariance == Spec => []NInv
BY InitNInv, NextNInv, PTL DEF Spec

\* A user is found under the nick it shows, whatever is renamed, imported,
\* deleted or made again around it, until a goroutine renames an object that
\* was already deleted.
THEOREM NickIndexCorrect == Spec => []NickOwned
<1>1. NInv => NickOwned
  BY DEF NInv
<1> QED
  BY <1>1, NickInvariance, PTL

\* Until then no two users share a folded nick.
THEOREM NicksDistinct == Spec => []NickUnique
<1>1. NInv => NickUnique
  BY DEF NInv, NickOwned, NickUnique, GetID, GoesBy
<1> QED
  BY <1>1, NickInvariance, PTL

\* Until then an entry is left behind only by a nick the foldings disagree on.
THEOREM LeaksBounded == Spec => []LeakOnlyFolded
<1>1. NInv => LeakOnlyFolded
  BY DEF NInv
<1> QED
  BY <1>1, NickInvariance, PTL

\* Without any such condition: a nick changes hands only by way of being free.
THEOREM NickHandoverCorrect == Spec => NickHandover
<1>1. IInv /\ [Next]_vars => [NickStep]_vars
  <2> SUFFICES ASSUME IInv, Next, NEW k \in Key
               PROVE  userNicks[k] \in {NoID, userNicks'[k]} \/ userNicks'[k] = NoID
    BY DEF NickStep
  <2> USE DEF IInv
  <2>1. ASSUME NEW id \in UID, Delete(id)
        PROVE  userNicks'[k] \in {NoID, userNicks[k]}
    BY <2>1, ForgetType DEF Delete, Types
  <2>2. ASSUME NEW g \in Goroutine, NEW nick \in Nick, SetNick(g, nick)
        PROVE  userNicks[k] \in {NoID, userNicks'[k]} \/ userNicks'[k] = NoID
    <3>1. userNicks[ToLower(nick)] = NoID /\ held[g] \in Ptr
      BY <2>2, SetNickGuard
    <3> QED
      BY <2>2, <3>1, SetNickIndex
  <2>3. ASSUME NEW uid \in RemoteID, NEW nick \in Nick, NEW user \in UserName,
               Import(uid, nick, user)
        PROVE  userNicks[k] \in {NoID, userNicks'[k]}
    BY <2>3 DEF Import, ImportAccepts, Types
  <2> QED
    BY <2>1, <2>2, <2>3 DEF Next, TouchUser, BeginConnReg, EndConnReg, CheckUser,
       StoreUser, SetType
<1> QED
  BY <1>1, Invariance, PTL DEF Spec, NickHandover

=============================================================================
