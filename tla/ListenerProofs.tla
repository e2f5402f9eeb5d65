--------------------------- MODULE ListenerProofs ---------------------------
(***************************************************************************)
(* Proofs about Listener, for any ports and any finite set of sockets.     *)
(* OpenIsListed is inductive with two facts about the caller: the socket   *)
(* of an AddPort that is under way is one, and its port has no entry.      *)
(* CloseComplete needs that the loop of Close still has all ports ahead    *)
(* of it whose sockets are open.                                           *)
(***************************************************************************)
EXTENDS Listener, FiniteSetTheorems, TLAPS

SockPC == {"free", "bound", "accept", "delete", "done", "closing"}

TypeOK ==
    /\ ports \in [Port -> Sock \cup {NoSock}]
    /\ sock \in [Sock -> [pc : SockPC, open : BOOLEAN, port : Port]]
    /\ wg \in Nat /\ waiting \in Nat
    /\ call \in [pc : {"idle", "listen", "store", "close", "wait"}, todo : SUBSET Port]
    /\ crashed \in BOOLEAN

\* An entry leads to a socket of its port that accepts, or is about to remove
\* it; and all of those have their entry.
EntriesRun ==
    /\ \A l \in Sock : sock[l].pc \in {"accept", "delete"} => ports[sock[l].port] = l
    /\ \A p \in Port : ports[p] # NoSock =>
         sock[ports[p]].pc \in {"accept", "delete"} /\ sock[ports[p]].port = p

\* AddPort is in its second or third step.
Adding ==
    /\ \A l \in Sock : sock[l].pc = "bound" => call.pc = "store" /\ call.todo = {sock[l].port}
    /\ call.pc \in {"listen", "store"} => \A p \in call.todo : ports[p] = NoSock
    /\ call.pc = "listen" => \A p \in call.todo : call.todo = {p}
    /\ \A l, m \in Sock : sock[l].pc = "bound" /\ sock[m].pc = "bound" => l = m

Counted == wg = Cardinality({l \in Sock : Awaited(l)})

Closing ==
    \A l \in Sock : (sock[l].pc = "accept" /\ sock[l].open) =>
        /\ call.pc # "wait"
        /\ call.pc = "close" => sock[l].port \in call.todo

IInv == TypeOK /\ EntriesRun /\ Adding /\ Counted /\ Closing

-----------------------------------------------------------------------------

\* What a step does to the goroutine of one socket does to the count.
LEMMA CountUp ==
    ASSUME TypeOK, Counted, NEW l \in Sock, ~Awaited(l), Awaited(l)', wg' = wg + 1,
           \A m \in Sock \ {l} : Awaited(m)' = Awaited(m)
    PROVE  Counted'
<1> DEFINE R == {m \in Sock : Awaited(m)}
<1>1. {m \in Sock : Awaited(m)}' = R \cup {l}
  OBVIOUS
<1>2. IsFiniteSet(R) /\ l \notin R
  BY ListenerAssumption, FS_Subset
<1>3. Cardinality(R \cup {l}) = Cardinality(R) + 1
  BY <1>2, FS_AddElement
<1> QED
  BY <1>1, <1>3 DEF Counted

LEMMA CountDown ==
    ASSUME TypeOK, Counted, NEW l \in Sock, Awaited(l), ~Awaited(l)', wg' = wg - 1,
           \A m \in Sock \ {l} : Awaited(m)' = Awaited(m)
    PROVE  Counted' /\ wg' \in Nat
<1> DEFINE R == {m \in Sock : Awaited(m)}
<1>1. {m \in Sock : Awaited(m)}' = R \ {l}
  OBVIOUS
<1>2. IsFiniteSet(R) /\ l \in R
  BY ListenerAssumption, FS_Subset
<1>3. Cardinality(R \ {l}) = Cardinality(R) - 1
  BY <1>2, FS_RemoveElement
<1>4. Cardinality(R \ {l}) \in Nat
  BY <1>2, FS_RemoveElement, FS_CardinalityType
<1> QED
  BY <1>1, <1>3, <1>4 DEF Counted

LEMMA CountSame ==
    ASSUME Counted, wg' = wg, \A m \in Sock : Awaited(m)' = Awaited(m)
    PROVE  Counted'
<1>1. {m \in Sock : Awaited(m)}' = {m \in Sock : Awaited(m)}
  OBVIOUS
<1> QED
  BY <1>1 DEF Counted

LEMMA InitIInv == Init => IInv
<1> SUFFICES ASSUME Init PROVE IInv
  OBVIOUS
<1>1. TypeOK
  <2>1. \A p \in Port : Free(p) \in [pc : SockPC, open : BOOLEAN, port : Port]
    BY DEF Free, SockPC
  <2>2. sock \in [Sock -> [pc : SockPC, open : BOOLEAN, port : Port]]
    BY <2>1 DEF Init
  <2> QED
    BY <2>2 DEF Init, TypeOK, NoCall
<1>2. \A l \in Sock : sock[l].pc = "free"
  BY DEF Init, Free
<1>3. EntriesRun /\ Adding /\ Closing
  BY <1>2 DEF Init, EntriesRun, Adding, Closing, NoCall
<1>4. {l \in Sock : Awaited(l)} = {}
  BY <1>2 DEF Awaited
<1>5. Counted
  BY <1>4, FS_EmptySet DEF Counted, Init
<1> QED
  BY <1>1, <1>3, <1>5 DEF IInv

\* The steps of the caller but for Store.
LEMMA CallIInv ==
    ASSUME IInv,
           \/ \E p \in Port : AddPort(p) \/ Listen(p) \/ ClosePort(p) \/ CloseEach(p)
           \/ Close \/ Wait \/ Return
    PROVE  IInv'
<1> USE DEF IInv, At, NoCall, Listed, SockPC
<1>1. ASSUME NEW p \in Port, AddPort(p) PROVE IInv'
  <2>1. Counted'
    BY <1>1, CountSame DEF AddPort, Awaited
  <2> QED
    BY <1>1, <2>1 DEF AddPort, TypeOK, EntriesRun, Adding, Closing
<1>2. ASSUME NEW p \in Port, Listen(p) PROVE IInv'
  <2>1. CASE UNCHANGED sock /\ call' = NoCall
    <3>1. Counted'
      BY <1>2, <2>1, CountSame DEF Listen, Awaited
    <3>2. \A l \in Sock : sock[l].pc # "bound"
      BY <1>2 DEF Listen, Adding
    <3> QED
      BY <1>2, <2>1, <3>1, <3>2 DEF Listen, TypeOK, EntriesRun, Adding, Closing
  <2>2. ASSUME NEW l \in Sock, sock[l].pc = "free",
               sock' = [sock EXCEPT ![l] = [pc |-> "bound", open |-> TRUE, port |-> p]],
               call' = [call EXCEPT !.pc = "store"]
        PROVE  IInv'
    <3>1. TypeOK'
      BY <1>2, <2>2 DEF Listen, TypeOK
    <3>2. /\ \A m \in Sock \ {l} : sock'[m] = sock[m]
          /\ sock'[l].pc = "bound" /\ sock'[l].port = p
      BY <2>2 DEF TypeOK
    <3>3. Counted'
      BY <1>2, <2>2, <3>2, CountSame DEF Listen, Awaited
    <3>4. EntriesRun'
      BY <1>2, <2>2, <3>2 DEF Listen, EntriesRun, TypeOK
    <3>5. Adding'
      <4>1. /\ call.pc = "listen" /\ call'.pc = "store" /\ call'.todo = call.todo /\ p \in call.todo
            /\ ports' = ports
        BY <1>2, <2>2 DEF Listen, TypeOK
      <4>2. call.todo = {p}
        BY <4>1 DEF Adding
      <4> QED
        BY <3>2, <4>1, <4>2 DEF Adding
    <3>6. Closing'
      BY <1>2, <2>2, <3>2 DEF Listen, Closing, TypeOK
    <3> QED
      BY <3>1, <3>3, <3>4, <3>5, <3>6
  <2> QED
    BY <1>2, <2>1, <2>2 DEF Listen
<1>3. ASSUME NEW p \in Port, ClosePort(p) \/ CloseEach(p) PROVE IInv'
  <2>1. ports[p] \in Sock
    BY <1>3 DEF ClosePort, CloseEach, TypeOK
  <2>2. /\ sock' = [sock EXCEPT ![ports[p]].open = FALSE]
        /\ ports' = ports /\ wg' = wg /\ waiting' = waiting /\ crashed' = crashed
        /\ call' = call \/ (call.pc = "close" /\ call' = [call EXCEPT !.todo = @ \ {p}])
    BY <1>3 DEF ClosePort, CloseEach
  <2>3. /\ \A m \in Sock : sock'[m].pc = sock[m].pc /\ sock'[m].port = sock[m].port
        /\ \A m \in Sock : sock'[m].open => sock[m].open /\ m # ports[p]
    BY <2>1, <2>2 DEF TypeOK
  <2>4. TypeOK'
    BY <2>1, <2>2, ZenonT(40) DEF TypeOK
  <2>5. Counted'
    BY <2>2, <2>3, CountSame DEF Awaited
  <2>6. EntriesRun' /\ Adding'
    BY <2>1, <2>2, <2>3 DEF EntriesRun, Adding, TypeOK
  <2>7. Closing'
    BY <2>1, <2>2, <2>3 DEF EntriesRun, Closing, TypeOK
  <2> QED
    BY <2>4, <2>5, <2>6, <2>7
<1>4. ASSUME Close \/ Wait \/ Return PROVE IInv'
  <2>1. Counted'
    BY <1>4, CountSame DEF Close, Wait, Return, Awaited
  <2>2. EntriesRun' /\ Adding' /\ TypeOK'
    BY <1>4 DEF Close, Wait, Return, EntriesRun, Adding, TypeOK
  <2>3. Closing'
    BY <1>4, ListenerAssumption DEF Close, Wait, Return, EntriesRun, Closing, TypeOK
  <2> QED
    BY <2>1, <2>2, <2>3
<1> QED
  BY <1>1, <1>2, <1>3, <1>4

LEMMA StoreIInv ==
    ASSUME IInv, NEW l \in Sock, Store(l)
    PROVE  IInv'
<1> USE DEF IInv, At, NoCall, SockPC, Become
<1>1. TypeOK'
  BY DEF Store, TypeOK
<1>2. /\ \A m \in Sock \ {l} : sock'[m] = sock[m]
      /\ sock'[l].pc = "accept" /\ sock'[l].port = sock[l].port /\ sock[l].pc = "bound"
  BY DEF Store, TypeOK
<1>3. Counted'
  <2>1. ~Awaited(l) /\ Awaited(l)' /\ \A m \in Sock \ {l} : Awaited(m)' = Awaited(m)
    BY <1>2 DEF Awaited
  <2> QED
    BY <2>1, CountUp DEF Store
<1>4. ports[sock[l].port] = NoSock
  BY <1>2 DEF Store, Adding, TypeOK
<1>5. EntriesRun'
  BY <1>2, <1>4, ListenerAssumption DEF Store, EntriesRun, TypeOK
<1>6. Adding'
  BY <1>2 DEF Store, Adding, TypeOK
<1>7. Closing'
  BY <1>2 DEF Store, Closing, TypeOK
<1> QED
  BY <1>1, <1>3, <1>5, <1>6, <1>7

LEMMA GoroutineIInv ==
    ASSUME IInv, NEW l \in Sock, AcceptFails(l) \/ DeleteEntry(l) \/ Done(l) \/ CloseSock(l)
    PROVE  IInv'
<1> USE DEF IInv, SockPC, Become
<1>1. /\ \A m \in Sock \ {l} : sock'[m] = sock[m]
      /\ sock'[l].port = sock[l].port /\ sock'[l].pc \notin {"bound", "accept"}
      /\ sock[l].pc # "bound" /\ call' = call
  BY DEF AcceptFails, DeleteEntry, Done, CloseSock, TypeOK
<1>2. CASE AcceptFails(l) \/ DeleteEntry(l) \/ CloseSock(l)
  <2>1. Awaited(l)' = Awaited(l) /\ wg' = wg
    BY <1>2 DEF AcceptFails, DeleteEntry, CloseSock, Awaited, TypeOK
  <2>2. Counted'
    BY <1>1, <2>1, CountSame DEF Awaited
  <2>3. TypeOK'
    BY <1>2, ListenerAssumption DEF AcceptFails, DeleteEntry, CloseSock, TypeOK
  <2>4. /\ sock[l].pc \in {"accept", "delete", "closing"}
        /\ ports' = IF sock[l].pc = "delete" THEN [ports EXCEPT ![sock[l].port] = NoSock] ELSE ports
        /\ sock'[l].pc = "delete" <=> sock[l].pc = "accept"
    BY <1>2 DEF AcceptFails, DeleteEntry, CloseSock, TypeOK
  <2>5. EntriesRun'
    BY <1>1, <2>4, ListenerAssumption DEF TypeOK, EntriesRun
  <2>6. Adding'
    BY <1>1, <2>4 DEF TypeOK, Adding
  <2>7. Closing'
    BY <1>1 DEF TypeOK, Closing
  <2> QED
    BY <2>2, <2>3, <2>5, <2>6, <2>7
<1>3. CASE Done(l)
  <2>1. Awaited(l) /\ ~Awaited(l)' /\ \A m \in Sock \ {l} : Awaited(m)' = Awaited(m)
    BY <1>1, <1>3 DEF Done, Awaited, TypeOK
  <2>2. Counted' /\ wg' \in Nat
    BY <1>3, <2>1, CountDown DEF Done
  <2>3. TypeOK'
    BY <1>3, <2>2 DEF Done, TypeOK
  <2> QED
    BY <1>1, <1>3, <2>2, <2>3 DEF Done, TypeOK, EntriesRun, Adding, Closing
<1> QED
  BY <1>2, <1>3

THEOREM Inductive == Spec => []IInv
<1>1. IInv /\ [Next]_vars => IInv'
  <2> SUFFICES ASSUME IInv, [Next]_vars PROVE IInv'
    OBVIOUS
  <2>1. CASE Receive \/ MapRace \/ (\E l \in Sock : Accept(l)) \/ UNCHANGED vars
    <3>1. ports' = ports /\ sock' = sock /\ wg' = wg /\ call' = call
      BY <2>1 DEF Receive, MapRace, Accept, vars
    <3>2. waiting' \in {waiting, waiting + 1} \/ (waiting > 0 /\ waiting' = waiting - 1)
      BY <2>1 DEF Receive, MapRace, Accept, vars
    <3>3. waiting' \in Nat
      BY <3>2 DEF IInv, TypeOK
    <3>4. crashed' \in BOOLEAN
      BY <2>1 DEF Receive, MapRace, Accept, vars, IInv, TypeOK
    <3>5. Counted'
      BY <3>1, CountSame DEF IInv, Awaited
    <3> QED
      BY <3>1, <3>3, <3>4, <3>5 DEF IInv, TypeOK, EntriesRun, Adding, Closing
  <2> QED
    BY <2>1, CallIInv, StoreIInv, GoroutineIInv DEF Next
<1> QED
  BY <1>1, InitIInv, PTL DEF Spec

\* Whoever accepts connections on a port is found there, and the group counts
\* the goroutines that have not ended.
THEOREM OpenIsListedCorrect == Spec => []OpenIsListed
<1>1. IInv => OpenIsListed
  BY DEF IInv, EntriesRun, Counted, OpenIsListed
<1> QED
  BY <1>1, Inductive, PTL

\* Close waits for nothing that stays.  It leaves no entry behind, and of the
\* goroutines only their deferred listener.Close.
THEOREM CloseCompleteCorrect == Spec => []CloseComplete
<1>1. IInv => CloseComplete
  <2> SUFFICES ASSUME IInv, call.pc = "wait" PROVE CloseComplete
    BY DEF CloseComplete
  <2>1. \A l \in Sock : sock[l].pc = "accept" => ~sock[l].open
    BY DEF IInv, Closing, TypeOK
  <2>2. ASSUME wg = 0 PROVE \A l \in Sock : sock[l].pc \in {"free", "closing"}
    <3>1. IsFiniteSet({l \in Sock : Awaited(l)})
      BY ListenerAssumption, FS_Subset
    <3>2. {l \in Sock : Awaited(l)} = {}
      BY <2>2, <3>1, FS_EmptySet DEF IInv, Counted
    <3>3. \A l \in Sock : sock[l].pc # "bound"
      BY DEF IInv, Adding
    <3> QED
      BY <3>2, <3>3 DEF Awaited, IInv, TypeOK, SockPC
  <2>3. ASSUME wg = 0 PROVE Listed = {}
    BY <2>2, <2>3 DEF IInv, EntriesRun, TypeOK, Listed, Awaited
  <2> QED
    BY <2>1, <2>2, <2>3 DEF CloseComplete
<1> QED
  BY <1>1, Inductive, PTL

=============================================================================
