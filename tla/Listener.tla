------------------------------ MODULE Listener ------------------------------
(***************************************************************************)
(* The ports the daemon listens on (src/ircd/listener.go): a map of ports, *)
(* one goroutine for each that accepts connections and removes its entry   *)
(* when it ends, and the connections on their way into Incoming.  AddPort, *)
(* ClosePort and Close are called by one goroutine, in any order, as Start *)
(* and the tests do.  Nothing guards the map: an access while another      *)
(* goroutine is about to write it may end the process.                     *)
(***************************************************************************)
EXTENDS FiniteSets, Integers

CONSTANTS
    Port,
    Sock, NoSock,   \* net.Listeners
    MaxWaiting      \* bound: connections accepted and not yet received

ASSUME ListenerAssumption == IsFiniteSet(Sock) /\ NoSock \notin Sock /\ MaxWaiting \in Nat

VARIABLES
    ports,    \* Listener.ports
    sock,     \* the sockets, their ports and their goroutines
    wg,       \* Listener.wg
    waiting,  \* goroutines that are sending on Incoming
    call,     \* what the caller is doing
    crashed

vars == <<ports, sock, wg, waiting, call, crashed>>

Free(p) == [pc |-> "free", open |-> FALSE, port |-> p]
NoCall == [pc |-> "idle", todo |-> {}]

\* What a socket was used for before does not matter.
Init ==
    /\ ports = [p \in Port |-> NoSock]
    /\ sock \in [Sock -> {Free(p) : p \in Port}]
    /\ wg = 0 /\ waiting = 0
    /\ call = NoCall
    /\ crashed = FALSE

Become(l, pc) == sock' = [sock EXCEPT ![l].pc = pc]
At(pc) == ~crashed /\ call.pc = pc
Listed == {p \in Port : ports[p] # NoSock}

-----------------------------------------------------------------------------
(* The calls. *)

\* Faulty variant of AddPort: the map is not looked at first.
AddPortUnchecked(p) ==
    /\ At("idle")
    /\ call' = [pc |-> "listen", todo |-> {p}]
    /\ UNCHANGED <<ports, sock, wg, waiting, crashed>>

\* A port that has an entry is left alone.
AddPort(p) ==
    /\ At("idle")
    /\ call' = IF ports[p] = NoSock THEN [pc |-> "listen", todo |-> {p}] ELSE NoCall
    /\ UNCHANGED <<ports, sock, wg, waiting, crashed>>

\* net.Listen, which fails if the port is taken, here or elsewhere.
Listen(p) ==
    /\ At("listen") /\ p \in call.todo
    /\ \/ /\ \A l \in Sock : ~(sock[l].open /\ sock[l].port = p)
          /\ \E l \in Sock :
               /\ sock[l].pc = "free"
               /\ sock' = [sock EXCEPT ![l] = [pc |-> "bound", open |-> TRUE, port |-> p]]
          /\ call' = [call EXCEPT !.pc = "store"]
       \/ call' = NoCall /\ UNCHANGED sock
    /\ UNCHANGED <<ports, wg, waiting, crashed>>

\* The entry is made and the goroutine starts.
Store(l) ==
    /\ At("store") /\ sock[l].pc = "bound"
    /\ ports' = [ports EXCEPT ![sock[l].port] = l]
    /\ wg' = wg + 1
    /\ Become(l, "accept")
    /\ call' = NoCall
    /\ UNCHANGED <<waiting, crashed>>

\* The entry stays.  The connection that follows finds no one listening.
ClosePort(p) ==
    /\ At("idle") /\ ports[p] # NoSock
    /\ sock' = [sock EXCEPT ![ports[p]].open = FALSE]
    /\ UNCHANGED <<ports, wg, waiting, call, crashed>>

Close ==
    /\ At("idle")
    /\ call' = [pc |-> "close", todo |-> Listed]
    /\ UNCHANGED <<ports, sock, wg, waiting, crashed>>

\* Each entry that is still there when the loop comes to it.
CloseEach(p) ==
    /\ At("close") /\ p \in call.todo \cap Listed
    /\ sock' = [sock EXCEPT ![ports[p]].open = FALSE]
    /\ call' = [call EXCEPT !.todo = @ \ {p}]
    /\ UNCHANGED <<ports, wg, waiting, crashed>>

\* wg.Wait.
Wait ==
    /\ At("close") /\ call.todo \cap Listed = {}
    /\ call' = [pc |-> "wait", todo |-> {}]
    /\ UNCHANGED <<ports, sock, wg, waiting, crashed>>

Return ==
    /\ At("wait") /\ wg = 0
    /\ call' = NoCall
    /\ UNCHANGED <<ports, sock, wg, waiting, crashed>>

-----------------------------------------------------------------------------
(* The goroutines. *)

\* Every connection is sent to Incoming by a goroutine of its own.
Accept(l) ==
    /\ ~crashed /\ sock[l].pc = "accept" /\ sock[l].open /\ waiting < MaxWaiting
    /\ waiting' = waiting + 1
    /\ UNCHANGED <<ports, sock, wg, call, crashed>>

\* manageIncoming takes one, until it ends.
Receive ==
    /\ ~crashed /\ waiting > 0
    /\ waiting' = waiting - 1
    /\ UNCHANGED <<ports, sock, wg, call, crashed>>

\* Any error ends the loop: the socket has been closed, or the process has no
\* file left.
AcceptFails(l) ==
    /\ ~crashed /\ sock[l].pc = "accept"
    /\ Become(l, "delete")
    /\ UNCHANGED <<ports, wg, waiting, call, crashed>>

\* Faulty variant of DeleteEntry: it comes after the group has heard of the end.
DeleteEntryLate(l) ==
    /\ ~crashed
    /\ \/ sock[l].pc = "delete" /\ wg' = wg - 1 /\ Become(l, "late") /\ UNCHANGED ports
       \/ /\ sock[l].pc = "late" /\ Become(l, "closing")
          /\ ports' = [ports EXCEPT ![sock[l].port] = NoSock] /\ UNCHANGED wg
    /\ UNCHANGED <<waiting, call, crashed>>

DeleteEntry(l) ==
    /\ ~crashed /\ sock[l].pc = "delete"
    /\ ports' = [ports EXCEPT ![sock[l].port] = NoSock]
    /\ Become(l, "done")
    /\ UNCHANGED <<wg, waiting, call, crashed>>

\* The deferred calls: wg.Done, then listener.Close.
Done(l) ==
    /\ ~crashed /\ sock[l].pc = "done"
    /\ wg' = wg - 1
    /\ Become(l, "closing")
    /\ UNCHANGED <<ports, waiting, call, crashed>>

CloseSock(l) ==
    /\ ~crashed /\ sock[l].pc = "closing"
    /\ sock' = [sock EXCEPT ![l].pc = "free", ![l].open = FALSE]
    /\ UNCHANGED <<ports, wg, waiting, call, crashed>>

\* A goroutine removes its entry while the caller, or another goroutine, uses
\* the map.
MapRace ==
    /\ ~crashed
    /\ \E l \in Sock :
         /\ sock[l].pc = "delete"
         /\ \/ call.pc \in {"idle", "store", "close"}
            \/ \E m \in Sock \ {l} : sock[m].pc = "delete"
    /\ crashed' = TRUE
    /\ UNCHANGED <<ports, sock, wg, waiting, call>>

Next ==
    \/ \E p \in Port : AddPort(p) \/ Listen(p) \/ ClosePort(p) \/ CloseEach(p)
    \/ Close \/ Wait \/ Return \/ Receive \/ MapRace
    \/ \E l \in Sock :
         Store(l) \/ Accept(l) \/ AcceptFails(l) \/ DeleteEntry(l) \/ Done(l) \/ CloseSock(l)

Spec == Init /\ [][Next]_vars

-----------------------------------------------------------------------------

\* The goroutines the group counts: one that has called wg.Done has its deferred
\* listener.Close left (listener.go:37-38), and no one waits for that.
Awaited(l) == sock[l].pc \in {"accept", "delete", "done"}

\* Whoever accepts connections on a port is found there by ClosePort and Close:
\* the end of an earlier socket never takes the entry of a later one.  The group
\* counts the goroutines that have not called wg.Done.
OpenIsListed ==
    /\ \A l \in Sock : sock[l].pc = "accept" => ports[sock[l].port] = l
    /\ wg = Cardinality({l \in Sock : Awaited(l)})

\* "After Close(), ports should have 0 entries" (listener_test.go:39-41): Close
\* waits only for goroutines whose socket is closed or has failed, and when it
\* returns their entries are gone, too.  It does not say that the goroutines are
\* gone, which listener_test.go:42-44 counts: any number of them may still be at
\* their deferred listener.Close, and this is all that is left of them.
CloseComplete ==
    call.pc = "wait" =>
        /\ \A l \in Sock : sock[l].pc = "accept" => ~sock[l].open
        /\ wg = 0 => Listed = {} /\ \A l \in Sock : sock[l].pc \in {"free", "closing"}

=============================================================================
