---------------------------- MODULE ChannelTable ----------------------------
(***************************************************************************)
(* What the channels of the daemon (src/ircd/channel.go) promise to their  *)
(* callers: each room has members, and a call takes effect once, between   *)
(* its beginning and its end.  There are no objects, pointers, spellings   *)
(* or locks; module Channels implements this one.                          *)
(***************************************************************************)
CONSTANTS Room, User, Caller, NoRoom

VARIABLES
    member,  \* who is in a room
    op,      \* the call that a caller has made
    missed   \* the callers of Part whose user has not been in the room at a
             \* time since the call, and who may be told so

vars == <<member, op, missed>>

NoOp == [kind |-> "none", room |-> NoRoom, uids |-> {}, todo |-> {}]

Init ==
    /\ member = [r \in Room |-> {}]
    /\ op = [g \in Caller |-> NoOp]
    /\ missed = {}

Set(g, o) == op' = [op EXCEPT ![g] = o]
End(g) == Set(g, NoOp)

Idle(g) == op[g].kind = "none" /\ UNCHANGED member
Begun(kind, room, uids, todo) == [kind |-> kind, room |-> room, uids |-> uids, todo |-> todo]

BeginJoin(g) ==
    Idle(g) /\ \E r \in Room, uids \in (SUBSET User) \ {{}} : Set(g, Begun("join", r, uids, {}))

BeginPart(g) ==
    Idle(g) /\ \E r \in Room, uid \in User : Set(g, Begun("part", r, {uid}, {}))

\* PartAll and ChanSplit have to visit the rooms that their users are in.
BeginSweep(g) ==
    /\ Idle(g)
    /\ \E uids \in SUBSET User, todo \in SUBSET Room :
         /\ Set(g, Begun("sweep", NoRoom, uids, todo))
         /\ \A r \in Room : member[r] \cap uids # {} => r \in todo

\* Join enters all of its users; it returns then or later.
Enter(g) ==
    LET r == op[g].room IN
    /\ op[g].kind = "join" /\ op[g].uids \cap member[r] = {}
    /\ member' = [member EXCEPT ![r] = @ \cup op[g].uids]
    /\ Set(g, [op[g] EXCEPT !.kind = "joined"]) \/ End(g)

\* Or it fails, if one is in the room, having entered some of the others.
EnterSome(g) ==
    LET r == op[g].room IN
    /\ op[g].kind = "join" /\ op[g].uids \cap member[r] # {}
    /\ \E entered \in SUBSET op[g].uids : member' = [member EXCEPT ![r] = @ \cup entered]
    /\ End(g)

Leave(g) ==
    LET r == op[g].room IN
    /\ op[g].kind = "part" /\ op[g].uids \subseteq member[r]
    /\ member' = [member EXCEPT ![r] = @ \ op[g].uids]
    /\ Set(g, [op[g] EXCEPT !.kind = "parted"]) \/ End(g)

NotThere(g) == g \in missed /\ End(g) /\ UNCHANGED member

\* A room may be come by twice.
Visit(g, r) ==
    /\ op[g].kind = "sweep"
    /\ member' = [member EXCEPT ![r] = @ \ op[g].uids]
    /\ UNCHANGED op \/ Set(g, [op[g] EXCEPT !.todo = @ \ {r}])

Return(g) ==
    /\ \/ op[g].kind \in {"joined", "parted"}
       \/ op[g].kind = "sweep" /\ \A r \in op[g].todo : member[r] \cap op[g].uids = {}
    /\ End(g) /\ UNCHANGED member

\* Part may say that its user is not in the room only if this has been so.
Glimpse ==
    \A g \in missed' \ missed :
        op'[g].kind = "part" /\ op'[g].uids \cap member'[op'[g].room] = {}

Step ==
    \E g \in Caller :
        \/ BeginJoin(g) \/ BeginPart(g) \/ BeginSweep(g)
        \/ Enter(g) \/ EnterSome(g) \/ Leave(g) \/ NotThere(g)
        \/ \E r \in Room : Visit(g, r)
        \/ Return(g)

Next == (Step \/ UNCHANGED <<member, op>>) /\ Glimpse

Spec == Init /\ [][Next]_vars

=============================================================================
