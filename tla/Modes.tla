-------------------------------- MODULE Modes --------------------------------
(***************************************************************************)
(* The modes of a channel or a user (src/ircd/mode.go): ParseModeChange    *)
(* reads a mode line, ActiveModes.Apply carries it out, ModeString writes  *)
(* modes down again.  A line is a text of signs and letters with a list of *)
(* arguments.  User modes behave as flags, status modes as lists.          *)
(***************************************************************************)
EXTENDS SequencesExt

CONSTANTS
    Flag, Key, Limit, List,  \* the letters of each type
    Other,                   \* characters that are no mode
    Arg,
    Line                     \* the mode lines that are applied

Letter == Flag \cup Key \cup Limit \cup List
Char == Letter \cup Other \cup {"+", "-"}

ASSUME ModesAssumption ==
    /\ {"+", "-"} \cap Letter = {}
    /\ Flag \cap (Key \cup Limit \cup List) = {} /\ List \cap (Key \cup Limit) = {}
    /\ Line \subseteq [text : Seq(Char), argv : Seq(Arg)]

VARIABLES
    am,       \* ActiveModes: letter -> arguments
    panicked

vars == <<am, panicked>>

Empty == [ch \in {} |-> {}]
With(modes, ch, args) == [x \in DOMAIN modes \cup {ch} |-> IF x = ch THEN args ELSE modes[x]]
Without(modes, ch) == Restrict(modes, DOMAIN modes \ {ch})

-----------------------------------------------------------------------------
(* ParseModeChange *)

\* Faulty variant of NeedsArg: removing a key takes no argument.
NeedsArgLoose(ch, op) == (op = "set" /\ ch \notin Flag) \/ (op = "unset" /\ ch \in List)
NeedsArg(ch, op) ==
    \/ op = "set" /\ ch \notin Flag
    \/ op = "unset" /\ ch \in List \cup Key

\* One character of the text.  Letters in error take no argument.
Read(acc, ch) ==
    IF ch \in {"+", "-"} THEN [acc EXCEPT !.op = IF ch = "+" THEN "set" ELSE "unset"]
    ELSE IF ch \notin Letter \/ (NeedsArg(ch, acc.op) /\ acc.argv = <<>>)
         THEN [acc EXCEPT !.errors = Append(@, ch)]
    ELSE LET used == IF NeedsArg(ch, acc.op) THEN 1 ELSE 0 IN
         [acc EXCEPT !.changes = Append(@, [char |-> ch, op |-> acc.op,
                                            args |-> ToSet(SubSeq(acc.argv, 1, used))]),
                     !.argv = SubSeq(@, used + 1, Len(@))]

ParseModeChange(line) ==
    FoldLeft(Read, [op |-> "query", argv |-> line.argv, changes |-> <<>>, errors |-> <<>>],
             line.text)

-----------------------------------------------------------------------------
(* ActiveModes.Apply *)

\* Faulty variant of Sets: a mode that is set is set again.
SetsAgain(modes, m) == m.op = "set"
Sets(modes, m) == m.op = "set" /\ m.char \notin DOMAIN modes
Unsets(modes, m) == m.op = "unset" /\ m.char \in DOMAIN modes

\* Faulty variant of ArgsAfter: adding and removing are swapped.
ArgsAfterSwapped(old, m) ==
    CASE m.op = "set" -> old \ m.args
      [] m.op = "unset" -> old \cup m.args
      [] m.op = "query" -> old
ArgsAfter(old, m) ==
    CASE m.op = "set" -> old \cup m.args
      [] m.op = "unset" -> old \ m.args
      [] m.op = "query" -> old

StoreList(modes, ch, args) == IF args = {} THEN Without(modes, ch) ELSE With(modes, ch, args)

\* A list or a status: arguments come and go.
ApplyList(modes, m) ==
    LET old == IF m.char \in DOMAIN modes THEN modes[m.char] ELSE {} IN
    StoreList(modes, m.char, ArgsAfter(old, m))

\* One mode of a change.  To remove a key or a limit its argument is compared
\* with that of the change; the change that removes a limit has none.
ApplyMode(acc, m) ==
    LET accept(modes) == [acc EXCEPT !.modes = modes, !.applied = Append(@, m)] IN
    IF acc.panic THEN acc
    ELSE IF m.char \in List THEN accept(ApplyList(acc.modes, m))
    ELSE IF Sets(acc.modes, m) THEN accept(With(acc.modes, m.char, m.args))
    ELSE IF ~Unsets(acc.modes, m) THEN acc
    ELSE IF m.args = acc.modes[m.char] THEN accept(Without(acc.modes, m.char))
    ELSE IF m.args = {} THEN [acc EXCEPT !.panic = TRUE]
    ELSE [acc EXCEPT !.errors = Append(@, m.char)]

Apply(modes, changes) ==
    FoldLeft(ApplyMode, [modes |-> modes, applied |-> <<>>, errors |-> <<>>, panic |-> FALSE],
             changes)

-----------------------------------------------------------------------------
(* ModeString and ActiveModes.String *)

\* Faulty variant of Letters: the letter of a list is written once.
LettersOnce(m) == <<m.char>>
\* A letter for every argument.
Letters(m) == IF m.args = {} THEN <<m.char>> ELSE [i \in 1..Cardinality(m.args) |-> m.char]

\* Faulty variant of Sign: no second sign.
SignOnce(old, op) == IF old # "query" \/ op = old THEN <<>> ELSE IF op = "set" THEN <<"+">> ELSE <<"-">>
Sign(old, op) == IF op = old THEN <<>> ELSE IF op = "set" THEN <<"+">> ELSE <<"-">>

\* A query after a sign cannot be written.
Write(acc, m) ==
    IF m.op = "query" /\ acc.op # "query" THEN acc
    ELSE [op |-> m.op, text |-> acc.text \o Sign(acc.op, m.op) \o Letters(m),
          argv |-> acc.argv \o SetToSeq(m.args)]

ModeString(modes) == FoldLeft(Write, [op |-> "query", text |-> <<>>, argv |-> <<>>], modes)

\* Active modes, in an order of their letters.
ActiveList(modes, order) ==
    [i \in DOMAIN order |-> [char |-> order[i], op |-> "set", args |-> modes[order[i]]]]

-----------------------------------------------------------------------------

Init == am = Empty /\ panicked = FALSE

\* What a mode line does.
Change(line) ==
    LET result == Apply(am, ParseModeChange(line).changes) IN
    /\ ~panicked
    /\ am' = result.modes /\ panicked' = result.panic

Next == \E line \in Line : Change(line)

Spec == Init /\ [][Next]_vars

-----------------------------------------------------------------------------

\* String tells everything: whoever applies it to no modes has the same modes,
\* whatever the order in which the map is gone through.
StringRebuilds ==
    \A order \in SetToSeqs(DOMAIN am) :
        LET parsed == ParseModeChange(ModeString(ActiveList(am, order))) IN
        parsed.errors = <<>> /\ Apply(Empty, parsed.changes).modes = am

\* What Apply reports as applied is what has happened: written down, read and
\* applied elsewhere, to the same modes, it has the same result, also when
\* parts of the line were refused.
AppliedSuffices ==
    \A line \in Line :
        LET here == Apply(am, ParseModeChange(line).changes)
            there == ParseModeChange(ModeString(here.applied))
        IN ~here.panic => /\ there.errors = <<>>
                          /\ Apply(am, there.changes).modes = here.modes

\* Reference definition of flags and lists: what the last change in the line
\* says of a flag, or of an argument of a list, counts.
Has(modes, ch, args) == ch \in DOMAIN modes /\ args \subseteq modes[ch]
Said(changes, ch, args) ==
    {i \in DOMAIN changes : changes[i].char = ch /\ changes[i].args = args /\ changes[i].op # "query"}
LastWins ==
    \A line \in Line, ch \in Flag \cup List :
        LET changes == ParseModeChange(line).changes
            after == Apply(am, changes)
        IN \A args \in IF ch \in Flag THEN {{}} ELSE {{a} : a \in Arg} :
             LET said == Said(changes, ch, args) IN
             ~after.panic => Has(after.modes, ch, args) =
                               IF said = {} THEN Has(am, ch, args)
                               ELSE changes[Max(said)].op = "set"

\* A key goes only when a line names it: Apply compares the argument of -k with
\* the key that is set (mode.go:223).  doc/IRC-TS6.txt:833 has it otherwise
\* for the modes servers tell each other: "The parameter for mode -k (removing a
\* key) shall be ignored."  No hook uses modes yet, so the code may mean clients only.
KeyNamed ==
    \A line \in Line :
        LET changes == ParseModeChange(line).changes
            after == Apply(am, changes)
        IN \A ch \in Key \cap DOMAIN am :
             Has(after.modes, ch, am[ch])
             \/ \E i \in DOMAIN changes :
                  changes[i] = [char |-> ch, op |-> "unset", args |-> am[ch]]

\* Arguments are compared that are not there in one case only: a limit that is
\* set, before the line or by it, is removed (mode.go:223).
PanicOnlyOnLimit ==
    \A line \in Line :
        LET changes == ParseModeChange(line).changes IN
        Apply(am, changes).panic =>
            \E i \in DOMAIN changes :
                /\ changes[i].char \in Limit /\ changes[i].op = "unset"
                /\ \/ changes[i].char \in DOMAIN am
                   \/ \E j \in 1..(i - 1) : changes[j].char = changes[i].char /\ changes[j].op = "set"

=============================================================================
