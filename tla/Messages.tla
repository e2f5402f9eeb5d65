------------------------------ MODULE Messages ------------------------------
(***************************************************************************)
(* Messages and the lines they travel as (src/ircd/parser.go): what        *)
(* ParseMessage makes of a line, and what Bytes makes of the message.      *)
(* Texts are sequences of character codes.                                 *)
(***************************************************************************)
EXTENDS SequencesExt, Integers

CONSTANTS
    Letters,   \* the characters other than space and colon
    MaxLine    \* the length up to which lines are looked at

ASSUME MessagesAssumption ==
    Letters \subseteq (33..126) \ {58} /\ MaxLine \in Nat

Space == 32
Colon == 58

VARIABLE line  \* what a peer has sent

-----------------------------------------------------------------------------
(* bytes.TrimSpace, Split, SplitN and ToUpper, and strings.IndexAny. *)

IsSpace(c) == c \in 9..13 \cup {Space}

TrimSpace(s) ==
    LET kept == {i \in DOMAIN s : ~IsSpace(s[i])} IN
    IF kept = {} THEN <<>> ELSE SubSeq(s, Min(kept), Max(kept))

Places(s, c) == {i \in DOMAIN s : s[i] = c}

\* One character of a text that is split at c.
Cut(pieces, ch, c) ==
    IF ch = c THEN Append(pieces, <<>>)
    ELSE [pieces EXCEPT ![Len(pieces)] = Append(@, ch)]

Split(s, c) == FoldLeft(LAMBDA pieces, ch : Cut(pieces, ch, c), <<<<>>>>, s)

SplitOnce(s, c) ==
    IF Places(s, c) = {} THEN <<s>>
    ELSE LET at == Min(Places(s, c)) IN <<SubSeq(s, 1, at - 1), SubSeq(s, at + 1, Len(s))>>

ToUpper(s) == [i \in DOMAIN s |-> IF s[i] \in 97..122 THEN s[i] - 32 ELSE s[i]]

-----------------------------------------------------------------------------

NoMessage == [prefix |-> <<>>, command |-> <<>>, args |-> <<>>, ok |-> FALSE]

\* Faulty variant of Rest: the text after every colon is an argument.
RestEveryColon(prefix, s) ==
    LET parts == Split(s, Colon)
        words == Split(TrimSpace(parts[1]), Space)
    IN
    [prefix |-> prefix, command |-> ToUpper(words[1]), args |-> Tail(words) \o Tail(parts), ok |-> TRUE]

\* What follows the prefix.  The first colon, wherever it is, begins the last
\* argument.
Rest(prefix, s) ==
    LET halves == SplitOnce(s, Colon)
        words == Split(TrimSpace(halves[1]), Space)
    IN
    [prefix |-> prefix, command |-> ToUpper(words[1]), args |-> Tail(words) \o Tail(halves), ok |-> TRUE]

ParseMessage(l) ==
    LET s == TrimSpace(l)
        halves == SplitOnce(s, Space)
    IN
    IF s = <<>> THEN NoMessage
    ELSE IF s[1] # Colon THEN Rest(<<>>, s)
    ELSE IF Len(halves) = 1 THEN NoMessage
    ELSE Rest(Tail(halves[1]), halves[2])

\* Faulty variant of Marked: only a space is looked for.
MarkedForSpace(arg) == Space \in Range(arg)
Marked(arg) == Range(arg) \cap {Space, Colon} # {}

Bytes(m) ==
    LET words == [i \in DOMAIN m.args |->
                    IF i = Len(m.args) /\ Marked(m.args[i]) THEN <<Space, Colon>> \o m.args[i]
                    ELSE <<Space>> \o m.args[i]]
    IN
    (IF m.prefix = <<>> THEN <<>> ELSE <<Colon>> \o m.prefix \o <<Space>>)
        \o m.command \o FlattenSeq(words)

-----------------------------------------------------------------------------

Init == line = <<>>

Next ==
    /\ Len(line) < MaxLine
    /\ \E c \in Letters \cup {Space, Colon} : line' = Append(line, c)

Spec == Init /\ [][Next]_line

-----------------------------------------------------------------------------

\* A message that is passed on arrives as it was: ParseMessage of Bytes is the
\* message, unless its command or its last argument is empty, which Bytes has
\* no way to write.
RoundTrip ==
    LET m == ParseMessage(line) IN
    (m.ok /\ m.command # <<>> /\ (m.args # <<>> => Last(m.args) # <<>>)) =>
        ParseMessage(Bytes(m)) = m

\* The grammar of doc/IRC-RFC2812.txt:322-330, word by word: a colon begins the
\* prefix, and the first parameter after the command that starts with one goes
\* on to the end of the line.
ByGrammar(l) ==
    LET words == Split(l, Space)
        command == IF words[1][1] = Colon THEN 2 ELSE 1
        marked == {i \in command + 1..Len(words) : words[i] # <<>> /\ words[i][1] = Colon}
        last == IF marked = {} THEN Len(words) ELSE Min(marked) - 1
        trailing == Len(FlattenSeq(SubSeq(words, 1, last))) + last + 2
    IN
    [prefix |-> IF command = 1 THEN <<>> ELSE Tail(words[1]),
     words |-> SubSeq(words, command, last),
     trailing |-> IF marked = {} THEN <<>> ELSE <<SubSeq(l, trailing, Len(l))>>]

\* A line is understood as the grammar says, if its words are separated by single
\* spaces and no word has a colon inside: neither the command nor any parameter
\* that is not marked by one, the last one included.  The grammar allows a colon
\* there (middle, doc/IRC-RFC2812.txt:334); ParseMessage takes the first colon of
\* the line for the mark (parser.go:49), so that X a:b has the arguments a and b.
GrammarParses ==
    LET m == ByGrammar(line) IN
    (/\ line # <<>> /\ TrimSpace(line) = line
     /\ m.words # <<>> /\ \A i \in DOMAIN m.words : m.words[i] # <<>> /\ Colon \notin Range(m.words[i])) =>
        ParseMessage(line) =
            [prefix |-> m.prefix, command |-> ToUpper(m.words[1]), args |-> Tail(m.words) \o m.trailing,
             ok |-> TRUE]

=============================================================================
