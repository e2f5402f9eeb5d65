----------------------------- MODULE ModesProofs -----------------------------
(***************************************************************************)
(* Proofs about mode lines of any length, for any letters and arguments.   *)
(***************************************************************************)
EXTENDS Modes, FiniteSetTheorems, SequenceTheorems, WellFoundedInduction, TLAPS

(* Induction over a set of numbers: its complement would have a least element. *)

LEMMA Induction ==
    ASSUME NEW T \in SUBSET Nat, 0 \in T, \A n \in T : n + 1 \in T
    PROVE  \A n \in Nat : n \in T
<1> SUFFICES ASSUME Nat \ T # {}
             PROVE  FALSE
  OBVIOUS
<1>1. PICK x \in Nat \ T : \A y \in Nat \ T : <<y, x>> \notin OpToRel(<, Nat)
  <2> DEFINE U == Nat \ T
  <2>1. U \subseteq Nat /\ U # {}
    OBVIOUS
  <2> HIDE DEF U
  <2>2. \E x \in U : \A y \in U : ~(<<y, x>> \in OpToRel(<, Nat))
    BY <2>1, WFMin, NatLessThanWellFounded, Zenon
  <2> QED
    BY <2>2 DEF U
<1>2. x # 0 /\ x - 1 \in Nat
  OBVIOUS
<1>3. <<x - 1, x>> \in OpToRel(<, Nat)
  BY <1>2 DEF OpToRel
<1>4. x - 1 \in T
  BY <1>1, <1>2, <1>3
<1>5. x - 1 + 1 = x
  OBVIOUS
<1> QED
  BY <1>4, <1>5

\* The same up to a bound.
LEMMA BoundedInduction ==
    ASSUME NEW n \in Nat, NEW T \in SUBSET (0..n), 0 \in T,
           \A i \in 1..n : i - 1 \in T => i \in T
    PROVE  \A i \in 0..n : i \in T
<1> DEFINE U == {i \in Nat : i \in 0..n => i \in T}
<1>1. U \in SUBSET Nat /\ 0 \in U
  OBVIOUS
<1>2. ASSUME NEW i \in U
      PROVE  i + 1 \in U
  <2> SUFFICES ASSUME i + 1 \in 0..n
               PROVE  i + 1 \in T
    OBVIOUS
  <2>1. i + 1 \in 1..n /\ i + 1 - 1 = i /\ i \in 0..n
    OBVIOUS
  <2> QED
    BY <2>1
<1> HIDE DEF U
<1>3. \A i \in Nat : i \in U
  BY <1>1, <1>2, Induction
<1> QED
  BY <1>3 DEF U

LEMMA MaxOf ==
    ASSUME NEW n \in Nat, NEW s \in SUBSET (1..n), s # {}
    PROVE  Max(s) \in s /\ \A y \in s : Max(s) >= y
<1> DEFINE T == {m \in Nat : \A r \in SUBSET (1..m) : r # {} => \E x \in r : \A y \in r : x >= y}
<1>1. 0 \in T
  <2>1. \A r \in SUBSET (1..0) : r = {}
    OBVIOUS
  <2> QED
    BY <2>1
<1>2. ASSUME NEW m \in T
      PROVE  m + 1 \in T
  <2> SUFFICES ASSUME NEW r \in SUBSET (1..(m + 1)), r # {}
               PROVE  \E x \in r : \A y \in r : x >= y
    OBVIOUS
  <2>1. CASE m + 1 \in r
    BY <2>1
  <2>2. CASE m + 1 \notin r
    <3>1. r \in SUBSET (1..m)
      BY <2>2
    <3> QED
      BY <3>1
  <2> QED
    BY <2>1, <2>2
<1>3. n \in T
  <2>1. T \in SUBSET Nat
    OBVIOUS
  <2> HIDE DEF T
  <2> QED
    BY <1>1, <1>2, <2>1, Induction
<1>4. \E x \in s : \A y \in s : x >= y
  BY <1>3
<1> QED
  BY <1>4 DEF Max

-----------------------------------------------------------------------------
(* The folds of Modes as recursion on the length. *)

\* A mode with several arguments is written as one letter for each.
Split(m) == IF m.args = {} THEN <<m>>
            ELSE [j \in 1..Cardinality(m.args) |->
                    [char |-> m.char, op |-> m.op, args |-> {SetToSeq(m.args)[j]}]]

Step(fold, acc, x) ==
    CASE fold = "read" -> Read(acc, x)
      [] fold = "apply" -> ApplyMode(acc, x)
      [] fold = "write" -> Write(acc, x)
      [] fold = "split" -> acc \o Split(x)

LEMMA StepIs ==
    ASSUME NEW acc, NEW x
    PROVE  /\ Step("read", acc, x) = Read(acc, x)
           /\ Step("apply", acc, x) = ApplyMode(acc, x)
           /\ Step("write", acc, x) = Write(acc, x)
           /\ Step("split", acc, x) = acc \o Split(x)
BY DEF Step

\* F is what FoldLeft makes of the elements at each set of places.
Folded(F, fold, base, seq, n) ==
    F = [s \in SUBSET (1..n) |-> IF s = {} THEN base ELSE Step(fold, F[s \ {Max(s)}], seq[Max(s)])]

\* What is made of the first i elements.
At(fold, base, seq, i) == (CHOOSE F : Folded(F, fold, base, seq, Len(seq)))[1..i]

LEMMA FoldExists ==
    ASSUME NEW fold, NEW base, NEW seq, NEW len \in Nat
    PROVE  \E F : Folded(F, fold, base, seq, len)
<1> DEFINE T == {n \in Nat : \E F : Folded(F, fold, base, seq, n)}
<1>1. 0 \in T
  <2> DEFINE F == [s \in SUBSET (1..0) |-> base]
  <2>1. \A s \in SUBSET (1..0) : s = {}
    OBVIOUS
  <2>2. Folded(F, fold, base, seq, 0)
    BY <2>1 DEF Folded
  <2> QED
    BY <2>2
<1>2. ASSUME NEW n \in T
      PROVE  n + 1 \in T
  <2>1. PICK F : Folded(F, fold, base, seq, n)
    OBVIOUS
  <2> DEFINE G == [s \in SUBSET (1..(n + 1)) |->
                      IF n + 1 \in s THEN Step(fold, F[s \ {n + 1}], seq[n + 1]) ELSE F[s]]
             Value(s) == IF s = {} THEN base ELSE Step(fold, G[s \ {Max(s)}], seq[Max(s)])
  <2>2. ASSUME NEW s \in SUBSET (1..(n + 1)), n + 1 \in s
        PROVE  G[s] = Value(s)
    <3>1. Max(s) = n + 1
      <4>1. Max(s) \in s /\ Max(s) >= n + 1
        BY <2>2, MaxOf
      <4>2. \A x \in 1..(n + 1) : x >= n + 1 => x = n + 1
        OBVIOUS
      <4>3. Max(s) \in 1..(n + 1)
        BY <4>1, Zenon
      <4> QED
        BY <4>1, <4>2, <4>3, Zenon
    <3>2. G[s \ {n + 1}] = F[s \ {n + 1}]
      BY <2>2
    <3> QED
      BY <2>2, <3>1, <3>2
  <2>3. ASSUME NEW s \in SUBSET (1..(n + 1)), n + 1 \notin s, s # {}
        PROVE  G[s] = Value(s)
    <3>1. s \in SUBSET (1..n)
      BY <2>3
    <3>2. s \ {Max(s)} \in SUBSET (1..n) /\ s \ {Max(s)} \in SUBSET (1..(n + 1))
      BY <2>3, <3>1
    <3>3. G[s] = F[s] /\ G[s \ {Max(s)}] = F[s \ {Max(s)}]
      BY <2>3, <3>2
    <3>4. F[s] = Step(fold, F[s \ {Max(s)}], seq[Max(s)])
      BY <2>1, <2>3, <3>1 DEF Folded
    <3> QED
      BY <2>3, <3>3, <3>4
  <2>4. G[{}] = base
    BY <2>1 DEF Folded
  <2>5. \A s \in SUBSET (1..(n + 1)) : G[s] = Value(s)
    BY <2>2, <2>3, <2>4
  <2>6. G = [s \in SUBSET (1..(n + 1)) |-> G[s]]
    OBVIOUS
  <2> HIDE DEF G
  <2>7. Folded(G, fold, base, seq, n + 1)
    BY <2>5, <2>6, Zenon DEF Folded
  <2> QED
    BY <2>7
<1> HIDE DEF T
<1>3. T \in SUBSET Nat
  BY DEF T
<1>4. len \in T
  BY <1>1, <1>2, <1>3, Induction
<1> QED
  BY <1>4 DEF T

LEMMA AtFirst ==
    ASSUME NEW fold, NEW base, NEW S, NEW seq \in Seq(S)
    PROVE  At(fold, base, seq, 0) = base
<1> DEFINE F == CHOOSE F : Folded(F, fold, base, seq, Len(seq))
<1>1. Folded(F, fold, base, seq, Len(seq))
  BY FoldExists
<1>2. At(fold, base, seq, 0) = F[1..0]
  BY DEF At
<1> HIDE DEF F
<1>3. 1..0 = {} /\ 1..0 \in SUBSET (1..Len(seq))
  OBVIOUS
<1> QED
  BY <1>1, <1>2, <1>3 DEF Folded

LEMMA AtNext ==
    ASSUME NEW fold, NEW base, NEW S, NEW seq \in Seq(S), NEW i \in 1..Len(seq)
    PROVE  At(fold, base, seq, i) = Step(fold, At(fold, base, seq, i - 1), seq[i])
<1> DEFINE F == CHOOSE F : Folded(F, fold, base, seq, Len(seq))
<1>1. Folded(F, fold, base, seq, Len(seq))
  BY FoldExists
<1>2. \A j : At(fold, base, seq, j) = F[1..j]
  BY DEF At
<1> HIDE DEF F
<1>3. (1..i) \in SUBSET (1..Len(seq)) /\ 1..i # {}
  OBVIOUS
<1>4. Max(1..i) = i
  <2>1. i \in Nat /\ (1..i) \in SUBSET (1..i) /\ i \in 1..i
    OBVIOUS
  <2>2. Max(1..i) \in 1..i /\ Max(1..i) >= i
    BY <1>3, <2>1, MaxOf, Zenon
  <2>3. \A x \in 1..i : x >= i => x = i
    BY <2>1
  <2> QED
    BY <2>2, <2>3, Zenon
<1>5. (1..i) \ {i} = 1..(i - 1)
  OBVIOUS
<1>6. F[1..i] = Step(fold, F[(1..i) \ {i}], seq[i])
  BY <1>1, <1>3, <1>4 DEF Folded
<1> QED
  BY <1>2, <1>5, <1>6

LEMMA FoldIsAt ==
    ASSUME NEW base, NEW S, NEW seq \in Seq(S)
    PROVE  /\ FoldLeft(Read, base, seq) = At("read", base, seq, Len(seq))
           /\ FoldLeft(ApplyMode, base, seq) = At("apply", base, seq, Len(seq))
           /\ FoldLeft(Write, base, seq) = At("write", base, seq, Len(seq))
<1>1. DOMAIN seq = 1..Len(seq)
  OBVIOUS
<1>2. FoldLeft(Read, base, seq) = At("read", base, seq, Len(seq))
  BY <1>1, Zenon DEF FoldLeft, MapThenFoldSet, At, Folded, Step
<1>3. FoldLeft(ApplyMode, base, seq) = At("apply", base, seq, Len(seq))
  BY <1>1, Zenon DEF FoldLeft, MapThenFoldSet, At, Folded, Step
<1>4. FoldLeft(Write, base, seq) = At("write", base, seq, Len(seq))
  BY <1>1, Zenon DEF FoldLeft, MapThenFoldSet, At, Folded, Step
<1> QED
  BY <1>2, <1>3, <1>4

-----------------------------------------------------------------------------
(* What ParseModeChange returns. *)

Mode == [char : Letter, op : {"query", "set", "unset"}, args : SUBSET Arg]
IsLine(line) == line.text \in Seq(Char) /\ line.argv \in Seq(Arg)

\* The change has an argument if it needs one.
Complete(m) == IF NeedsArg(m.char, m.op) THEN \E a \in Arg : m.args = {a} ELSE m.args = {}

\* All are complete, and queries come before the first sign.
ChangesOK(changes, op) ==
    /\ changes \in Seq(Mode)
    /\ \A i \in 1..Len(changes) : Complete(changes[i])
    /\ \A i, j \in 1..Len(changes) : i < j /\ changes[j].op = "query" => changes[i].op = "query"
    /\ op = "query" => \A i \in 1..Len(changes) : changes[i].op = "query"

ReadOK(acc) ==
    /\ acc = [op |-> acc.op, argv |-> acc.argv, changes |-> acc.changes, errors |-> acc.errors]
    /\ acc.op \in {"query", "set", "unset"} /\ acc.argv \in Seq(Arg) /\ acc.errors \in Seq(Char)
    /\ ChangesOK(acc.changes, acc.op)

ReadFrom(line) == [op |-> "query", argv |-> line.argv, changes |-> <<>>, errors |-> <<>>]
Reading(line, i) == At("read", ReadFrom(line), line.text, i)

LEMMA AppendIs ==
    ASSUME NEW S, NEW seq \in Seq(S), NEW x
    PROVE  /\ Len(Append(seq, x)) = Len(seq) + 1 /\ Append(seq, x)[Len(seq) + 1] = x
           /\ \A i \in 1..Len(seq) : Append(seq, x)[i] = seq[i]
           /\ x \in S => Append(seq, x) \in Seq(S)
OBVIOUS

LEMMA ChangesGrow ==
    ASSUME NEW changes, NEW op \in {"query", "set", "unset"}, ChangesOK(changes, op),
           NEW m \in Mode, Complete(m), m.op = op
    PROVE  ChangesOK(Append(changes, m), op)
<1> DEFINE more == Append(changes, m)
<1>1. changes \in Seq(Mode) /\ \A i \in 1..Len(changes) : Complete(changes[i])
  BY DEF ChangesOK
<1>2. /\ Len(more) = Len(changes) + 1 /\ more[Len(changes) + 1] = m /\ more \in Seq(Mode)
      /\ \A i \in 1..Len(changes) : more[i] = changes[i]
  BY <1>1, AppendIs
<1>3. Len(changes) \in Nat
  BY <1>1
<1>4. \A i \in 1..Len(more) : i \in 1..Len(changes) \/ i = Len(changes) + 1
  BY <1>2, <1>3
<1> HIDE DEF more
<1>5. \A i \in 1..Len(more) : Complete(more[i])
  BY <1>1, <1>2, <1>4
<1>6. \A i, j \in 1..Len(more) : i < j /\ more[j].op = "query" => more[i].op = "query"
  <2> SUFFICES ASSUME NEW i \in 1..Len(more), NEW j \in 1..Len(more), i < j, more[j].op = "query"
               PROVE  more[i].op = "query"
    OBVIOUS
  <2>1. i \in 1..Len(changes)
    BY <1>2, <1>3
  <2>2. CASE j \in 1..Len(changes)
    BY <1>2, <2>1, <2>2 DEF ChangesOK
  <2>3. CASE j = Len(changes) + 1
    BY <1>2, <2>1, <2>3 DEF ChangesOK
  <2> QED
    BY <1>4, <2>2, <2>3
<1>7. op = "query" => \A i \in 1..Len(more) : more[i].op = "query"
  BY <1>2, <1>4 DEF ChangesOK
<1>8. ChangesOK(more, op)
  BY <1>2, <1>5, <1>6, <1>7 DEF ChangesOK
<1> QED
  BY <1>8 DEF more

LEMMA ReadKeeps ==
    ASSUME NEW acc, ReadOK(acc), NEW ch \in Char
    PROVE  ReadOK(Read(acc, ch))
<1>1. CASE ch \in {"+", "-"}
  <2> DEFINE op == IF ch = "+" THEN "set" ELSE "unset"
  <2>1. Read(acc, ch) = [op |-> op, argv |-> acc.argv, changes |-> acc.changes, errors |-> acc.errors]
    BY <1>1 DEF Read, ReadOK
  <2>2. ChangesOK(acc.changes, op)
    BY DEF ReadOK, ChangesOK
  <2> QED
    BY <2>1, <2>2 DEF ReadOK
<1>2. CASE ch \notin {"+", "-"} /\ (ch \notin Letter \/ (NeedsArg(ch, acc.op) /\ acc.argv = <<>>))
  <2>1. Read(acc, ch) = [op |-> acc.op, argv |-> acc.argv, changes |-> acc.changes,
                         errors |-> Append(acc.errors, ch)]
    BY <1>2 DEF Read, ReadOK
  <2>2. Append(acc.errors, ch) \in Seq(Char)
    BY DEF ReadOK
  <2> QED
    BY <2>1, <2>2 DEF ReadOK
<1>3. CASE ch \notin {"+", "-"} /\ ch \in Letter /\ ~(NeedsArg(ch, acc.op) /\ acc.argv = <<>>)
  <2> DEFINE used == IF NeedsArg(ch, acc.op) THEN 1 ELSE 0
             m == [char |-> ch, op |-> acc.op, args |-> ToSet(SubSeq(acc.argv, 1, used))]
             rest == SubSeq(acc.argv, used + 1, Len(acc.argv))
  <2>1. Read(acc, ch) = [op |-> acc.op, argv |-> rest, changes |-> Append(acc.changes, m),
                         errors |-> acc.errors]
    BY <1>3 DEF Read, ReadOK
  <2>2. rest \in Seq(Arg)
    BY DEF ReadOK
  <2>3. CASE NeedsArg(ch, acc.op)
    <3>1. acc.argv[1] \in Arg /\ ToSet(SubSeq(acc.argv, 1, 1)) = {acc.argv[1]}
      BY <1>3, <2>3 DEF ReadOK, ToSet
    <3>2. m \in Mode /\ Complete(m)
      BY <1>3, <2>3, <3>1 DEF ReadOK, Mode, Complete
    <3> QED
      BY <2>1, <2>2, <3>2, ChangesGrow DEF ReadOK
  <2>4. CASE ~NeedsArg(ch, acc.op)
    <3>1. ToSet(SubSeq(acc.argv, 1, 0)) = {}
      BY DEF ReadOK, ToSet
    <3>2. m \in Mode /\ Complete(m)
      BY <1>3, <2>4, <3>1 DEF ReadOK, Mode, Complete
    <3> QED
      BY <2>1, <2>2, <3>2, ChangesGrow DEF ReadOK
  <2> QED
    BY <2>3, <2>4
<1> QED
  BY <1>1, <1>2, <1>3

LEMMA Parsed ==
    ASSUME NEW line, IsLine(line)
    PROVE  /\ ParseModeChange(line) = Reading(line, Len(line.text))
           /\ \A i \in 0..Len(line.text) : ReadOK(Reading(line, i))
           /\ Reading(line, 0) = ReadFrom(line)
           /\ \A i \in 1..Len(line.text) : Reading(line, i) = Read(Reading(line, i - 1), line.text[i])
<1> DEFINE n == Len(line.text)
           T == {i \in 0..n : ReadOK(Reading(line, i))}
<1>1. line.text \in Seq(Char) /\ line.argv \in Seq(Arg) /\ n \in Nat /\ \A i \in 1..n : line.text[i] \in Char
  BY DEF IsLine
<1>2. ParseModeChange(line) = Reading(line, n)
  BY <1>1, FoldIsAt DEF ParseModeChange, Reading, ReadFrom
<1>3. Reading(line, 0) = ReadFrom(line)
  BY <1>1, AtFirst DEF Reading
<1>4. ASSUME NEW i \in 1..n
      PROVE  Reading(line, i) = Read(Reading(line, i - 1), line.text[i])
  <2>1. Reading(line, i) = Step("read", Reading(line, i - 1), line.text[i])
    BY <1>1, AtNext DEF Reading
  <2> QED
    BY <2>1, StepIs, Zenon
<1>5. ReadOK(ReadFrom(line))
  BY <1>1 DEF ReadFrom, ReadOK, ChangesOK
<1>6. \A i \in 0..n : i \in T
  <2>1. 0 \in T
    BY <1>1, <1>3, <1>5
  <2>2. ASSUME NEW i \in 1..n, i - 1 \in T
        PROVE  i \in T
    BY <1>1, <1>4, <2>2, ReadKeeps
  <2> HIDE DEF T
  <2>3. T \in SUBSET (0..n)
    BY DEF T
  <2> QED
    BY <1>1, <2>1, <2>2, <2>3, BoundedInduction
<1> QED
  BY <1>2, <1>3, <1>4, <1>6

-----------------------------------------------------------------------------
(* What Apply does to the active modes. *)

IsMap(f) == f = [x \in DOMAIN f |-> f[x]]

\* The active modes: flags have no argument, keys and limits one, lists some.
ModesOK(modes) ==
    /\ IsMap(modes)
    /\ DOMAIN modes \subseteq Letter /\ IsFiniteSet(DOMAIN modes)
    /\ \A ch \in DOMAIN modes :
         /\ modes[ch] \in SUBSET Arg /\ IsFiniteSet(modes[ch])
         /\ ch \in Flag => modes[ch] = {}
         /\ ch \in Key \cup Limit => \E a \in Arg : modes[ch] = {a}
         /\ ch \in List => modes[ch] # {}

ApplyOK(acc) ==
    /\ acc = [modes |-> acc.modes, applied |-> acc.applied, errors |-> acc.errors, panic |-> acc.panic]
    /\ ModesOK(acc.modes) /\ acc.panic \in BOOLEAN

ApplyTo(modes) == [modes |-> modes, applied |-> <<>>, errors |-> <<>>, panic |-> FALSE]
Applying(modes, changes, i) == At("apply", ApplyTo(modes), changes, i)

LEMMA WithIs ==
    ASSUME NEW modes, NEW ch, NEW args
    PROVE  /\ DOMAIN With(modes, ch, args) = DOMAIN modes \cup {ch}
           /\ With(modes, ch, args)[ch] = args
           /\ \A x \in DOMAIN modes \ {ch} : With(modes, ch, args)[x] = modes[x]
           /\ IsMap(With(modes, ch, args))
BY DEF With, IsMap

LEMMA WithoutIs ==
    ASSUME NEW modes, NEW ch
    PROVE  /\ DOMAIN Without(modes, ch) = DOMAIN modes \ {ch}
           /\ \A x \in DOMAIN modes \ {ch} : Without(modes, ch)[x] = modes[x]
           /\ IsMap(Without(modes, ch))
BY DEF Without, Restrict, IsMap

LEMMA WithOK ==
    ASSUME NEW modes, ModesOK(modes), NEW ch \in Letter, NEW args \in SUBSET Arg, IsFiniteSet(args),
           ch \in Flag => args = {}, ch \in Key \cup Limit => \E a \in Arg : args = {a},
           ch \in List => args # {}
    PROVE  ModesOK(With(modes, ch, args))
<1> DEFINE new == With(modes, ch, args)
<1>1. IsFiniteSet(DOMAIN modes \cup {ch})
  BY FS_AddElement DEF ModesOK
<1>2. /\ DOMAIN new = DOMAIN modes \cup {ch} /\ new[ch] = args
      /\ \A x \in DOMAIN modes \ {ch} : new[x] = modes[x]
      /\ IsMap(new)
  BY DEF With, IsMap
<1> HIDE DEF new
<1>3. ModesOK(new)
  BY <1>1, <1>2 DEF ModesOK
<1> QED
  BY <1>3 DEF new

LEMMA WithoutOK ==
    ASSUME NEW modes, ModesOK(modes), NEW ch
    PROVE  ModesOK(Without(modes, ch))
<1> DEFINE new == Without(modes, ch)
<1>1. IsFiniteSet(DOMAIN modes \ {ch})
  BY FS_RemoveElement DEF ModesOK
<1>2. /\ DOMAIN new = DOMAIN modes \ {ch}
      /\ \A x \in DOMAIN modes \ {ch} : new[x] = modes[x]
      /\ IsMap(new)
  BY WithoutIs, Zenon
<1> HIDE DEF new
<1>3. ModesOK(new)
  BY <1>1, <1>2 DEF ModesOK
<1> QED
  BY <1>3 DEF new

\* What one mode of a change may do.
Accepts(acc, m, modes) ==
    ApplyMode(acc, m) = [modes |-> modes, applied |-> Append(acc.applied, m), errors |-> acc.errors,
                         panic |-> FALSE]
Refuses(acc, m) ==
    \/ ApplyMode(acc, m) = acc
    \/ ApplyMode(acc, m) = [modes |-> acc.modes, applied |-> acc.applied,
                            errors |-> Append(acc.errors, m.char), panic |-> FALSE]

\* The arguments of a list after the change.
OldArgs(modes, ch) == IF ch \in DOMAIN modes THEN modes[ch] ELSE {}

LEMMA ApplyCases ==
    ASSUME NEW acc, ApplyOK(acc), ~acc.panic, NEW m \in Mode, Complete(m)
    PROVE  \/ m.char \in List /\ Accepts(acc, m, ApplyList(acc.modes, m))
           \/ m.char \notin List /\ Sets(acc.modes, m) /\ Accepts(acc, m, With(acc.modes, m.char, m.args))
           \/ /\ m.char \notin List /\ Unsets(acc.modes, m) /\ m.args = acc.modes[m.char]
              /\ Accepts(acc, m, Without(acc.modes, m.char))
           \/ m.char \notin List /\ ~Sets(acc.modes, m) /\ ~Unsets(acc.modes, m) /\ ApplyMode(acc, m) = acc
           \/ /\ m.char \in Key /\ Unsets(acc.modes, m) /\ m.args # acc.modes[m.char]
              /\ Refuses(acc, m)
           \/ /\ m.char \in Limit /\ Unsets(acc.modes, m) /\ m.args # acc.modes[m.char]
              /\ Refuses(acc, m) \/ ApplyMode(acc, m) = [modes |-> acc.modes, applied |-> acc.applied,
                                                         errors |-> acc.errors, panic |-> TRUE]
<1> USE DEF ApplyOK
<1>1. CASE m.char \in List
  BY <1>1 DEF ApplyMode, Accepts
<1>2. CASE m.char \notin List /\ Sets(acc.modes, m)
  BY <1>2 DEF ApplyMode, Accepts
<1>3. CASE m.char \notin List /\ ~Sets(acc.modes, m) /\ ~Unsets(acc.modes, m)
  BY <1>3 DEF ApplyMode
<1>4. CASE m.char \notin List /\ ~Sets(acc.modes, m) /\ Unsets(acc.modes, m) /\ m.args = acc.modes[m.char]
  BY <1>4 DEF ApplyMode, Accepts
<1>5. CASE m.char \notin List /\ ~Sets(acc.modes, m) /\ Unsets(acc.modes, m) /\ m.args # acc.modes[m.char]
  <2>1. m.char \in Key \cup Limit
    <3>1. SUFFICES ASSUME m.char \in Flag
                   PROVE  FALSE
      BY <1>5 DEF Mode, Letter
    <3>2. m.args = {} /\ acc.modes[m.char] = {}
      BY <1>5, <3>1, ModesAssumption DEF ModesOK, Unsets, Complete, NeedsArg
    <3> QED
      BY <1>5, <3>2
  <2>2. CASE m.args # {}
    BY <1>5, <2>1, <2>2 DEF ApplyMode, Refuses
  <2>3. CASE m.args = {}
    <3>1. m.char \notin Key
      BY <1>5, <2>3 DEF Complete, NeedsArg, Unsets
    <3>2. ApplyMode(acc, m) = [modes |-> acc.modes, applied |-> acc.applied,
                               errors |-> acc.errors, panic |-> TRUE]
      BY <1>5, <2>3 DEF ApplyMode
    <3> QED
      BY <1>5, <2>1, <3>1, <3>2
  <2> QED
    BY <2>2, <2>3
<1> QED
  BY <1>1, <1>2, <1>3, <1>4, <1>5

LEMMA ArgsAfterIs ==
    ASSUME NEW old \in SUBSET Arg, IsFiniteSet(old), NEW m \in Mode, Complete(m)
    PROVE  ArgsAfter(old, m) \in SUBSET Arg /\ IsFiniteSet(ArgsAfter(old, m))
<1>1. m.op \in {"query", "set", "unset"} /\ m.args \in SUBSET Arg
  BY DEF Mode
<1>2. IsFiniteSet(m.args)
  BY FS_EmptySet, FS_Singleton, ZenonT(40) DEF Complete
<1>3. CASE m.op = "set"
  BY <1>1, <1>2, <1>3, FS_Union DEF ArgsAfter
<1>4. CASE m.op = "unset"
  BY <1>1, <1>2, <1>4, FS_Difference DEF ArgsAfter
<1>5. CASE m.op = "query"
  BY <1>5 DEF ArgsAfter
<1> QED
  BY <1>1, <1>3, <1>4, <1>5

LEMMA ApplyListOK ==
    ASSUME NEW modes, ModesOK(modes), NEW m \in Mode, Complete(m), m.char \in List
    PROVE  ModesOK(ApplyList(modes, m))
<1> DEFINE old == OldArgs(modes, m.char)
<1>1. old \in SUBSET Arg /\ IsFiniteSet(old)
  BY FS_EmptySet DEF OldArgs, ModesOK
<1>2. ArgsAfter(old, m) \in SUBSET Arg /\ IsFiniteSet(ArgsAfter(old, m))
  BY <1>1, ArgsAfterIs
<1>3. ApplyList(modes, m) = IF ArgsAfter(old, m) = {} THEN Without(modes, m.char)
                            ELSE With(modes, m.char, ArgsAfter(old, m))
  BY DEF ApplyList, StoreList, OldArgs
<1>4. m.char \in Letter /\ m.char \notin Flag /\ m.char \notin Key \cup Limit
  BY ModesAssumption DEF Letter
<1> QED
  BY <1>2, <1>3, <1>4, WithOK, WithoutOK

LEMMA ApplyKeeps ==
    ASSUME NEW acc, ApplyOK(acc), NEW m \in Mode, Complete(m)
    PROVE  ApplyOK(ApplyMode(acc, m))
<1>1. CASE acc.panic
  BY <1>1 DEF ApplyMode
<1>2. ASSUME ~acc.panic, NEW modes, Accepts(acc, m, modes), ModesOK(modes)
      PROVE  ApplyOK(ApplyMode(acc, m))
  BY <1>2 DEF Accepts, ApplyOK
<1>3. CASE ~acc.panic /\ m.char \in List /\ Accepts(acc, m, ApplyList(acc.modes, m))
  BY <1>2, <1>3, ApplyListOK DEF ApplyOK
<1>4. CASE ~acc.panic /\ Sets(acc.modes, m) /\ m.char \notin List /\ Accepts(acc, m, With(acc.modes, m.char, m.args))
  <2>1. m.char \in Letter /\ m.args \in SUBSET Arg /\ IsFiniteSet(m.args)
    <3>1. m.args = {} \/ \E a \in Arg : m.args = {a}
      BY DEF Complete
    <3>2. IsFiniteSet(m.args)
      BY <3>1, FS_EmptySet, FS_Singleton
    <3> QED
      BY <3>2 DEF Mode
  <2>2. /\ m.char \in Flag => m.args = {}
        /\ m.char \in Key \cup Limit => \E a \in Arg : m.args = {a}
    BY <1>4, ModesAssumption DEF Complete, NeedsArg, Sets
  <2> QED
    BY <1>2, <1>4, <2>1, <2>2, WithOK DEF ApplyOK
<1>5. CASE ~acc.panic /\ Accepts(acc, m, Without(acc.modes, m.char))
  BY <1>2, <1>5, WithoutOK DEF ApplyOK
<1>6. CASE ~acc.panic /\ Refuses(acc, m)
  <2> DEFINE after == [modes |-> acc.modes, applied |-> acc.applied,
                       errors |-> Append(acc.errors, m.char), panic |-> FALSE]
             errors == Append(acc.errors, m.char)
  <2>1. ApplyMode(acc, m) = acc \/ ApplyMode(acc, m) = after
    BY <1>6 DEF Refuses
  <2> HIDE DEF errors
  <2>2. after = [modes |-> acc.modes, applied |-> acc.applied, errors |-> errors, panic |-> FALSE]
    BY DEF errors
  <2> HIDE DEF after
  <2>3. ApplyOK(after)
    BY <1>6, <2>2 DEF ApplyOK
  <2> QED
    BY <2>1, <2>3
<1>7. CASE ApplyMode(acc, m) = [modes |-> acc.modes, applied |-> acc.applied,
                                errors |-> acc.errors, panic |-> TRUE]
  BY <1>7 DEF ApplyOK
<1>8. CASE ApplyMode(acc, m) = acc
  BY <1>8
<1>9. acc.panic \in BOOLEAN
  BY DEF ApplyOK
<1> QED
  BY <1>1, <1>3, <1>4, <1>5, <1>6, <1>7, <1>8, <1>9, ApplyCases

ChangesComplete(changes) ==
    changes \in Seq(Mode) /\ \A i \in 1..Len(changes) : Complete(changes[i])

LEMMA Applied ==
    ASSUME NEW modes, ModesOK(modes), NEW changes, ChangesComplete(changes)
    PROVE  /\ Apply(modes, changes) = Applying(modes, changes, Len(changes))
           /\ \A i \in 0..Len(changes) : ApplyOK(Applying(modes, changes, i))
           /\ Applying(modes, changes, 0) = ApplyTo(modes)
           /\ \A i \in 1..Len(changes) :
                Applying(modes, changes, i) = ApplyMode(Applying(modes, changes, i - 1), changes[i])
<1> DEFINE n == Len(changes)
           T == {i \in 0..n : ApplyOK(Applying(modes, changes, i))}
<1>1. changes \in Seq(Mode) /\ n \in Nat /\ \A i \in 1..n : changes[i] \in Mode /\ Complete(changes[i])
  BY DEF ChangesComplete
<1>2. Apply(modes, changes) = Applying(modes, changes, n)
  BY <1>1, FoldIsAt DEF Apply, Applying, ApplyTo
<1>3. Applying(modes, changes, 0) = ApplyTo(modes)
  BY <1>1, AtFirst DEF Applying
<1>4. ASSUME NEW i \in 1..n
      PROVE  Applying(modes, changes, i) = ApplyMode(Applying(modes, changes, i - 1), changes[i])
  <2>1. Applying(modes, changes, i) = Step("apply", Applying(modes, changes, i - 1), changes[i])
    BY <1>1, AtNext DEF Applying
  <2> QED
    BY <2>1, StepIs, Zenon
<1>5. ApplyOK(ApplyTo(modes))
  BY DEF ApplyTo, ApplyOK
<1>6. \A i \in 0..n : i \in T
  <2>1. 0 \in T
    BY <1>1, <1>3, <1>5
  <2>2. ASSUME NEW i \in 1..n, i - 1 \in T
        PROVE  i \in T
    BY <1>1, <1>4, <2>2, ApplyKeeps
  <2> HIDE DEF T
  <2>3. T \in SUBSET (0..n)
    BY DEF T
  <2> QED
    BY <1>1, <2>1, <2>2, <2>3, BoundedInduction
<1> QED
  BY <1>2, <1>3, <1>4, <1>6

\* The changes of a mode line are complete.
LEMMA LineChanges ==
    ASSUME NEW line \in Line
    PROVE  IsLine(line) /\ ChangesComplete(ParseModeChange(line).changes)
<1>1. IsLine(line)
  BY ModesAssumption DEF IsLine
<1>2. Len(line.text) \in 0..Len(line.text)
  BY <1>1 DEF IsLine
<1>3. ReadOK(ParseModeChange(line))
  BY <1>1, <1>2, Parsed
<1> QED
  BY <1>1, <1>3 DEF ReadOK, ChangesOK, ChangesComplete

LEMMA ModesInvariance == Spec => []ModesOK(am)
<1>1. Init => ModesOK(am)
  BY FS_EmptySet DEF Init, Empty, ModesOK, IsMap
<1>2. ModesOK(am) /\ [Next]_vars => ModesOK(am)'
  <2> SUFFICES ASSUME ModesOK(am), [Next]_vars
               PROVE  ModesOK(am')
    OBVIOUS
  <2>1. CASE UNCHANGED vars
    BY <2>1 DEF vars
  <2>2. ASSUME NEW line \in Line, Change(line)
        PROVE  ModesOK(am')
    <3> DEFINE changes == ParseModeChange(line).changes
    <3>1. ChangesComplete(changes) /\ Len(changes) \in 0..Len(changes)
      BY LineChanges DEF ChangesComplete
    <3>2. am' = Apply(am, changes).modes
      BY <2>2 DEF Change
    <3> HIDE DEF changes
    <3> QED
      BY <3>1, <3>2, Applied DEF ApplyOK
  <2> QED
    BY <2>1, <2>2 DEF Next
<1> QED
  BY <1>1, <1>2, PTL DEF Spec

-----------------------------------------------------------------------------
(* What a line may do to a letter. *)

\* The modes after one mode of a change, letter by letter.
LEMMA ApplyOther ==
    ASSUME NEW acc, ApplyOK(acc), NEW m \in Mode, Complete(m), NEW ch, ch # m.char
    PROVE  /\ ch \in DOMAIN ApplyMode(acc, m).modes <=> ch \in DOMAIN acc.modes
           /\ ch \in DOMAIN acc.modes => ApplyMode(acc, m).modes[ch] = acc.modes[ch]
<1>1. ASSUME NEW modes, Accepts(acc, m, modes),
             modes = Without(acc.modes, m.char) \/ \E args : modes = With(acc.modes, m.char, args)
      PROVE  /\ ch \in DOMAIN ApplyMode(acc, m).modes <=> ch \in DOMAIN acc.modes
             /\ ch \in DOMAIN acc.modes => ApplyMode(acc, m).modes[ch] = acc.modes[ch]
  <2>1. ApplyMode(acc, m).modes = modes
    BY <1>1 DEF Accepts
  <2> QED
    BY <1>1, <2>1 DEF With, Without, Restrict
<1>2. \/ ApplyList(acc.modes, m) = Without(acc.modes, m.char)
      \/ \E args : ApplyList(acc.modes, m) = With(acc.modes, m.char, args)
  BY DEF ApplyList, StoreList
<1>3. CASE acc.panic
  BY <1>3 DEF ApplyMode
<1>4. CASE ApplyMode(acc, m).modes = acc.modes
  BY <1>4
<1>5. CASE Refuses(acc, m)
  BY <1>4, <1>5 DEF Refuses
<1>6. CASE ~acc.panic
  BY <1>1, <1>2, <1>4, <1>5, <1>6, ApplyCases
<1> QED
  BY <1>3, <1>6 DEF ApplyOK

LEMMA KeyStep ==
    ASSUME NEW acc, ApplyOK(acc), NEW m \in Mode, Complete(m), NEW ch \in Key,
           ch \in DOMAIN acc.modes
    PROVE  \/ ch \in DOMAIN ApplyMode(acc, m).modes /\ ApplyMode(acc, m).modes[ch] = acc.modes[ch]
           \/ m = [char |-> ch, op |-> "unset", args |-> acc.modes[ch]]
<1>1. CASE m.char # ch
  BY <1>1, ApplyOther
<1>2. CASE acc.panic
  BY <1>2 DEF ApplyMode
<1>3. CASE m.char = ch /\ ~acc.panic
  <2>1. m.char \notin List /\ ~Sets(acc.modes, m)
    BY <1>3, ModesAssumption DEF Sets
  <2>2. \/ Unsets(acc.modes, m) /\ m.args = acc.modes[ch]
        \/ ApplyMode(acc, m).modes = acc.modes
    BY <1>3, <2>1, ApplyCases DEF Refuses
  <2>3. Unsets(acc.modes, m) /\ m.args = acc.modes[ch] => m = [char |-> ch, op |-> "unset", args |-> acc.modes[ch]]
    BY <1>3 DEF Unsets, Mode
  <2> QED
    BY <2>2, <2>3
<1> QED
  BY <1>1, <1>2, <1>3 DEF ApplyOK

\* A key goes only when a line names it, at whatever place of a line of any length,
\* and whatever is refused around it.
THEOREM KeyNamedCorrect == Spec => []KeyNamed
<1>1. ModesOK(am) => KeyNamed
  <2> SUFFICES ASSUME ModesOK(am), NEW line \in Line, NEW ch \in Key \cap DOMAIN am
               PROVE  LET changes == ParseModeChange(line).changes
                          after == Apply(am, changes)
                      IN \/ Has(after.modes, ch, am[ch])
                         \/ \E i \in DOMAIN changes :
                              changes[i] = [char |-> ch, op |-> "unset", args |-> am[ch]]
    BY DEF KeyNamed
  <2> DEFINE changes == ParseModeChange(line).changes
             n == Len(changes)
             acc(i) == Applying(am, changes, i)
             Named(i) == \E j \in 1..i : changes[j] = [char |-> ch, op |-> "unset", args |-> am[ch]]
             Kept(i) == ch \in DOMAIN acc(i).modes /\ acc(i).modes[ch] = am[ch]
             T == {i \in 0..n : Kept(i) \/ Named(i)}
  <2>1. ChangesComplete(changes) /\ n \in Nat /\ DOMAIN changes = 1..n
    BY LineChanges DEF ChangesComplete
  <2> HIDE DEF changes
  <2>2. /\ Apply(am, changes) = acc(n) /\ acc(0) = ApplyTo(am)
        /\ \A i \in 0..n : ApplyOK(acc(i))
        /\ \A i \in 1..n : acc(i) = ApplyMode(acc(i - 1), changes[i])
    BY <2>1, Applied
  <2>3. \A i \in 1..n : changes[i] \in Mode /\ Complete(changes[i])
    BY <2>1 DEF ChangesComplete
  <2> HIDE DEF acc
  <2>4. 0 \in T
    BY <2>1, <2>2 DEF ApplyTo
  <2>5. ASSUME NEW i \in 1..n, i - 1 \in T
        PROVE  i \in T
    <3>1. i - 1 \in 0..n /\ i \in 0..n /\ (Kept(i - 1) \/ Named(i - 1))
      BY <2>5
    <3>2. CASE Named(i - 1)
      BY <3>1, <3>2
    <3>3. CASE Kept(i - 1)
      <4>1. ApplyOK(acc(i - 1)) /\ acc(i) = ApplyMode(acc(i - 1), changes[i])
        BY <2>2, <3>1
      <4>2. Kept(i) \/ changes[i] = [char |-> ch, op |-> "unset", args |-> am[ch]]
        BY <2>3, <3>3, <4>1, KeyStep
      <4> QED
        BY <3>1, <4>2
    <3> QED
      BY <3>1, <3>2, <3>3
  <2> HIDE DEF T
  <2>6. T \in SUBSET (0..n)
    BY DEF T
  <2>7. n \in T
    <3>1. \A i \in 0..n : i \in T
      BY <2>1, <2>4, <2>5, <2>6, BoundedInduction
    <3> QED
      BY <2>1, <3>1
  <2>8. Kept(n) \/ Named(n)
    BY <2>7 DEF T
  <2> QED
    BY <2>1, <2>2, <2>8 DEF Has, changes
<1> QED
  BY <1>1, ModesInvariance, PTL

\* The limit that is removed in the change of a panic.
LEMMA PanicStep ==
    ASSUME NEW acc, ApplyOK(acc), ~acc.panic, NEW m \in Mode, Complete(m), ApplyMode(acc, m).panic
    PROVE  m.char \in Limit /\ m.op = "unset" /\ m.char \in DOMAIN acc.modes
BY ApplyCases DEF Accepts, Refuses, Unsets

LEMMA LimitStep ==
    ASSUME NEW acc, ApplyOK(acc), NEW m \in Mode, Complete(m), NEW ch \in Limit,
           ch \in DOMAIN ApplyMode(acc, m).modes
    PROVE  ch \in DOMAIN acc.modes \/ (m.char = ch /\ m.op = "set")
<1>1. CASE m.char # ch
  BY <1>1, ApplyOther
<1>2. CASE acc.panic
  BY <1>2 DEF ApplyMode
<1>3. CASE m.char = ch /\ ~acc.panic
  <2>1. m.char \notin List
    BY <1>3, ModesAssumption
  <2>2. Sets(acc.modes, m) \/ Unsets(acc.modes, m) \/ ApplyMode(acc, m) = acc
    BY <1>3, <2>1, ApplyCases
  <2> QED
    BY <1>3, <2>2 DEF Sets, Unsets
<1> QED
  BY <1>1, <1>2, <1>3 DEF ApplyOK

\* An argument that is not there is compared only when a limit that is set is
\* removed: no other mode line, however long, ends the process.
THEOREM PanicOnlyOnLimitCorrect == Spec => []PanicOnlyOnLimit
<1>1. ModesOK(am) => PanicOnlyOnLimit
  <2> DEFINE Culprit(changes, i) ==
               /\ changes[i].char \in Limit /\ changes[i].op = "unset"
               /\ \/ changes[i].char \in DOMAIN am
                  \/ \E j \in 1..(i - 1) : changes[j].char = changes[i].char /\ changes[j].op = "set"
  <2> SUFFICES ASSUME ModesOK(am), NEW line \in Line, Apply(am, ParseModeChange(line).changes).panic
               PROVE  \E i \in DOMAIN ParseModeChange(line).changes : Culprit(ParseModeChange(line).changes, i)
    BY DEF PanicOnlyOnLimit
  <2> DEFINE changes == ParseModeChange(line).changes
             n == Len(changes)
             acc(i) == Applying(am, changes, i)
             Known(i) == \A ch \in Limit : ch \in DOMAIN acc(i).modes =>
                           ch \in DOMAIN am \/ \E j \in 1..i : changes[j].char = ch /\ changes[j].op = "set"
             T == {i \in 0..n : Known(i) /\ (acc(i).panic => \E j \in 1..i : Culprit(changes, j))}
  <2>1. ChangesComplete(changes) /\ n \in Nat /\ DOMAIN changes = 1..n
    BY LineChanges DEF ChangesComplete
  <2> HIDE DEF changes
  <2>2. /\ Apply(am, changes) = acc(n) /\ acc(0) = ApplyTo(am)
        /\ \A i \in 0..n : ApplyOK(acc(i))
        /\ \A i \in 1..n : acc(i) = ApplyMode(acc(i - 1), changes[i])
    BY <2>1, Applied
  <2>3. \A i \in 1..n : changes[i] \in Mode /\ Complete(changes[i])
    BY <2>1 DEF ChangesComplete
  <2> HIDE DEF acc
  <2>4. 0 \in T
    BY <2>1, <2>2 DEF ApplyTo
  <2>5. ASSUME NEW i \in 1..n, i - 1 \in T
        PROVE  i \in T
    <3>1. /\ i - 1 \in 0..n /\ i \in 0..n /\ Known(i - 1)
          /\ acc(i - 1).panic => \E j \in 1..(i - 1) : Culprit(changes, j)
      BY <2>5
    <3>2. ApplyOK(acc(i - 1)) /\ acc(i) = ApplyMode(acc(i - 1), changes[i])
      BY <2>2, <3>1
    <3>3. \A j \in 1..(i - 1) : j \in 1..i
      BY <3>1
    <3>4. i \in 1..i
      OBVIOUS
    <3> HIDE DEF T
    <3>5. Known(i)
      <4> SUFFICES ASSUME NEW ch \in Limit, ch \in DOMAIN acc(i).modes
                   PROVE  ch \in DOMAIN am \/ \E j \in 1..i : changes[j].char = ch /\ changes[j].op = "set"
        OBVIOUS
      <4>1. ch \in DOMAIN acc(i - 1).modes \/ (changes[i].char = ch /\ changes[i].op = "set")
        BY <2>3, <3>2, LimitStep
      <4> QED
        BY <3>1, <3>3, <3>4, <4>1
    <3>6. ASSUME acc(i).panic
          PROVE  \E j \in 1..i : Culprit(changes, j)
      <4>1. CASE acc(i - 1).panic
        BY <3>1, <3>3, <4>1
      <4>2. CASE ~acc(i - 1).panic
        <5>1. changes[i].char \in Limit /\ changes[i].op = "unset" /\ changes[i].char \in DOMAIN acc(i - 1).modes
          BY <2>3, <3>2, <3>6, <4>2, PanicStep
        <5>2. Culprit(changes, i)
          BY <3>1, <5>1
        <5> QED
          BY <3>4, <5>2
      <4> QED
        BY <4>1, <4>2
    <3> QED
      BY <3>1, <3>5, <3>6 DEF T
  <2> HIDE DEF T
  <2>6. T \in SUBSET (0..n)
    BY DEF T
  <2>7. n \in T
    <3>1. \A i \in 0..n : i \in T
      BY <2>1, <2>4, <2>5, <2>6, BoundedInduction
    <3> QED
      BY <2>1, <3>1
  <2> QED
    BY <2>1, <2>2, <2>7 DEF T, changes
<1> QED
  BY <1>1, ModesInvariance, PTL

\* m says something of the argument, or of the flag.
Speaks(m, ch, args) == m.char = ch /\ m.args = args /\ m.op # "query"

LEMMA HasStep ==
    ASSUME NEW acc, ApplyOK(acc), NEW m \in Mode, Complete(m), ~ApplyMode(acc, m).panic,
           NEW ch, NEW args,
           (ch \in Flag /\ args = {}) \/ (ch \in List /\ \E a \in Arg : args = {a})
    PROVE  /\ ~acc.panic
           /\ Speaks(m, ch, args) => (Has(ApplyMode(acc, m).modes, ch, args) <=> m.op = "set")
           /\ ~Speaks(m, ch, args) => (Has(ApplyMode(acc, m).modes, ch, args) <=> Has(acc.modes, ch, args))
<1>1. ~acc.panic
  BY DEF ApplyMode
<1>2. CASE m.char # ch
  BY <1>1, <1>2, ApplyOther DEF Has, Speaks
<1>3. CASE m.char = ch /\ ch \in Flag
  <2>1. /\ ch \notin List /\ args = {} /\ m.args = {}
        /\ m.op \in {"query", "set", "unset"}
    BY <1>3, ModesAssumption DEF Complete, NeedsArg, Mode
  <2>2. \A modes : Has(modes, ch, args) <=> ch \in DOMAIN modes
    BY <2>1 DEF Has
  <2>3. \/ Sets(acc.modes, m) /\ ApplyMode(acc, m).modes = With(acc.modes, ch, {})
        \/ Unsets(acc.modes, m) /\ ApplyMode(acc, m).modes = Without(acc.modes, ch)
        \/ ~Sets(acc.modes, m) /\ ~Unsets(acc.modes, m) /\ ApplyMode(acc, m).modes = acc.modes
    <3>1. m.char \notin Key /\ m.char \notin Limit
      BY <1>3, ModesAssumption
    <3>2. \/ Sets(acc.modes, m) /\ Accepts(acc, m, With(acc.modes, ch, {}))
          \/ Unsets(acc.modes, m) /\ Accepts(acc, m, Without(acc.modes, ch))
          \/ ~Sets(acc.modes, m) /\ ~Unsets(acc.modes, m) /\ ApplyMode(acc, m) = acc
      BY <1>1, <1>3, <2>1, <3>1, ApplyCases
    <3>3. \A modes : Accepts(acc, m, modes) => ApplyMode(acc, m).modes = modes
      BY DEF Accepts
    <3> QED
      BY <3>2, <3>3
  <2>4. /\ DOMAIN With(acc.modes, ch, {}) = DOMAIN acc.modes \cup {ch}
        /\ DOMAIN Without(acc.modes, ch) = DOMAIN acc.modes \ {ch}
    BY DEF With, Without, Restrict
  <2> QED
    BY <1>1, <1>3, <2>1, <2>2, <2>3, <2>4 DEF Speaks, Sets, Unsets
<1>4. CASE m.char = ch /\ ch \in List
  <2> DEFINE old == OldArgs(acc.modes, ch)
             new == ArgsAfter(old, m)
  <2>1. PICK a \in Arg : args = {a}
    BY <1>4, ModesAssumption
  <2>2. /\ m.op \in {"query", "set", "unset"}
        /\ IF m.op = "query" THEN m.args = {} ELSE \E b \in Arg : m.args = {b}
    BY <1>4, ModesAssumption DEF Complete, NeedsArg, Mode
  <2>3. ApplyMode(acc, m).modes = IF new = {} THEN Without(acc.modes, ch) ELSE With(acc.modes, ch, new)
    <3>1. m.char \in List /\ m.char \notin Key /\ m.char \notin Limit
      BY <1>4, ModesAssumption
    <3>2. ApplyMode(acc, m).modes = ApplyList(acc.modes, m)
      BY <1>1, <3>1, ApplyCases DEF Accepts
    <3> QED
      BY <1>4, <3>2 DEF ApplyList, StoreList, OldArgs
  <2>4. Has(acc.modes, ch, args) <=> a \in old
    BY <2>1 DEF Has, OldArgs
  <2>5. Has(ApplyMode(acc, m).modes, ch, args) <=> a \in new
    <3>1. ch \notin DOMAIN Without(acc.modes, ch)
      BY DEF Without, Restrict
    <3>2. ch \in DOMAIN With(acc.modes, ch, new) /\ With(acc.modes, ch, new)[ch] = new
      BY DEF With
    <3> HIDE DEF new
    <3> QED
      BY <2>1, <2>3, <3>1, <3>2 DEF Has
  <2>6. /\ m.op = "set" => new = old \cup m.args
        /\ m.op = "unset" => new = old \ m.args
        /\ m.op = "query" => new = old
    BY DEF ArgsAfter
  <2> HIDE DEF old, new
  <2>7. Speaks(m, ch, args) => (a \in new <=> m.op = "set")
    BY <2>1, <2>2, <2>6 DEF Speaks
  <2>8. ~Speaks(m, ch, args) => (a \in new <=> a \in old)
    BY <1>4, <2>1, <2>2, <2>6 DEF Speaks
  <2> QED
    BY <1>1, <2>4, <2>5, <2>7, <2>8
<1> QED
  BY <1>2, <1>3, <1>4

\* What the last change in the line says of a flag, or of an argument of a list, is
\* what holds after it, whatever else is in a line of any length.
THEOREM LastWinsCorrect == Spec => []LastWins
<1>1. ModesOK(am) => LastWins
  <2> SUFFICES ASSUME ModesOK(am), NEW line \in Line, NEW ch \in Flag \cup List,
                      NEW args \in IF ch \in Flag THEN {{}} ELSE {{a} : a \in Arg},
                      ~Apply(am, ParseModeChange(line).changes).panic
               PROVE  LET changes == ParseModeChange(line).changes
                          said == Said(changes, ch, args)
                      IN Has(Apply(am, changes).modes, ch, args) =
                           IF said = {} THEN Has(am, ch, args) ELSE changes[Max(said)].op = "set"
    BY DEF LastWins
  <2> DEFINE changes == ParseModeChange(line).changes
             n == Len(changes)
             acc(i) == Applying(am, changes, i)
             said == Said(changes, ch, args)
             Unsaid(i) == (\A j \in said : j > i) /\ (~acc(i).panic => (Has(acc(i).modes, ch, args) <=> Has(am, ch, args)))
             Last1(i) == \E j \in said : /\ j <= i /\ \A k \in said : k <= i => k <= j
                                         /\ ~acc(i).panic => (Has(acc(i).modes, ch, args) <=> changes[j].op = "set")
             T == {i \in 0..n : Unsaid(i) \/ Last1(i)}
  <2>1. ChangesComplete(changes) /\ n \in Nat /\ DOMAIN changes = 1..n
    BY LineChanges DEF ChangesComplete
  <2>2. (ch \in Flag /\ args = {}) \/ (ch \in List /\ \E a \in Arg : args = {a})
    <3>1. CASE ch \in Flag
      BY <3>1
    <3>2. CASE ch \notin Flag
      <4>1. args \in {{a} : a \in Arg}
        BY <3>2, Zenon
      <4> QED
        BY <3>2, <4>1
    <3> QED
      BY <3>1, <3>2
  <2> HIDE DEF changes
  <2>3. said \in SUBSET (1..n) /\ \A i \in 1..n : i \in said <=> Speaks(changes[i], ch, args)
    BY <2>1 DEF Said, Speaks
  <2>4. /\ Apply(am, changes) = acc(n) /\ acc(0) = ApplyTo(am)
        /\ \A i \in 0..n : ApplyOK(acc(i))
        /\ \A i \in 1..n : acc(i) = ApplyMode(acc(i - 1), changes[i])
    BY <2>1, Applied
  <2>5. \A i \in 1..n : changes[i] \in Mode /\ Complete(changes[i])
    BY <2>1 DEF ChangesComplete
  <2> HIDE DEF acc, said
  <2>6. 0 \in T
    <3>1. Unsaid(0)
      BY <2>3, <2>4 DEF ApplyTo
    <3> QED
      BY <2>1, <3>1
  <2>7. ASSUME NEW i \in 1..n, i - 1 \in T
        PROVE  i \in T
    <3>1. i - 1 \in 0..n /\ i \in 0..n /\ (Unsaid(i - 1) \/ Last1(i - 1))
      BY <2>7
    <3> HIDE DEF T
    <3>2. ApplyOK(acc(i - 1)) /\ acc(i) = ApplyMode(acc(i - 1), changes[i])
      BY <2>4, <3>1
    <3>3. ~acc(i).panic =>
             /\ ~acc(i - 1).panic
             /\ i \in said => (Has(acc(i).modes, ch, args) <=> changes[i].op = "set")
             /\ i \notin said => (Has(acc(i).modes, ch, args) <=> Has(acc(i - 1).modes, ch, args))
      BY <2>2, <2>3, <2>5, <3>2, HasStep
    <3>4. \A j \in said : j \in Int /\ (j <= i <=> j <= i - 1 \/ j = i)
      BY <2>3
    <3>5. CASE i \in said
      <4>1. Last1(i)
        BY <2>3, <3>3, <3>5
      <4> QED
        BY <3>1, <4>1 DEF T
    <3>6. CASE i \notin said /\ Unsaid(i - 1)
      <4>1. \A j \in said : j > i
        BY <2>3, <3>4, <3>6
      <4>2. Unsaid(i)
        BY <3>3, <3>6, <4>1
      <4> QED
        BY <3>1, <4>2 DEF T
    <3>7. CASE i \notin said /\ Last1(i - 1)
      <4>1. PICK j \in said : /\ j <= i - 1 /\ \A k \in said : k <= i - 1 => k <= j
                              /\ ~acc(i - 1).panic => (Has(acc(i - 1).modes, ch, args) <=> changes[j].op = "set")
        BY <3>7
      <4>2. j <= i /\ \A k \in said : k <= i => k <= j
        BY <3>4, <3>7, <4>1
      <4>3. ~acc(i).panic => (Has(acc(i).modes, ch, args) <=> changes[j].op = "set")
        BY <3>3, <3>7, <4>1
      <4>4. Last1(i)
        BY <4>2, <4>3
      <4> QED
        BY <3>1, <4>4 DEF T
    <3> QED
      BY <3>1, <3>5, <3>6, <3>7
  <2> HIDE DEF T
  <2>8. T \in SUBSET (0..n)
    BY DEF T
  <2>9. n \in T
    <3>1. \A i \in 0..n : i \in T
      BY <2>1, <2>6, <2>7, <2>8, BoundedInduction
    <3> QED
      BY <2>1, <3>1
  <2>10. ~acc(n).panic
    BY <2>4 DEF changes
  <2>11. Has(acc(n).modes, ch, args) \in BOOLEAN /\ Has(am, ch, args) \in BOOLEAN
    BY DEF Has
  <2>12. CASE said = {}
    <3>1. Has(acc(n).modes, ch, args) <=> Has(am, ch, args)
      BY <2>9, <2>10, <2>12 DEF T
    <3> QED
      BY <2>4, <2>11, <2>12, <3>1 DEF changes, said
  <2>13. CASE said # {}
    <3>1. Max(said) \in said /\ \A j \in said : Max(said) >= j
      BY <2>1, <2>3, <2>13, MaxOf
    <3>2. PICK j \in said : /\ j <= n /\ \A k \in said : k <= n => k <= j
                            /\ Has(acc(n).modes, ch, args) <=> changes[j].op = "set"
      BY <2>1, <2>3, <2>9, <2>10, <2>13 DEF T
    <3>3. j = Max(said)
      <4>1. \A x, y \in 1..n : x <= y /\ y >= x /\ y <= x => x = y
        OBVIOUS
      <4>2. Max(said) \in 1..n /\ j \in 1..n /\ Max(said) <= n
        <5>1. \A k \in said : k \in 1..n /\ k <= n
          BY <2>1, <2>3
        <5> QED
          BY <3>1, <3>2, <5>1
      <4>3. Max(said) <= j /\ Max(said) >= j
        BY <3>1, <3>2, <4>2
      <4> QED
        BY <4>2, <4>3
    <3>4. Has(acc(n).modes, ch, args) <=> changes[Max(said)].op = "set"
      BY <3>2, <3>3
    <3> QED
      BY <2>4, <2>11, <2>13, <3>4 DEF changes, said
  <2> QED
    BY <2>12, <2>13
<1> QED
  BY <1>1, ModesInvariance, PTL

-----------------------------------------------------------------------------
(* What is written is read. *)

\* A fold of a sequence begins as that of its prefix.
LEMMA AtPrefix ==
    ASSUME NEW fold, NEW base, NEW S, NEW p \in Seq(S), NEW q \in Seq(S), Len(p) <= Len(q),
           \A i \in 1..Len(p) : q[i] = p[i]
    PROVE  At(fold, base, q, Len(p)) = At(fold, base, p, Len(p))
<1> DEFINE n == Len(p)
           T == {i \in 0..n : At(fold, base, q, i) = At(fold, base, p, i)}
<1>1. n \in Nat /\ Len(q) \in Nat /\ \A i \in 1..n : i \in 1..Len(q)
  OBVIOUS
<1>2. 0 \in T
  <2>1. At(fold, base, q, 0) = base /\ At(fold, base, p, 0) = base
    BY AtFirst
  <2> QED
    BY <1>1, <2>1
<1>3. ASSUME NEW i \in 1..n, i - 1 \in T
      PROVE  i \in T
  <2>1. At(fold, base, p, i) = Step(fold, At(fold, base, p, i - 1), p[i])
    BY AtNext
  <2>2. i \in 1..Len(q)
    BY <1>1
  <2>3. At(fold, base, q, i) = Step(fold, At(fold, base, q, i - 1), q[i])
    BY <2>2, AtNext
  <2>4. q[i] = p[i] /\ i \in 0..n
    OBVIOUS
  <2> QED
    BY <1>3, <2>1, <2>3, <2>4
<1> HIDE DEF T
<1>4. T \in SUBSET (0..n)
  BY DEF T
<1>5. \A i \in 0..n : i \in T
  BY <1>1, <1>2, <1>3, <1>4, BoundedInduction
<1>6. n \in T
  BY <1>1, <1>5
<1> QED
  BY <1>6 DEF T

LEMMA InSequence ==
    ASSUME NEW S, IsFiniteSet(S)
    PROVE  /\ Cardinality(S) \in Nat /\ (Cardinality(S) = 0 <=> S = {})
           /\ SetToSeq(S) \in [1..Cardinality(S) -> S] /\ SetToSeq(S) \in Seq(S)
           /\ Len(SetToSeq(S)) = Cardinality(S)
           /\ \A x \in S : \E j \in 1..Cardinality(S) : SetToSeq(S)[j] = x
<1> DEFINE n == Cardinality(S)
           s == SetToSeq(S)
<1>1. n \in Nat /\ ExistsBijection(1..n, S)
  BY FS_CardinalityType
<1>2. n = 0 <=> S = {}
  BY FS_EmptySet
<1>3. \E f \in [1..n -> S] : IsInjective(f)
  BY <1>1 DEF ExistsBijection, Bijection, Injection
<1>4. s \in [1..n -> S] /\ IsInjective(s)
  BY <1>3 DEF SetToSeq
<1> HIDE DEF s
<1>5. s \in Seq(S) /\ Len(s) = n
  BY <1>1, <1>4
<1>6. s \in Injection(1..n, S)
  BY <1>4 DEF Injection
<1>7. IsFiniteSet(1..n) /\ Cardinality(1..n) = n
  BY <1>1, FS_Interval
<1>8. s \in Surjection(1..n, S)
  BY <1>6, <1>7, FS_Injection
<1>9. \A x \in S : \E j \in 1..n : s[j] = x
  BY <1>8 DEF Surjection
<1> QED
  BY <1>1, <1>2, <1>4, <1>5, <1>9 DEF s

\* Steps of reading that succeed.
LEMMA ReadSign ==
    ASSUME NEW acc, acc = [op |-> acc.op, argv |-> acc.argv, changes |-> acc.changes, errors |-> acc.errors]
    PROVE  /\ Read(acc, "+") = [op |-> "set", argv |-> acc.argv, changes |-> acc.changes, errors |-> acc.errors]
           /\ Read(acc, "-") = [op |-> "unset", argv |-> acc.argv, changes |-> acc.changes, errors |-> acc.errors]
BY DEF Read

LEMMA ReadLetter ==
    ASSUME NEW acc, acc = [op |-> acc.op, argv |-> acc.argv, changes |-> acc.changes, errors |-> acc.errors],
           acc.argv \in Seq(Arg), NEW ch \in Letter
    PROVE  /\ ~NeedsArg(ch, acc.op) =>
                Read(acc, ch) = [op |-> acc.op, argv |-> acc.argv, errors |-> acc.errors,
                                 changes |-> Append(acc.changes, [char |-> ch, op |-> acc.op, args |-> {}])]
           /\ NeedsArg(ch, acc.op) /\ acc.argv # <<>> =>
                Read(acc, ch) = [op |-> acc.op, argv |-> Tail(acc.argv), errors |-> acc.errors,
                                 changes |-> Append(acc.changes, [char |-> ch, op |-> acc.op, args |-> {acc.argv[1]}])]
<1> DEFINE used == IF NeedsArg(ch, acc.op) THEN 1 ELSE 0
           m == [char |-> ch, op |-> acc.op, args |-> ToSet(SubSeq(acc.argv, 1, used))]
           rest == SubSeq(acc.argv, used + 1, Len(acc.argv))
<1>1. ch \notin {"+", "-"}
  BY ModesAssumption
<1>2. ASSUME ~(NeedsArg(ch, acc.op) /\ acc.argv = <<>>)
      PROVE  Read(acc, ch) = [op |-> acc.op, argv |-> rest, changes |-> Append(acc.changes, m),
                              errors |-> acc.errors]
  BY <1>1, <1>2 DEF Read
<1>3. ASSUME NeedsArg(ch, acc.op), acc.argv # <<>>
      PROVE  ToSet(SubSeq(acc.argv, 1, used)) = {acc.argv[1]} /\ rest = Tail(acc.argv)
  BY <1>3 DEF ToSet
<1>4. ASSUME ~NeedsArg(ch, acc.op)
      PROVE  ToSet(SubSeq(acc.argv, 1, used)) = {} /\ rest = acc.argv
  BY <1>4 DEF ToSet
<1> HIDE DEF used, rest
<1>5. CASE NeedsArg(ch, acc.op) /\ acc.argv # <<>>
  BY <1>2, <1>3, <1>5
<1>6. CASE ~NeedsArg(ch, acc.op)
  BY <1>2, <1>4, <1>6
<1> QED
  BY <1>5, <1>6

\* The modes that can be written: they have arguments if they need them, and
\* queries come first.
Writable(m) == m \in Mode /\ IsFiniteSet(m.args) /\ (m.args = {} <=> ~NeedsArg(m.char, m.op))
AllWritable(ms) ==
    /\ ms \in Seq(Mode) /\ \A i \in 1..Len(ms) : Writable(ms[i])
    /\ \A i, j \in 1..Len(ms) : i < j /\ ms[j].op = "query" => ms[i].op = "query"

LEMMA SplitIs ==
    ASSUME NEW m, Writable(m)
    PROVE  /\ Split(m) \in Seq(Mode) /\ Len(Split(m)) = Len(Letters(m)) /\ Len(Letters(m)) \in Nat \ {0}
           /\ Letters(m) \in Seq(Char) /\ \A j \in 1..Len(Letters(m)) : Letters(m)[j] = m.char
           /\ m.args = {} => Split(m) = <<m>> /\ Letters(m) = <<m.char>>
           /\ m.args # {} => /\ Len(Letters(m)) = Len(SetToSeq(m.args))
                             /\ \A j \in 1..Len(Letters(m)) :
                                  Split(m)[j] = [char |-> m.char, op |-> m.op, args |-> {SetToSeq(m.args)[j]}]
<1>1. m \in Mode /\ IsFiniteSet(m.args) /\ m.char \in Letter /\ m.char \in Char
  BY DEF Writable, Mode, Char
<1>2. CASE m.args = {}
  <2>1. Split(m) = <<m>> /\ Letters(m) = <<m.char>>
    BY <1>2 DEF Split, Letters
  <2> QED
    BY <1>1, <1>2, <2>1
<1>3. CASE m.args # {}
  <2> DEFINE k == Cardinality(m.args)
             s == SetToSeq(m.args)
  <2>1. k \in Nat \ {0} /\ s \in [1..k -> m.args] /\ Len(s) = k
    BY <1>1, <1>3, InSequence
  <2>2. Letters(m) = [i \in 1..k |-> m.char]
    BY <1>3 DEF Letters
  <2>3. Split(m) = [j \in 1..k |-> [char |-> m.char, op |-> m.op, args |-> {s[j]}]]
    BY <1>3 DEF Split
  <2>4. \A j \in 1..k : [char |-> m.char, op |-> m.op, args |-> {s[j]}] \in Mode
    BY <1>1, <2>1 DEF Mode
  <2> HIDE DEF k, s
  <2>5. Letters(m) \in Seq(Char) /\ Len(Letters(m)) = k /\ \A j \in 1..k : Letters(m)[j] = m.char
    BY <1>1, <2>1, <2>2
  <2>6. Split(m) \in Seq(Mode) /\ Len(Split(m)) = k
    BY <2>1, <2>3, <2>4
  <2> QED
    BY <1>3, <2>1, <2>3, <2>5, <2>6 DEF s
<1> QED
  BY <1>2, <1>3

LEMMA SubSeqGrows ==
    ASSUME NEW S, NEW c \in Seq(S), NEW d \in Seq(S), NEW j \in 1..Len(d)
    PROVE  Append(c \o SubSeq(d, 1, j - 1), d[j]) = c \o SubSeq(d, 1, j)
<1>1. PICK x : x = SubSeq(d, 1, j - 1)
  OBVIOUS
<1>2. SubSeq(d, 1, j) = x \o <<d[j]>>
  <2>1. 1 \in 1..Len(d) /\ j \in 1..Len(d)
    OBVIOUS
  <2> QED
    BY <1>1, <2>1, SubSeqRecursiveSecond
<1>3. x \in Seq(S) /\ d[j] \in S /\ <<d[j]>> \in Seq(S) /\ c \o x \in Seq(S)
  BY <1>1
<1>4. Append(c \o x, d[j]) = (c \o x) \o <<d[j]>>
  BY <1>3, AppendIsConcat
<1>5. (c \o x) \o <<d[j]>> = c \o (x \o <<d[j]>>)
  BY <1>3, ConcatAssociative, SMTT(30)
<1> QED
  BY <1>1, <1>2, <1>4, <1>5

LEMMA FrontIs ==
    ASSUME NEW S, NEW e \in S, NEW s \in Seq(S), NEW r, r = <<e>> \o s
    PROVE  r \in Seq(S) /\ r # <<>> /\ r[1] = e
<1>1. <<e>> \in Seq(S) /\ Len(<<e>>) = 1 /\ <<e>>[1] = e
  OBVIOUS
<1>2. Len(s) \in Nat
  OBVIOUS
<1>3. r \in Seq(S) /\ Len(r) = 1 + Len(s) /\ \A i \in 1..(1 + Len(s)) : r[i] = IF i <= 1 THEN <<e>>[i] ELSE s[i - 1]
  BY <1>1, ConcatProperties
<1>4. 1 \in 1..(1 + Len(s)) /\ 1 + Len(s) # 0
  BY <1>2
<1>5. r[1] = e
  BY <1>1, <1>3, <1>4
<1>6. r # <<>>
  BY <1>3, <1>4
<1> QED
  BY <1>3, <1>5, <1>6

\* The arguments that are left begin with the next one.
BeginsWith(r, S, a, v, j) ==
    /\ r \in Seq(S) /\ r # <<>> /\ r[1] = a[j]
    /\ Tail(r) = SubSeq(a \o v, j + 1, Len(a) + Len(v))

LEMMA RestStep ==
    ASSUME NEW S, NEW a \in Seq(S), NEW v \in Seq(S), NEW j \in 1..Len(a), NEW r,
           r = SubSeq(a \o v, j, Len(a) + Len(v))
    PROVE  BeginsWith(r, S, a, v, j)
<1>1. PICK av, n : av = a \o v /\ n = Len(a) + Len(v)
  OBVIOUS
<1>2. av \in Seq(S) /\ Len(av) = n /\ j \in 1..Len(av) /\ n \in j..Len(av) /\ av[j] = a[j]
  BY <1>1
<1>3. r = SubSeq(av, j, n)
  BY <1>1
<1>4. r = <<av[j]>> \o SubSeq(av, j + 1, n)
  BY <1>2, <1>3, SubSeqRecursiveFirst
<1>5. Tail(r) = SubSeq(av, j + 1, n)
  BY <1>2, <1>3, HeadTailOfSubSeq
<1>6. SubSeq(av, j + 1, n) \in Seq(S) /\ <<av[j]>> \in Seq(S)
  BY <1>2
<1>7. r \in Seq(S) /\ r # <<>> /\ r[1] = av[j]
  <2>1. av[j] \in S
    BY <1>2
  <2> QED
    BY <1>4, <1>6, <2>1, FrontIs, ZenonT(40)
<1> QED
  BY <1>1, <1>2, <1>5, <1>7 DEF BeginsWith

LEMMA ReadingNext ==
    ASSUME NEW line, IsLine(line), NEW i \in 1..Len(line.text)
    PROVE  Reading(line, i) = Read(Reading(line, i - 1), line.text[i])
BY Parsed

Operation == {"query", "set", "unset"}

\* The sign before a mode that is written is read.
AfterSign(line, t, old, op, sign, argv, c) ==
    Reading(line, t + Len(sign)) = [op |-> op, argv |-> argv, changes |-> c, errors |-> <<>>]

LEMMA ReadsSign ==
    ASSUME NEW line, IsLine(line), NEW t \in Nat, NEW old \in Operation, NEW op \in Operation,
           op = "query" => old = "query", NEW sign, sign = Sign(old, op),
           t + Len(sign) <= Len(line.text), \A j \in 1..Len(sign) : line.text[t + j] = sign[j],
           NEW argv, NEW c,
           Reading(line, t) = [op |-> old, argv |-> argv, changes |-> c, errors |-> <<>>]
    PROVE  AfterSign(line, t, old, op, sign, argv, c)
<1> USE DEF AfterSign
<1>1. \/ op = old /\ sign = <<>>
      \/ op = "set" /\ sign = <<"+">>
      \/ op = "unset" /\ sign = <<"-">>
  BY DEF Operation, Sign
<1>2. CASE op = old /\ sign = <<>>
  BY <1>2
<1>3. ASSUME NEW ch, sign = <<ch>>
      PROVE  Reading(line, t + 1) = Read(Reading(line, t), ch) /\ Len(sign) = 1
  <2>1. Len(sign) = 1 /\ sign[1] = ch
    BY <1>3
  <2>2. line.text[t + 1] = ch /\ t + 1 <= Len(line.text)
    BY <2>1
  <2>3. t + 1 \in 1..Len(line.text) /\ t + 1 - 1 = t
    BY <2>2 DEF IsLine
  <2>4. Reading(line, t + 1) = Read(Reading(line, t + 1 - 1), line.text[t + 1])
    BY <2>3, ReadingNext
  <2> QED
    BY <2>1, <2>2, <2>3, <2>4
<1>4. CASE op = "set" /\ sign = <<"+">>
  BY <1>3, <1>4, ReadSign, ZenonT(40)
<1>5. CASE op = "unset" /\ sign = <<"-">>
  BY <1>3, <1>5, ReadSign, ZenonT(40)
<1> QED
  BY <1>1, <1>2, <1>4, <1>5

\* What is left of the arguments after j letters of m.
LeftOf(m, a, v, j) == IF m.args = {} THEN v ELSE SubSeq(a \o v, j + 1, Len(a) + Len(v))

ReadsOne(m, v, c, a, d, j, acc) ==
    Read(acc, m.char) =
      [op |-> m.op, argv |-> LeftOf(m, a, v, j), changes |-> c \o SubSeq(d, 1, j), errors |-> <<>>]

LEMMA ReadsOneLetter ==
    ASSUME NEW m, Writable(m), NEW v \in Seq(Arg), NEW c \in Seq(Mode), NEW a, a = SetToSeq(m.args),
           NEW d, d = Split(m), NEW j \in 1..Len(Letters(m)), NEW acc,
           acc = [op |-> m.op, argv |-> LeftOf(m, a, v, j - 1), changes |-> c \o SubSeq(d, 1, j - 1),
                  errors |-> <<>>]
    PROVE  ReadsOne(m, v, c, a, d, j, acc)
<1> USE DEF ReadsOne
<1>1. /\ m \in Mode /\ m.char \in Letter /\ m.args \in SUBSET Arg /\ IsFiniteSet(m.args)
      /\ m.args = {} <=> ~NeedsArg(m.char, m.op)
  BY DEF Writable, Mode
<1>2. d \in Seq(Mode) /\ j \in 1..Len(d)
  BY SplitIs
<1>3. Append(c \o SubSeq(d, 1, j - 1), d[j]) = c \o SubSeq(d, 1, j)
  BY <1>2, SubSeqGrows
<1>4. /\ acc.op = m.op /\ acc.argv = LeftOf(m, a, v, j - 1) /\ acc.changes = c \o SubSeq(d, 1, j - 1)
      /\ acc.errors = <<>>
      /\ acc = [op |-> acc.op, argv |-> acc.argv, changes |-> acc.changes, errors |-> acc.errors]
  OBVIOUS
<1>5. CASE m.args = {}
  <2>1. d[j] = [char |-> m.char, op |-> m.op, args |-> {}]
    <3>1. Len(Letters(m)) = 1 /\ d = <<m>>
      BY <1>5, SplitIs
    <3>2. j = 1 /\ d[j] = m
      BY <3>1
    <3> QED
      BY <1>1, <1>5, <3>2 DEF Mode
  <2>2. acc.argv = v /\ LeftOf(m, a, v, j) = v
    BY <1>4, <1>5 DEF LeftOf
  <2>3. Read(acc, m.char) = [op |-> acc.op, argv |-> acc.argv, errors |-> acc.errors,
                             changes |-> Append(acc.changes, [char |-> m.char, op |-> acc.op, args |-> {}])]
    BY <1>1, <1>4, <1>5, <2>2, ReadLetter
  <2> QED
    BY <1>3, <1>4, <2>1, <2>2, <2>3, Zenon
<1>6. CASE m.args # {}
  <2>1. d[j] = [char |-> m.char, op |-> m.op, args |-> {a[j]}] /\ j \in 1..Len(a)
    BY <1>6, SplitIs
  <2>2. a \in Seq(Arg)
    <3>1. a \in Seq(m.args)
      BY <1>1, InSequence
    <3> QED
      BY <1>1, <3>1
  <2>3. acc.argv = SubSeq(a \o v, j, Len(a) + Len(v))
    <3>1. j - 1 + 1 = j
      BY <2>1, <2>2
    <3> QED
      BY <1>4, <1>6, <3>1, Zenon DEF LeftOf
  <2>4. LeftOf(m, a, v, j) = SubSeq(a \o v, j + 1, Len(a) + Len(v))
    BY <1>6 DEF LeftOf
  <2>5. PICK r : r = SubSeq(a \o v, j, Len(a) + Len(v))
    OBVIOUS
  <2>6. r \in Seq(Arg) /\ r # <<>> /\ r[1] = a[j] /\ Tail(r) = SubSeq(a \o v, j + 1, Len(a) + Len(v))
    <3>1. BeginsWith(r, Arg, a, v, j)
      BY <2>1, <2>2, <2>5, RestStep
    <3> QED
      BY <3>1 DEF BeginsWith
  <2>7. acc.argv = r /\ Tail(r) = LeftOf(m, a, v, j)
    BY <2>3, <2>4, <2>5, <2>6
  <2>8. Read(acc, m.char) = [op |-> acc.op, argv |-> Tail(r), errors |-> acc.errors,
                             changes |-> Append(acc.changes, [char |-> m.char, op |-> acc.op, args |-> {r[1]}])]
    BY <1>1, <1>4, <1>6, <2>6, <2>7, ReadLetter
  <2> QED
    BY <1>3, <1>4, <2>1, <2>6, <2>7, <2>8, Zenon
<1> QED
  BY <1>5, <1>6

\* The letters of a mode that is written are read.
AfterLetters(line, u, m, k, v, c) ==
    Reading(line, u + k) = [op |-> m.op, argv |-> v, changes |-> c \o Split(m), errors |-> <<>>]

LEMMA ReadsLetters ==
    ASSUME NEW line, IsLine(line), NEW u \in Nat, NEW m, Writable(m),
           NEW k, k = Len(Letters(m)), u + k <= Len(line.text),
           \A j \in 1..k : line.text[u + j] = m.char,
           NEW v \in Seq(Arg), NEW c \in Seq(Mode),
           Reading(line, u) = [op |-> m.op, argv |-> SetToSeq(m.args) \o v, changes |-> c, errors |-> <<>>]
    PROVE  AfterLetters(line, u, m, k, v, c)
<1>1. PICK a : a = SetToSeq(m.args)
  OBVIOUS
<1>2. PICK d : d = Split(m)
  OBVIOUS
<1>3. k \in Nat \ {0} /\ d \in Seq(Mode) /\ Len(d) = k
  BY <1>2, SplitIs
<1>4. a \in Seq(Arg) /\ (m.args = {} => a = <<>>) /\ (m.args # {} => k = Len(a))
  <2>1. m.args \in SUBSET Arg /\ IsFiniteSet(m.args)
    BY DEF Writable, Mode
  <2>2. a \in Seq(m.args) /\ Len(a) = Cardinality(m.args) /\ (Cardinality(m.args) = 0 <=> m.args = {})
    BY <1>1, <2>1, InSequence
  <2>3. a \in Seq(Arg)
    BY <2>1, <2>2
  <2> QED
    BY <1>1, <2>2, <2>3, SplitIs
<1> DEFINE after(j) == [op |-> m.op, argv |-> LeftOf(m, a, v, j), changes |-> c \o SubSeq(d, 1, j), errors |-> <<>>]
           T == {j \in 0..k : Reading(line, u + j) = after(j)}
<1>5. 0 \in T
  <2>1. LeftOf(m, a, v, 0) = a \o v
    <3>1. CASE m.args = {}
      BY <1>4, <3>1, ConcatEmptySeq DEF LeftOf
    <3>2. CASE m.args # {}
      <4>1. a \o v \in Seq(Arg) /\ Len(a \o v) = Len(a) + Len(v)
        BY <1>4
      <4>2. LeftOf(m, a, v, 0) = SubSeq(a \o v, 1, Len(a \o v))
        BY <3>2, <4>1 DEF LeftOf
      <4> QED
        BY <4>1, <4>2, SubSeqFull
    <3> QED
      BY <3>1, <3>2
  <2>2. c \o SubSeq(d, 1, 0) = c /\ u + 0 = u /\ 0 \in 0..k
    BY <1>3
  <2>3. after(0) = [op |-> m.op, argv |-> a \o v, changes |-> c, errors |-> <<>>]
    BY <2>1, <2>2
  <2> HIDE DEF after
  <2> QED
    BY <1>1, <2>2, <2>3
<1>6. ASSUME NEW j \in 1..k, j - 1 \in T
      PROVE  j \in T
  <2>1. Reading(line, u + (j - 1)) = after(j - 1) /\ j \in 0..k
    BY <1>3, <1>6
  <2>2. u + j \in 1..Len(line.text) /\ u + j - 1 = u + (j - 1)
    BY <1>3 DEF IsLine
  <2>3. Reading(line, u + j) = Read(Reading(line, u + j - 1), line.text[u + j])
    BY <2>2, ReadingNext
  <2>4. Reading(line, u + j) = Read(after(j - 1), m.char)
    BY <2>1, <2>2, <2>3
  <2>5. Read(after(j - 1), m.char) = after(j)
    <3>1. PICK acc : acc = after(j - 1)
      OBVIOUS
    <3>2. j \in 1..Len(Letters(m))
      OBVIOUS
    <3>3. Read(acc, m.char) = after(j)
      <4>1. acc = [op |-> m.op, argv |-> LeftOf(m, a, v, j - 1), changes |-> c \o SubSeq(d, 1, j - 1),
                   errors |-> <<>>]
        BY <3>1
      <4>2. Read(acc, m.char) = [op |-> m.op, argv |-> LeftOf(m, a, v, j), changes |-> c \o SubSeq(d, 1, j),
                                 errors |-> <<>>]
        <5>1. ReadsOne(m, v, c, a, d, j, acc)
          BY <1>1, <1>2, <3>2, <4>1, ReadsOneLetter
        <5> QED
          BY <5>1 DEF ReadsOne
      <4> QED
        BY <4>2
    <3> QED
      BY <3>1, <3>3, Zenon
  <2> HIDE DEF after
  <2> QED
    BY <2>1, <2>4, <2>5
<1>7. k \in T
  <2> HIDE DEF T
  <2>1. T \in SUBSET (0..k)
    BY DEF T
  <2>2. \A j \in 0..k : j \in T
    BY <1>3, <1>5, <1>6, <2>1, BoundedInduction
  <2> QED
    BY <1>3, <2>2
<1>8. c \o SubSeq(d, 1, k) = c \o d
  BY <1>3, SubSeqFull
<1>9. LeftOf(m, a, v, k) = v
  <2>1. CASE m.args # {}
    <3>1. LeftOf(m, a, v, k) = SubSeq(a \o v, Len(a) + 1, Len(a) + Len(v))
      BY <1>4, <2>1 DEF LeftOf
    <3> QED
      BY <1>4, <3>1
  <2> QED
    BY <2>1 DEF LeftOf
<1> QED
  BY <1>2, <1>7, <1>8, <1>9 DEF AfterLetters

-----------------------------------------------------------------------------
(* What ModeString returns. *)

Written(ms, i) == At("write", [op |-> "query", text |-> <<>>, argv |-> <<>>], ms, i)
LastOp(ms, i) == IF i = 0 THEN "query" ELSE ms[i].op

WriteOK(ms, i, w) ==
    /\ w = [op |-> w.op, text |-> w.text, argv |-> w.argv]
    /\ w.op = LastOp(ms, i) /\ w.op \in Operation /\ w.text \in Seq(Char) /\ w.argv \in Seq(Arg)

\* What a mode that is written adds.
Adds(ms, i, w, new) ==
    new = [op |-> ms[i].op, text |-> w.text \o Sign(w.op, ms[i].op) \o Letters(ms[i]),
           argv |-> w.argv \o SetToSeq(ms[i].args)]

LEMMA OneWritable ==
    ASSUME NEW ms, AllWritable(ms), NEW i \in 1..Len(ms)
    PROVE  /\ Writable(ms[i]) /\ ms[i] \in Mode /\ ms[i].op \in Operation
           /\ i \in Nat /\ i - 1 \in 0..Len(ms) /\ i \in 0..Len(ms) /\ Len(ms) \in Nat
           /\ ms[i].op = "query" => LastOp(ms, i - 1) = "query"
           /\ LastOp(ms, i) = ms[i].op
<1>1. ms \in Seq(Mode) /\ Writable(ms[i])
  BY DEF AllWritable
<1>2. Len(ms) \in Nat /\ i - 1 \in 0..Len(ms) /\ i \in 0..Len(ms) /\ i # 0
  BY <1>1
<1>3. ms[i].op = "query" => LastOp(ms, i - 1) = "query"
  <2>1. CASE i - 1 = 0
    BY <2>1 DEF LastOp
  <2>2. CASE i - 1 # 0
    <3>1. i - 1 \in 1..Len(ms) /\ i - 1 < i
      BY <1>2, <2>2
    <3> QED
      BY <2>2, <3>1 DEF LastOp, AllWritable
  <2> QED
    BY <2>1, <2>2
<1>4. LastOp(ms, i) = ms[i].op
  BY <1>2 DEF LastOp
<1> QED
  BY <1>1, <1>2, <1>3, <1>4 DEF Writable, Mode, Operation

LEMMA ArgsSequence ==
    ASSUME NEW m, Writable(m)
    PROVE  /\ SetToSeq(m.args) \in Seq(Arg) /\ Len(SetToSeq(m.args)) = Cardinality(m.args)
           /\ Cardinality(m.args) \in Nat
<1>1. m.args \in SUBSET Arg /\ IsFiniteSet(m.args)
  BY DEF Writable, Mode
<1>2. SetToSeq(m.args) \in Seq(m.args) /\ Len(SetToSeq(m.args)) = Cardinality(m.args) /\ Cardinality(m.args) \in Nat
  BY <1>1, InSequence
<1> QED
  BY <1>1, <1>2, SeqMonotonic

LEMMA SignIs ==
    ASSUME NEW old, NEW op
    PROVE  Sign(old, op) \in Seq(Char)
<1>1. <<"+">> \in Seq(Char) /\ <<"-">> \in Seq(Char) /\ <<>> \in Seq(Char)
  BY DEF Char
<1> QED
  BY <1>1 DEF Sign

LEMMA WriteKeeps ==
    ASSUME NEW ms, AllWritable(ms), NEW i \in 1..Len(ms), NEW w, WriteOK(ms, i - 1, w)
    PROVE  Adds(ms, i, w, Write(w, ms[i])) /\ WriteOK(ms, i, Write(w, ms[i]))
<1>1. ~(ms[i].op = "query" /\ w.op # "query")
  BY OneWritable DEF WriteOK
<1>2. Adds(ms, i, w, Write(w, ms[i]))
  BY <1>1, Zenon DEF Write, Adds
<1>3. PICK new : new = Write(w, ms[i])
  OBVIOUS
<1>4. PICK sign, letters, a : sign = Sign(w.op, ms[i].op) /\ letters = Letters(ms[i]) /\ a = SetToSeq(ms[i].args)
  OBVIOUS
<1>5. new = [op |-> ms[i].op, text |-> w.text \o sign \o letters, argv |-> w.argv \o a]
  BY <1>2, <1>3, <1>4 DEF Adds
<1>6. sign \in Seq(Char) /\ letters \in Seq(Char) /\ a \in Seq(Arg)
  BY <1>4, OneWritable, ArgsSequence, SplitIs, SignIs
<1>7. w.text \o sign \o letters \in Seq(Char) /\ w.argv \o a \in Seq(Arg)
  BY <1>6 DEF WriteOK
<1>8. ms[i].op = LastOp(ms, i) /\ ms[i].op \in Operation
  BY OneWritable
<1> QED
  BY <1>2, <1>3, <1>5, <1>7, <1>8 DEF WriteOK

LEMMA Writes ==
    ASSUME NEW ms, AllWritable(ms)
    PROVE  /\ ModeString(ms) = Written(ms, Len(ms))
           /\ Written(ms, 0) = [op |-> "query", text |-> <<>>, argv |-> <<>>]
           /\ \A i \in 0..Len(ms) : WriteOK(ms, i, Written(ms, i))
           /\ \A i \in 1..Len(ms) : Adds(ms, i, Written(ms, i - 1), Written(ms, i))
<1> DEFINE n == Len(ms)
           T == {i \in 0..n : WriteOK(ms, i, Written(ms, i))}
<1>1. ms \in Seq(Mode) /\ n \in Nat
  BY DEF AllWritable
<1>2. ModeString(ms) = Written(ms, n)
  BY <1>1, FoldIsAt DEF ModeString, Written
<1>3. Written(ms, 0) = [op |-> "query", text |-> <<>>, argv |-> <<>>]
  BY <1>1, AtFirst DEF Written
<1>4. ASSUME NEW i \in 1..n
      PROVE  Written(ms, i) = Write(Written(ms, i - 1), ms[i])
  <2>1. Written(ms, i) = Step("write", Written(ms, i - 1), ms[i])
    BY <1>1, AtNext DEF Written
  <2> QED
    BY <2>1, StepIs, Zenon
<1>5. 0 \in T
  <2>1. PICK w : w = Written(ms, 0)
    OBVIOUS
  <2>2. w = [op |-> "query", text |-> <<>>, argv |-> <<>>]
    BY <1>3, <2>1
  <2>3. w.op = "query" /\ w.text \in Seq(Char) /\ w.argv \in Seq(Arg) /\ w = [op |-> w.op, text |-> w.text, argv |-> w.argv]
    BY <2>2
  <2>4. WriteOK(ms, 0, w) /\ 0 \in 0..n
    BY <1>1, <2>3 DEF WriteOK, LastOp, Operation
  <2> QED
    BY <2>1, <2>4
<1>6. ASSUME NEW i \in 1..n, i - 1 \in T
      PROVE  i \in T
  <2>1. WriteOK(ms, i, Write(Written(ms, i - 1), ms[i])) /\ i \in 0..n
    BY <1>1, <1>6, WriteKeeps
  <2> QED
    BY <1>4, <2>1
<1>7. \A i \in 0..n : i \in T
  <2> HIDE DEF T
  <2>1. T \in SUBSET (0..n)
    BY DEF T
  <2> QED
    BY <1>1, <1>5, <1>6, <2>1, BoundedInduction
<1>8. ASSUME NEW i \in 1..n
      PROVE  Adds(ms, i, Written(ms, i - 1), Written(ms, i))
  <2>1. i - 1 \in 0..n
    BY <1>1
  <2> QED
    BY <1>4, <1>7, <2>1, WriteKeeps
<1> QED
  BY <1>2, <1>3, <1>7, <1>8

-----------------------------------------------------------------------------
(* What is written is read: each mode, as one change for each argument. *)

SplitTo(ms, i) == At("split", <<>>, ms, i)

SplitNext(ms, i) == SplitTo(ms, i) = SplitTo(ms, i - 1) \o Split(ms[i])

LEMMA Splits ==
    ASSUME NEW ms, AllWritable(ms)
    PROVE  /\ SplitTo(ms, 0) = <<>> /\ \A i \in 1..Len(ms) : SplitNext(ms, i)
           /\ \A i \in 0..Len(ms) : SplitTo(ms, i) \in Seq(Mode)
<1> DEFINE n == Len(ms)
           T == {i \in 0..n : SplitTo(ms, i) \in Seq(Mode)}
<1>1. ms \in Seq(Mode) /\ n \in Nat
  BY DEF AllWritable
<1>2. SplitTo(ms, 0) = <<>>
  BY <1>1, AtFirst DEF SplitTo
<1>3. ASSUME NEW i \in 1..n
      PROVE  SplitNext(ms, i)
  <2>1. SplitTo(ms, i) = Step("split", SplitTo(ms, i - 1), ms[i])
    BY <1>1, AtNext DEF SplitTo
  <2> QED
    BY <2>1, StepIs, Zenon DEF SplitNext
<1>4. 0 \in T
  <2>1. 0 \in 0..n
    BY <1>1
  <2>2. SplitTo(ms, 0) \in Seq(Mode)
    BY <1>2, EmptySeq, Zenon
  <2> QED
    BY <2>1, <2>2
<1>5. ASSUME NEW i \in 1..n, i - 1 \in T
      PROVE  i \in T
  <2>1. Split(ms[i]) \in Seq(Mode) /\ i \in 0..n
    BY <1>1, OneWritable, SplitIs
  <2>2. SplitTo(ms, i - 1) \o Split(ms[i]) \in Seq(Mode)
    BY <1>5, <2>1
  <2>3. SplitTo(ms, i) \in Seq(Mode)
    BY <1>3, <2>2 DEF SplitNext
  <2> QED
    BY <2>1, <2>3
<1>6. \A i \in 0..n : i \in T
  <2> HIDE DEF T
  <2>1. T \in SUBSET (0..n)
    BY DEF T
  <2> QED
    BY <1>1, <1>4, <1>5, <2>1, BoundedInduction
<1> QED
  BY <1>2, <1>3, <1>6

Associative(p, q, r) == p \o q \o r = p \o (q \o r)

LEMMA ConcatIsAssociative ==
    ASSUME NEW S, NEW p \in Seq(S), NEW q \in Seq(S), NEW r \in Seq(S)
    PROVE  Associative(p, q, r)
BY ConcatAssociative DEF Associative

\* Between p and r there is q.
LiesBetween(S, p, q, r, text) ==
    /\ Len(text) = Len(p) + (Len(q) + Len(r))
    /\ \A j \in 1..Len(q) : text[Len(p) + j] = q[j]

LEMMA InMiddle ==
    ASSUME NEW S, NEW p \in Seq(S), NEW q \in Seq(S), NEW r \in Seq(S), NEW text, text = p \o (q \o r)
    PROVE  LiesBetween(S, p, q, r, text)
<1>1. PICK qr : qr = q \o r
  OBVIOUS
<1>2. qr \in Seq(S) /\ Len(qr) = Len(q) + Len(r) /\ Len(p) \in Nat /\ Len(q) \in Nat /\ Len(r) \in Nat
  BY <1>1
<1>3. ASSUME NEW j \in 1..Len(q)
      PROVE  qr[j] = q[j]
  BY <1>1
<1>4. text = p \o qr
  BY <1>1
<1>5. /\ Len(p \o qr) = Len(p) + Len(qr)
      /\ \A i \in 1..(Len(p) + Len(qr)) : (p \o qr)[i] = IF i <= Len(p) THEN p[i] ELSE qr[i - Len(p)]
  BY <1>2, ConcatProperties
<1>6. ASSUME NEW j \in 1..Len(q)
      PROVE  text[Len(p) + j] = q[j]
  <2>1. Len(p) + j \in 1..(Len(p) + Len(qr)) /\ ~(Len(p) + j <= Len(p)) /\ Len(p) + j - Len(p) = j
    BY <1>2
  <2> QED
    BY <1>3, <1>4, <1>5, <2>1
<1> QED
  BY <1>2, <1>4, <1>5, <1>6 DEF LiesBetween

LineOf(w, x, v) == [text |-> w.text \o x, argv |-> w.argv \o v]

\* The first i modes are read, whatever comes after them.
ReadTo(ms, i, x, v) ==
    Reading(LineOf(Written(ms, i), x, v), Len(Written(ms, i).text)) =
      [op |-> LastOp(ms, i), argv |-> v, changes |-> SplitTo(ms, i), errors |-> <<>>]

LEMMA ReadToStep ==
    ASSUME NEW ms, AllWritable(ms), NEW i \in 1..Len(ms), NEW x \in Seq(Char), NEW v \in Seq(Arg),
           \A y \in Seq(Char), z \in Seq(Arg) : ReadTo(ms, i - 1, y, z)
    PROVE  ReadTo(ms, i, x, v)
<1>1. PICK m, w, new, c : m = ms[i] /\ w = Written(ms, i - 1) /\ new = Written(ms, i) /\ c = SplitTo(ms, i - 1)
  OBVIOUS
<1>2. PICK sign, letters, a : sign = Sign(w.op, m.op) /\ letters = Letters(m) /\ a = SetToSeq(m.args)
  OBVIOUS
<1>3. /\ Writable(m) /\ m.op \in Operation
      /\ m.op = "query" => w.op = "query"
      /\ i - 1 \in 0..Len(ms) /\ w.op = LastOp(ms, i - 1) /\ w.op \in Operation
      /\ w.text \in Seq(Char) /\ w.argv \in Seq(Arg) /\ LastOp(ms, i) = m.op
  BY <1>1, OneWritable, Writes DEF WriteOK
<1>4. sign \in Seq(Char) /\ letters \in Seq(Char) /\ a \in Seq(Arg)
  <2>1. Letters(m) \in Seq(Char)
    BY <1>3, SplitIs
  <2>2. SetToSeq(m.args) \in Seq(Arg)
    BY <1>3, ArgsSequence
  <2> QED
    BY <1>2, <2>1, <2>2, SignIs
<1>5. new = [op |-> m.op, text |-> w.text \o sign \o letters, argv |-> w.argv \o a]
  BY <1>1, <1>2, Writes DEF Adds
<1>6. PICK y, z : y = sign \o (letters \o x) /\ z = a \o v
  OBVIOUS
<1>7. y \in Seq(Char) /\ z \in Seq(Arg) /\ letters \o x \in Seq(Char)
  BY <1>4, <1>6
<1>8. PICK line : line = LineOf(new, x, v)
  OBVIOUS
<1>9. line.text = w.text \o y /\ line.argv = w.argv \o z
  <2>1. w.text \o sign \in Seq(Char) /\ w.text \o sign \o letters \in Seq(Char)
    BY <1>3, <1>4
  <2>2. Associative(w.text \o sign, letters, x)
    BY <1>4, <2>1, ConcatIsAssociative
  <2>3. Associative(w.text, sign, letters \o x)
    BY <1>3, <1>4, <1>7, ConcatIsAssociative
  <2>4. Associative(w.argv, a, v)
    BY <1>3, <1>4, ConcatIsAssociative
  <2>5. new.text = w.text \o sign \o letters /\ new.argv = w.argv \o a
    BY <1>5
  <2>6. line.text = new.text \o x /\ line.argv = new.argv \o v
    BY <1>8 DEF LineOf
  <2> QED
    BY <1>6, <2>2, <2>3, <2>4, <2>5, <2>6, Zenon DEF Associative
<1>10. line = LineOf(w, y, z)
  BY <1>8, <1>9 DEF LineOf
<1>11. IsLine(line)
  BY <1>3, <1>7, <1>9 DEF IsLine
<1>12. PICK t, s, k : t = Len(w.text) /\ s = Len(sign) /\ k = Len(letters)
  OBVIOUS
<1>13. t \in Nat /\ s \in Nat /\ k \in Nat
  BY <1>3, <1>4, <1>12
<1>14. /\ Len(line.text) = t + (s + (k + Len(x)))
       /\ \A j \in 1..s : line.text[t + j] = sign[j]
       /\ \A j \in 1..k : line.text[t + s + j] = letters[j]
  <2>1. Len(letters \o x) = k + Len(x)
    BY <1>4, <1>12
  <2>2. /\ Len(line.text) = t + (s + Len(letters \o x))
        /\ \A j \in 1..s : line.text[t + j] = sign[j]
    <3>1. line.text = w.text \o (sign \o (letters \o x))
      BY <1>6, <1>9
    <3>2. LiesBetween(Char, w.text, sign, letters \o x, line.text)
      BY <1>3, <1>4, <1>7, <3>1, InMiddle
    <3> QED
      BY <1>12, <3>2 DEF LiesBetween
  <2>3. PICK p : p = w.text \o sign
    OBVIOUS
  <2>4. p \in Seq(Char) /\ Len(p) = t + s
    BY <1>3, <1>4, <1>12, <2>3
  <2>5. line.text = p \o (letters \o x)
    <3>1. Associative(w.text, sign, letters \o x)
      BY <1>3, <1>4, <1>7, ConcatIsAssociative
    <3> QED
      BY <1>6, <1>9, <2>3, <3>1, Zenon DEF Associative
  <2>6. \A j \in 1..k : line.text[t + s + j] = letters[j]
    <3>1. LiesBetween(Char, p, letters, x, line.text)
      BY <1>4, <2>4, <2>5, InMiddle
    <3> QED
      BY <1>12, <2>4, <3>1 DEF LiesBetween
  <2> QED
    BY <2>1, <2>2, <2>6
<1>15. Reading(line, t) = [op |-> w.op, argv |-> z, changes |-> c, errors |-> <<>>]
  <2>1. ReadTo(ms, i - 1, y, z)
    BY <1>7
  <2> QED
    BY <1>1, <1>3, <1>10, <1>12, <2>1 DEF ReadTo
<1>16. Reading(line, t + s) = [op |-> m.op, argv |-> z, changes |-> c, errors |-> <<>>]
  <2>1. t + s <= Len(line.text)
    BY <1>13, <1>14
  <2>2. \A j \in 1..Len(sign) : line.text[t + j] = sign[j]
    BY <1>12, <1>14
  <2>3. AfterSign(line, t, w.op, m.op, sign, z, c)
    BY <1>2, <1>3, <1>11, <1>12, <1>13, <1>15, <2>1, <2>2, ReadsSign
  <2> QED
    BY <1>12, <2>3 DEF AfterSign
<1>17. Reading(line, t + s + k) = [op |-> m.op, argv |-> v, changes |-> c \o Split(m), errors |-> <<>>]
  <2>1. t + s \in Nat /\ t + s + k <= Len(line.text) /\ k = Len(Letters(m))
    <3>1. Len(x) \in Nat
      OBVIOUS
    <3>2. t + s + k <= t + (s + (k + Len(x)))
      BY <1>13, <3>1
    <3>3. k = Len(Letters(m))
      BY <1>2, <1>12, Zenon
    <3>4. t + s \in Nat
      BY <1>13
    <3>5. Len(line.text) = t + (s + (k + Len(x)))
      BY <1>14
    <3> QED
      BY <3>2, <3>3, <3>4, <3>5
  <2>2. \A j \in 1..k : line.text[t + s + j] = m.char
    <3>1. \A j \in 1..Len(Letters(m)) : Letters(m)[j] = m.char
      BY <1>3, SplitIs
    <3>2. \A j \in 1..k : letters[j] = m.char
      BY <1>2, <1>12, <3>1, Zenon
    <3>3. \A j \in 1..k : line.text[t + s + j] = letters[j]
      BY <1>14
    <3> QED
      BY <3>2, <3>3, Zenon
  <2>3. c \in Seq(Mode)
    BY <1>1, <1>3, Splits
  <2>4. Reading(line, t + s) = [op |-> m.op, argv |-> SetToSeq(m.args) \o v, changes |-> c, errors |-> <<>>]
    BY <1>2, <1>6, <1>16
  <2>5. AfterLetters(line, t + s, m, k, v, c)
    BY <1>3, <1>11, <2>1, <2>2, <2>3, <2>4, ReadsLetters
  <2> QED
    BY <2>5 DEF AfterLetters
<1>18. Len(new.text) = t + s + k
  BY <1>3, <1>4, <1>5, <1>12
<1>19. c \o Split(m) = SplitTo(ms, i)
  BY <1>1, Splits DEF SplitNext
<1> QED
  BY <1>1, <1>3, <1>8, <1>17, <1>18, <1>19 DEF ReadTo

LEMMA WrittenIsRead ==
    ASSUME NEW ms, AllWritable(ms)
    PROVE  /\ ParseModeChange(ModeString(ms)).errors = <<>>
           /\ ParseModeChange(ModeString(ms)).changes = SplitTo(ms, Len(ms))
<1> DEFINE n == Len(ms)
           T == {i \in 0..n : \A x \in Seq(Char), v \in Seq(Arg) : ReadTo(ms, i, x, v)}
<1>1. ms \in Seq(Mode) /\ n \in Nat
  BY DEF AllWritable
<1>2. 0 \in T
  <2>1. ASSUME NEW x \in Seq(Char), NEW v \in Seq(Arg)
        PROVE  ReadTo(ms, 0, x, v)
    <3>1. PICK w : w = Written(ms, 0)
      OBVIOUS
    <3>2. w.text = <<>> /\ w.argv = <<>> /\ Len(w.text) = 0
      BY <3>1, Writes
    <3>3. PICK line : line = LineOf(w, x, v)
      OBVIOUS
    <3>4. line.text = x /\ line.argv = v
      BY <3>2, <3>3, ConcatEmptySeq DEF LineOf
    <3>5. IsLine(line)
      BY <3>4 DEF IsLine
    <3>6. Reading(line, 0) = [op |-> "query", argv |-> v, changes |-> <<>>, errors |-> <<>>]
      BY <3>4, <3>5, Parsed DEF ReadFrom
    <3>7. LastOp(ms, 0) = "query" /\ SplitTo(ms, 0) = <<>>
      BY Splits DEF LastOp
    <3> QED
      BY <3>1, <3>2, <3>3, <3>6, <3>7 DEF ReadTo
  <2>2. 0 \in 0..n
    BY <1>1
  <2> QED
    BY <2>1, <2>2
<1>3. ASSUME NEW i \in 1..n, i - 1 \in T
      PROVE  i \in T
  <2>1. \A y \in Seq(Char), z \in Seq(Arg) : ReadTo(ms, i - 1, y, z)
    BY <1>3
  <2>2. \A x \in Seq(Char), v \in Seq(Arg) : ReadTo(ms, i, x, v)
    BY <2>1, ReadToStep
  <2>3. i \in 0..n
    BY <1>1
  <2> QED
    BY <2>2, <2>3
<1>4. n \in T
  <2> HIDE DEF T
  <2>1. T \in SUBSET (0..n)
    BY DEF T
  <2>2. \A i \in 0..n : i \in T
    BY <1>1, <1>2, <1>3, <2>1, BoundedInduction
  <2> QED
    BY <1>1, <2>2
<1>5. PICK w : w = ModeString(ms)
  OBVIOUS
<1>6. w = Written(ms, n) /\ w.text \in Seq(Char) /\ w.argv \in Seq(Arg)
  <2>1. n \in 0..n
    BY <1>1
  <2> QED
    BY <1>5, <2>1, Writes DEF WriteOK
<1>7. ReadTo(ms, n, <<>>, <<>>)
  <2>1. <<>> \in Seq(Char) /\ <<>> \in Seq(Arg)
    BY EmptySeq, Zenon
  <2> QED
    BY <1>4, <2>1
<1>8. PICK line : line = LineOf(w, <<>>, <<>>)
  OBVIOUS
<1>9. line.text = w.text /\ line.argv = w.argv
  BY <1>6, <1>8, ConcatEmptySeq DEF LineOf
<1>10. Reading(line, Len(w.text)) = Reading(w, Len(w.text))
  BY <1>9, Zenon DEF Reading, ReadFrom
<1>11. IsLine(w)
  BY <1>6 DEF IsLine
<1>12. ParseModeChange(w) = Reading(w, Len(w.text))
  BY <1>11, Parsed
<1>13. ParseModeChange(w) = [op |-> LastOp(ms, n), argv |-> <<>>, changes |-> SplitTo(ms, n), errors |-> <<>>]
  BY <1>6, <1>7, <1>8, <1>10, <1>12 DEF ReadTo
<1> QED
  BY <1>5, <1>13

-----------------------------------------------------------------------------
(* What was applied is applied again. *)

LEMMA CompleteWritable ==
    ASSUME NEW m \in Mode, Complete(m)
    PROVE  Writable(m) /\ Split(m) = <<m>>
<1>1. CASE m.args = {}
  BY <1>1, FS_EmptySet DEF Complete, Writable, Split
<1>2. ASSUME NEW a \in Arg, m.args = {a}
      PROVE  Writable(m) /\ Split(m) = <<m>>
  <2>1. IsFiniteSet(m.args) /\ Cardinality(m.args) = 1
    BY <1>2, FS_Singleton
  <2>2. Writable(m)
    BY <1>2, <2>1 DEF Complete, Writable
  <2>3. SetToSeq(m.args)[1] = a
    <3>1. SetToSeq(m.args) \in [1..Cardinality(m.args) -> m.args]
      BY <2>1, InSequence
    <3>2. 1 \in 1..Cardinality(m.args)
      BY <2>1
    <3>3. SetToSeq(m.args)[1] \in m.args
      BY <3>1, <3>2
    <3> QED
      BY <1>2, <3>3
  <2>4. m = [char |-> m.char, op |-> m.op, args |-> {a}]
    BY <1>2 DEF Mode
  <2>5. PICK s : s = SetToSeq(m.args)
    OBVIOUS
  <2>6. Split(m) = [j \in 1..1 |-> [char |-> m.char, op |-> m.op, args |-> {s[j]}]]
    BY <1>2, <2>1, <2>5 DEF Split
  <2>7. PICK d : d = [j \in 1..1 |-> [char |-> m.char, op |-> m.op, args |-> {s[j]}]]
    OBVIOUS
  <2>8. d[1] = m /\ DOMAIN d = 1..1
    BY <2>3, <2>4, <2>5, <2>7
  <2>9. d \in Seq(Mode) /\ Len(d) = 1
    <3>1. d = [j \in 1..1 |-> m]
      BY <2>7, <2>8
    <3> QED
      BY <3>1
  <2>10. d = <<m>>
    BY <2>8, <2>9
  <2> QED
    BY <2>2, <2>6, <2>7, <2>10
<1> QED
  BY <1>1, <1>2 DEF Complete

LEMMA SplitSame ==
    ASSUME NEW ms, AllWritable(ms), \A i \in 1..Len(ms) : Complete(ms[i])
    PROVE  SplitTo(ms, Len(ms)) = ms
<1> DEFINE n == Len(ms)
           T == {i \in 0..n : SplitTo(ms, i) = SubSeq(ms, 1, i)}
<1>1. ms \in Seq(Mode) /\ n \in Nat
  BY DEF AllWritable
<1>2. 0 \in T
  <2>1. SplitTo(ms, 0) = SubSeq(ms, 1, 0) /\ 0 \in 0..n
    BY <1>1, Splits, SubSeqEmpty
  <2> QED
    BY <2>1
<1>3. ASSUME NEW i \in 1..n, i - 1 \in T
      PROVE  i \in T
  <2>1. SplitTo(ms, i) = SplitTo(ms, i - 1) \o Split(ms[i])
    BY Splits DEF SplitNext
  <2>2. Split(ms[i]) = <<ms[i]>>
    BY OneWritable, CompleteWritable
  <2>3. SubSeq(ms, 1, i) = SubSeq(ms, 1, i - 1) \o <<ms[i]>>
    <3>1. 1 \in 1..Len(ms) /\ i \in 1..Len(ms)
      BY <1>1
    <3> QED
      BY <1>1, <3>1, SubSeqRecursiveSecond
  <2>4. SplitTo(ms, i - 1) = SubSeq(ms, 1, i - 1) /\ i \in 0..n
    BY <1>1, <1>3
  <2> QED
    BY <2>1, <2>2, <2>3, <2>4
<1>4. n \in T
  <2> HIDE DEF T
  <2>1. T \in SUBSET (0..n)
    BY DEF T
  <2>2. \A i \in 0..n : i \in T
    BY <1>1, <1>2, <1>3, <2>1, BoundedInduction
  <2> QED
    BY <1>1, <2>2
<1> QED
  BY <1>1, <1>4, SubSeqFull

\* What becomes of the modes depends on the modes only.
LEMMA ApplySame ==
    ASSUME NEW acc, ApplyOK(acc), ~acc.panic, NEW t, ApplyOK(t), ~t.panic, t.modes = acc.modes, NEW m
    PROVE  ApplyMode(t, m).modes = ApplyMode(acc, m).modes /\ ApplyMode(t, m).panic = ApplyMode(acc, m).panic
<1> USE DEF ApplyOK
<1>1. CASE m.char \in List
  BY <1>1 DEF ApplyMode
<1>2. CASE m.char \notin List /\ Sets(acc.modes, m)
  BY <1>2 DEF ApplyMode
<1>3. CASE m.char \notin List /\ ~Sets(acc.modes, m) /\ ~Unsets(acc.modes, m)
  BY <1>3 DEF ApplyMode
<1>4. CASE m.char \notin List /\ ~Sets(acc.modes, m) /\ Unsets(acc.modes, m) /\ m.args = acc.modes[m.char]
  BY <1>4 DEF ApplyMode
<1>5. CASE m.char \notin List /\ ~Sets(acc.modes, m) /\ Unsets(acc.modes, m) /\ m.args # acc.modes[m.char]
  <2>1. CASE m.args = {}
    BY <1>5, <2>1 DEF ApplyMode
  <2>2. ASSUME m.args # {}, NEW x, ApplyOK(x), ~x.panic, x.modes = acc.modes
        PROVE  ApplyMode(x, m).modes = x.modes /\ ApplyMode(x, m).panic = FALSE
    BY <1>5, <2>2 DEF ApplyMode
  <2> QED
    BY <2>1, <2>2
<1> QED
  BY <1>1, <1>2, <1>3, <1>4, <1>5

\* A mode is reported or has changed nothing.
LEMMA ApplyResult ==
    ASSUME NEW acc, ApplyOK(acc), ~acc.panic, NEW m \in Mode, Complete(m)
    PROVE  \/ ApplyMode(acc, m).applied = Append(acc.applied, m)
           \/ ApplyMode(acc, m).applied = acc.applied /\ ApplyMode(acc, m).modes = acc.modes
<1>1. ASSUME NEW modes, Accepts(acc, m, modes)
      PROVE  ApplyMode(acc, m).applied = Append(acc.applied, m)
  BY <1>1 DEF Accepts
<1>2. CASE Refuses(acc, m)
  BY <1>2 DEF Refuses
<1>3. CASE ApplyMode(acc, m) = [modes |-> acc.modes, applied |-> acc.applied,
                                errors |-> acc.errors, panic |-> TRUE]
  BY <1>3
<1> QED
  BY <1>1, <1>2, <1>3, ApplyCases

LEMMA ApplyingNext ==
    ASSUME NEW modes, ModesOK(modes), NEW changes, ChangesComplete(changes), NEW i \in 1..Len(changes)
    PROVE  /\ Applying(modes, changes, i) = ApplyMode(Applying(modes, changes, i - 1), changes[i])
           /\ ApplyOK(Applying(modes, changes, i - 1)) /\ ApplyOK(Applying(modes, changes, i))
           /\ changes[i] \in Mode /\ Complete(changes[i])
<1>1. changes \in Seq(Mode) /\ Complete(changes[i])
  BY DEF ChangesComplete
<1>2. i - 1 \in 0..Len(changes) /\ i \in 0..Len(changes)
  BY <1>1
<1> QED
  BY <1>1, <1>2, Applied

\* The modes that the changes and what is reported of them lead to are the same.
SameAs(modes, here, there) == there.modes = here.modes /\ ~there.panic
Reported(modes, changes, op, here) ==
    /\ ChangesOK(here.applied, op)
    /\ SameAs(modes, here, Applying(modes, here.applied, Len(here.applied)))
Reports(modes, changes, i) ==
    ~Applying(modes, changes, i).panic =>
        Reported(modes, changes, LastOp(changes, i), Applying(modes, changes, i))

LEMMA ReportsStep ==
    ASSUME NEW modes, ModesOK(modes), NEW changes, NEW last, ChangesOK(changes, last),
           NEW i \in 1..Len(changes), Reports(modes, changes, i - 1)
    PROVE  Reports(modes, changes, i)
<1>1. PICK acc, new, m : acc = Applying(modes, changes, i - 1) /\ new = Applying(modes, changes, i) /\ m = changes[i]
  OBVIOUS
<1>2. ChangesComplete(changes)
  BY DEF ChangesOK, ChangesComplete
<1>3. new = ApplyMode(acc, m) /\ ApplyOK(acc) /\ ApplyOK(new) /\ m \in Mode /\ Complete(m)
  BY <1>1, <1>2, ApplyingNext
<1> SUFFICES ASSUME ~new.panic
             PROVE  Reported(modes, changes, LastOp(changes, i), new)
  BY <1>1 DEF Reports
<1>4. ~acc.panic
  BY <1>3 DEF ApplyMode
<1>5. PICK a : a = acc.applied
  OBVIOUS
<1>6. ChangesOK(a, LastOp(changes, i - 1)) /\ SameAs(modes, acc, Applying(modes, a, Len(a)))
  BY <1>1, <1>4, <1>5 DEF Reports, Reported
<1>7. LastOp(changes, i) = m.op /\ (m.op = "query" => LastOp(changes, i - 1) = "query")
  <2>1. changes \in Seq(Mode) /\ i \in Nat /\ i # 0 /\ Len(changes) \in Nat
    BY DEF ChangesOK
  <2>2. LastOp(changes, i) = m.op
    BY <1>1, <2>1 DEF LastOp
  <2>3. CASE i - 1 = 0
    BY <2>2, <2>3 DEF LastOp
  <2>4. CASE i - 1 # 0
    <3>1. i - 1 \in 1..Len(changes) /\ i - 1 < i
      BY <2>1, <2>4
    <3> QED
      BY <1>1, <2>2, <2>4, <3>1 DEF LastOp, ChangesOK
  <2> QED
    BY <2>2, <2>3, <2>4
<1>8. ChangesOK(a, m.op) /\ m.op \in {"query", "set", "unset"}
  BY <1>3, <1>6, <1>7 DEF ChangesOK, Mode
<1>9. CASE new.applied = a /\ new.modes = acc.modes
  BY <1>6, <1>7, <1>8, <1>9 DEF Reported, SameAs
<1>10. CASE new.applied = Append(a, m)
  <2>1. PICK b : b = Append(a, m)
    OBVIOUS
  <2>2. ChangesOK(b, m.op)
    BY <1>3, <1>8, <2>1, ChangesGrow
  <2>3. a \in Seq(Mode) /\ b \in Seq(Mode) /\ ChangesComplete(a) /\ ChangesComplete(b)
    BY <1>8, <2>2 DEF ChangesOK, ChangesComplete
  <2>4. /\ Len(b) = Len(a) + 1 /\ b[Len(a) + 1] = m /\ Len(a) \in Nat
        /\ \A j \in 1..Len(a) : b[j] = a[j]
    BY <2>1, <2>3, AppendIs
  <2>5. PICK t : t = Applying(modes, a, Len(a))
    OBVIOUS
  <2>6. t = Applying(modes, b, Len(a))
    <3>1. Len(a) <= Len(b)
      BY <2>4
    <3> QED
      BY <2>3, <2>4, <2>5, <3>1, AtPrefix DEF Applying
  <2>7. Len(b) \in 1..Len(b) /\ Len(b) - 1 = Len(a) /\ b[Len(b)] = m
    BY <2>4
  <2>8. Applying(modes, b, Len(b)) = ApplyMode(t, m) /\ ApplyOK(t)
    <3>1. /\ Applying(modes, b, Len(b)) = ApplyMode(Applying(modes, b, Len(b) - 1), b[Len(b)])
          /\ ApplyOK(Applying(modes, b, Len(b) - 1))
      BY <2>3, <2>7, ApplyingNext
    <3> QED
      BY <2>6, <2>7, <3>1
  <2>9. t.modes = acc.modes /\ ~t.panic
    BY <1>6, <2>5 DEF SameAs
  <2>10. ApplyMode(t, m).modes = new.modes /\ ~ApplyMode(t, m).panic
    BY <1>3, <1>4, <2>8, <2>9, ApplySame
  <2> QED
    BY <1>7, <1>10, <2>1, <2>2, <2>8, <2>10 DEF Reported, SameAs
<1> QED
  BY <1>3, <1>4, <1>5, <1>9, <1>10, ApplyResult

LEMMA AllReported ==
    ASSUME NEW modes, ModesOK(modes), NEW changes, NEW last, ChangesOK(changes, last)
    PROVE  Reports(modes, changes, Len(changes))
<1> DEFINE n == Len(changes)
           T == {i \in 0..n : Reports(modes, changes, i)}
<1>1. changes \in Seq(Mode) /\ n \in Nat /\ ChangesComplete(changes)
  BY DEF ChangesOK, ChangesComplete
<1>2. 0 \in T
  <2>1. Applying(modes, changes, 0) = ApplyTo(modes)
    BY <1>1, Applied
  <2>2. PICK here : here = ApplyTo(modes)
    OBVIOUS
  <2>3. here.modes = modes /\ ~here.panic /\ here.applied = <<>>
    BY <2>2 DEF ApplyTo
  <2>4. ChangesComplete(<<>>) /\ Len(<<>>) = 0 /\ ChangesOK(<<>>, "query")
    BY DEF ChangesComplete, ChangesOK
  <2>5. Applying(modes, <<>>, 0) = here
    BY <2>2, <2>4, Applied
  <2>6. Reported(modes, changes, "query", here)
    BY <2>3, <2>4, <2>5 DEF Reported, SameAs
  <2>7. LastOp(changes, 0) = "query" /\ 0 \in 0..n
    BY <1>1 DEF LastOp
  <2> QED
    BY <2>1, <2>2, <2>6, <2>7 DEF Reports
<1>3. ASSUME NEW i \in 1..n, i - 1 \in T
      PROVE  i \in T
  <2>1. i \in 0..n /\ Reports(modes, changes, i - 1)
    BY <1>1, <1>3
  <2>2. Reports(modes, changes, i)
    BY <2>1, ReportsStep
  <2> QED
    BY <2>1, <2>2
<1>4. n \in T
  <2> HIDE DEF T
  <2>1. T \in SUBSET (0..n)
    BY DEF T
  <2>2. \A i \in 0..n : i \in T
    BY <1>1, <1>2, <1>3, <2>1, BoundedInduction
  <2> QED
    BY <1>1, <2>2
<1> QED
  BY <1>4

\* What Apply reports, written down and read again, has the same result: the
\* reported modes can be written, as queries come before the first sign and
\* every mode has the argument it needs.
THEOREM AppliedSufficesCorrect == Spec => []AppliedSuffices
<1>1. ModesOK(am) => AppliedSuffices
  <2> SUFFICES ASSUME ModesOK(am), NEW line \in Line, NEW changes, changes = ParseModeChange(line).changes,
                      NEW here, here = Apply(am, changes), NEW there,
                      there = ParseModeChange(ModeString(here.applied)), ~here.panic
               PROVE  there.errors = <<>> /\ Apply(am, there.changes).modes = here.modes
    BY DEF AppliedSuffices
  <2>1. PICK last : ChangesOK(changes, last)
    <3>1. IsLine(line)
      BY LineChanges
    <3>2. Len(line.text) \in 0..Len(line.text)
      BY <3>1 DEF IsLine
    <3>3. ReadOK(ParseModeChange(line))
      BY <3>1, <3>2, Parsed
    <3> QED
      BY <3>3 DEF ReadOK
  <2>2. ChangesComplete(changes)
    BY <2>1 DEF ChangesOK, ChangesComplete
  <2>3. here = Applying(am, changes, Len(changes))
    BY <2>2, Applied
  <2>4. PICK a, op : a = here.applied /\ op = LastOp(changes, Len(changes))
    OBVIOUS
  <2>5. ChangesOK(a, op) /\ SameAs(am, here, Applying(am, a, Len(a)))
    BY <2>1, <2>3, <2>4, AllReported DEF Reports, Reported
  <2>6. ChangesComplete(a)
    BY <2>5 DEF ChangesOK, ChangesComplete
  <2>7. AllWritable(a)
    <3>1. \A i \in 1..Len(a) : a[i] \in Mode /\ Complete(a[i])
      BY <2>6 DEF ChangesComplete
    <3>2. \A i \in 1..Len(a) : Writable(a[i])
      BY <3>1, CompleteWritable
    <3> QED
      BY <2>5, <3>2 DEF ChangesOK, AllWritable
  <2>8. there.errors = <<>> /\ there.changes = a
    BY <2>4, <2>6, <2>7, WrittenIsRead, SplitSame DEF ChangesComplete
  <2>9. Apply(am, a) = Applying(am, a, Len(a))
    BY <2>6, Applied
  <2> QED
    BY <2>5, <2>8, <2>9 DEF SameAs
<1> QED
  BY <1>1, ModesInvariance, PTL

-----------------------------------------------------------------------------
(* The string of the active modes rebuilds them. *)

AtSteps(fold, base, seq, i) ==
    At(fold, base, seq, i) = Step(fold, At(fold, base, seq, i - 1), seq[i])

LEMMA AtStep ==
    ASSUME NEW fold, NEW base, NEW S, NEW seq \in Seq(S), NEW i \in 1..Len(seq)
    PROVE  AtSteps(fold, base, seq, i)
BY AtNext DEF AtSteps

AtRest(fold, base, p, q, j) ==
    At(fold, base, p \o q, Len(p) + j) = At(fold, At(fold, base, p, Len(p)), q, j)

LEMMA AtConcat ==
    ASSUME NEW fold, NEW base, NEW S, NEW p \in Seq(S), NEW q \in Seq(S)
    PROVE  AtRest(fold, base, p, q, Len(q))
<1> DEFINE T == {j \in 0..Len(q) : AtRest(fold, base, p, q, j)}
<1>1. PICK pq : pq = p \o q
  OBVIOUS
<1>2. /\ pq \in Seq(S) /\ Len(pq) = Len(p) + Len(q) /\ Len(p) \in Nat /\ Len(q) \in Nat
      /\ \A j \in 1..Len(p) : pq[j] = p[j]
      /\ \A j \in 1..Len(q) : pq[Len(p) + j] = q[j]
  <2>1. /\ Len(p) \in Nat /\ Len(q) \in Nat /\ Len(p \o q) = Len(p) + Len(q) /\ p \o q \in Seq(S)
        /\ \A i \in 1..(Len(p) + Len(q)) : (p \o q)[i] = IF i <= Len(p) THEN p[i] ELSE q[i - Len(p)]
    BY ConcatProperties
  <2>2. ASSUME NEW j \in 1..Len(p)
        PROVE  pq[j] = p[j]
    <3>1. j \in 1..(Len(p) + Len(q)) /\ j <= Len(p)
      BY <2>1
    <3> QED
      BY <1>1, <2>1, <3>1
  <2>3. ASSUME NEW j \in 1..Len(q)
        PROVE  pq[Len(p) + j] = q[j]
    <3>1. Len(p) + j \in 1..(Len(p) + Len(q)) /\ ~(Len(p) + j <= Len(p)) /\ Len(p) + j - Len(p) = j
      BY <2>1
    <3> QED
      BY <1>1, <2>1, <3>1
  <2> QED
    BY <1>1, <2>1, <2>2, <2>3
<1>3. PICK mid : mid = At(fold, base, p, Len(p))
  OBVIOUS
<1>4. 0 \in T
  <2>1. Len(p) <= Len(pq) /\ Len(p) + 0 = Len(p) /\ 0 \in 0..Len(q)
    BY <1>2
  <2>2. At(fold, base, pq, Len(p)) = mid
    BY <1>2, <1>3, <2>1, AtPrefix
  <2>3. At(fold, mid, q, 0) = mid
    BY AtFirst
  <2> QED
    BY <1>1, <1>3, <2>1, <2>2, <2>3 DEF AtRest
<1>5. ASSUME NEW j \in 1..Len(q), j - 1 \in T
      PROVE  j \in T
  <2>1. /\ Len(p) + j \in 1..Len(pq) /\ Len(p) + j - 1 = Len(p) + (j - 1) /\ j \in 0..Len(q)
        /\ pq[Len(p) + j] = q[j]
    BY <1>2
  <2>2. At(fold, base, pq, Len(p) + j) = Step(fold, At(fold, base, pq, Len(p) + j - 1), pq[Len(p) + j])
    <3>1. AtSteps(fold, base, pq, Len(p) + j)
      BY <1>2, <2>1, AtStep
    <3> QED
      BY <3>1 DEF AtSteps
  <2>3. At(fold, mid, q, j) = Step(fold, At(fold, mid, q, j - 1), q[j])
    BY AtNext
  <2>4. At(fold, base, pq, Len(p) + (j - 1)) = At(fold, mid, q, j - 1)
    BY <1>1, <1>3, <1>5 DEF AtRest
  <2>5. At(fold, base, pq, Len(p) + j) = At(fold, mid, q, j)
    BY <2>1, <2>2, <2>3, <2>4
  <2> QED
    BY <1>1, <1>3, <2>1, <2>5 DEF AtRest
<1>6. Len(q) \in T
  <2> HIDE DEF T
  <2>1. T \in SUBSET (0..Len(q))
    BY DEF T
  <2>2. \A j \in 0..Len(q) : j \in T
    BY <1>2, <1>4, <1>5, <2>1, BoundedInduction
  <2> QED
    BY <1>2, <2>2
<1> QED
  BY <1>6

HasModes(acc, modes) == ApplyOK(acc) /\ acc.panic = FALSE /\ acc.modes = modes

\* A mode that can be active.
Settable(m) ==
    /\ Writable(m) /\ m.op = "set"
    /\ m.char \in Flag => m.args = {}
    /\ m.char \in Key \cup Limit => \E a \in Arg : m.args = {a}
    /\ m.char \in List => m.args # {}

LEMMA WithTwice ==
    ASSUME NEW modes, NEW ch, NEW a, NEW b
    PROVE  With(With(modes, ch, a), ch, b) = With(modes, ch, b)
BY DEF With

LEMMA ListGrows ==
    ASSUME NEW acc, NEW modes, HasModes(acc, modes), NEW ch \in List, NEW a \in Arg, NEW m,
           m = [char |-> ch, op |-> "set", args |-> {a}]
    PROVE  HasModes(ApplyMode(acc, m), With(modes, ch, OldArgs(modes, ch) \cup {a}))
<1>1. m \in Mode /\ Complete(m)
  BY ModesAssumption DEF Mode, Letter, Complete, NeedsArg
<1>2. ApplyOK(ApplyMode(acc, m))
  BY <1>1, ApplyKeeps DEF HasModes
<1>3. ApplyMode(acc, m).modes = ApplyList(acc.modes, m) /\ ApplyMode(acc, m).panic = FALSE
  BY DEF ApplyMode, HasModes, ApplyOK
<1>4. PICK old : old = OldArgs(modes, ch)
  OBVIOUS
<1>5. ArgsAfter(old, m) = old \cup {a}
  BY DEF ArgsAfter
<1>6. ApplyList(modes, m) = StoreList(modes, ch, old \cup {a})
  BY <1>4, <1>5 DEF ApplyList, OldArgs
<1>7. ApplyList(modes, m) = With(modes, ch, old \cup {a})
  BY <1>6 DEF StoreList
<1> QED
  BY <1>2, <1>3, <1>4, <1>7 DEF HasModes

\* A new mode, split, is set with all its arguments.
IsSetWhole(acc, modes, m) ==
    HasModes(At("apply", acc, Split(m), Len(Split(m))), With(modes, m.char, m.args))

LEMMA SetsList ==
    ASSUME NEW acc, NEW modes, HasModes(acc, modes), NEW m, Settable(m), m.char \notin DOMAIN modes,
           m.char \in List
    PROVE  IsSetWhole(acc, modes, m)
<1>1. PICK d, k, a, ch : d = Split(m) /\ k = Len(d) /\ a = SetToSeq(m.args) /\ ch = m.char
  OBVIOUS
<1>2. m \in Mode /\ Writable(m) /\ m.op = "set" /\ m.args # {} /\ IsFiniteSet(m.args) /\ m.args \in SUBSET Arg
  BY DEF Settable, Writable, Mode
<1>3. /\ d \in Seq(Mode) /\ k \in Nat \ {0} /\ k = Len(a)
      /\ \A j \in 1..k : d[j] = [char |-> ch, op |-> "set", args |-> {a[j]}]
  BY <1>1, <1>2, SplitIs
<1>4. /\ a \in [1..k -> m.args]
      /\ \A x \in m.args : \E j \in 1..k : a[j] = x
  <2>1. /\ Len(a) = Cardinality(m.args) /\ a \in [1..Cardinality(m.args) -> m.args]
        /\ \A x \in m.args : \E j \in 1..Cardinality(m.args) : a[j] = x
    <3>1. PICK s : s = m.args
      OBVIOUS
    <3>2. IsFiniteSet(s) /\ a = SetToSeq(s)
      BY <1>1, <1>2, <3>1
    <3>3. /\ Len(a) = Cardinality(s) /\ a \in [1..Cardinality(s) -> s]
          /\ \A x \in s : \E j \in 1..Cardinality(s) : a[j] = x
      BY <3>2, InSequence
    <3> QED
      BY <3>1, <3>3
  <2> QED
    BY <1>3, <2>1
<1> DEFINE after(j) == IF j = 0 THEN modes ELSE With(modes, ch, {a[x] : x \in 1..j})
           T == {j \in 0..k : HasModes(At("apply", acc, d, j), after(j))}
<1>5. 0 \in T
  <2>1. At("apply", acc, d, 0) = acc /\ 0 \in 0..k
    BY <1>3, AtFirst
  <2> QED
    BY <2>1
<1>6. ASSUME NEW j \in 1..k, j - 1 \in T
      PROVE  j \in T
  <2>1. PICK old, new, before : /\ old = At("apply", acc, d, j - 1) /\ new = At("apply", acc, d, j)
                                /\ before = after(j - 1)
    OBVIOUS
  <2>2. HasModes(old, before)
    BY <1>6, <2>1
  <2>3. new = Step("apply", old, d[j])
    <3>1. AtSteps("apply", acc, d, j)
      BY <1>1, <1>3, AtStep
    <3> QED
      BY <2>1, <3>1 DEF AtSteps
  <2>4. new = ApplyMode(old, d[j])
    BY <2>3, StepIs
  <2>5. a[j] \in Arg /\ d[j] = [char |-> ch, op |-> "set", args |-> {a[j]}] /\ ch \in List
    BY <1>1, <1>2, <1>3, <1>4
  <2>6. HasModes(new, With(before, ch, OldArgs(before, ch) \cup {a[j]}))
    BY <2>2, <2>4, <2>5, ListGrows
  <2>7. With(before, ch, OldArgs(before, ch) \cup {a[j]}) = With(modes, ch, {a[x] : x \in 1..j})
    <3>1. CASE j = 1
      <4>1. before = modes /\ OldArgs(before, ch) = {}
        BY <1>1, <2>1, <3>1 DEF OldArgs
      <4>2. {a[x] : x \in 1..j} = {a[j]}
        BY <3>1
      <4> QED
        BY <4>1, <4>2
    <3>2. CASE j # 1
      <4>1. PICK s : s = {a[x] : x \in 1..(j - 1)}
        OBVIOUS
      <4>2. before = With(modes, ch, s)
        BY <2>1, <3>2, <4>1
      <4>3. OldArgs(before, ch) = s
        <5>1. ch \in DOMAIN before /\ before[ch] = s
          BY <4>2 DEF With
        <5> QED
          BY <5>1 DEF OldArgs
      <4>4. s \cup {a[j]} = {a[x] : x \in 1..j}
        BY <4>1
      <4> QED
        BY <4>2, <4>3, <4>4, WithTwice
    <3> QED
      BY <3>1, <3>2
  <2>8. after(j) = With(modes, ch, {a[x] : x \in 1..j}) /\ j \in 0..k
    OBVIOUS
  <2> HIDE DEF after
  <2> QED
    BY <2>1, <2>6, <2>7, <2>8
<1>7. k \in T
  <2> HIDE DEF T
  <2>1. T \in SUBSET (0..k)
    BY DEF T
  <2>2. \A j \in 0..k : j \in T
    BY <1>3, <1>5, <1>6, <2>1, BoundedInduction
  <2> QED
    BY <1>3, <2>2
<1>8. {a[x] : x \in 1..k} = m.args
  BY <1>4
<1>9. after(k) = With(modes, ch, m.args)
  BY <1>3, <1>8
<1> HIDE DEF after
<1> QED
  BY <1>1, <1>7, <1>9 DEF IsSetWhole

LEMMA SetsOther ==
    ASSUME NEW acc, NEW modes, HasModes(acc, modes), NEW m, Settable(m), m.char \notin DOMAIN modes,
           m.char \notin List
    PROVE  IsSetWhole(acc, modes, m)
<1>1. m \in Mode /\ m.op = "set"
  BY DEF Settable, Writable
<1>2. Complete(m)
  <2>1. m.char \in Flag \cup Key \cup Limit
    BY <1>1 DEF Mode, Letter
  <2> QED
    BY <1>1, <2>1, ModesAssumption DEF Settable, Complete, NeedsArg
<1>3. Split(m) = <<m>>
  BY <1>1, <1>2, CompleteWritable
<1>4. PICK d : d = <<m>>
  OBVIOUS
<1>5. d \in Seq(Mode) /\ Len(d) = 1 /\ d[1] = m /\ 1 \in 1..Len(d) /\ 1 - 1 = 0
  BY <1>1, <1>4
<1>6. At("apply", acc, d, 0) = acc
  BY <1>5, AtFirst
<1>7. At("apply", acc, d, 1) = Step("apply", At("apply", acc, d, 1 - 1), d[1])
  BY <1>5, AtNext
<1>8. At("apply", acc, d, 1) = ApplyMode(acc, m)
  BY <1>5, <1>6, <1>7, StepIs
<1>9. ApplyOK(ApplyMode(acc, m))
  BY <1>1, <1>2, ApplyKeeps DEF HasModes
<1>10. ApplyMode(acc, m).modes = With(modes, m.char, m.args) /\ ApplyMode(acc, m).panic = FALSE
  BY <1>1 DEF ApplyMode, HasModes, ApplyOK, Sets
<1> QED
  BY <1>3, <1>4, <1>5, <1>8, <1>9, <1>10 DEF IsSetWhole, HasModes

\* The modes of the first i letters.
Part(modes, order, i) == [x \in {order[j] : j \in 1..i} |-> modes[x]]

\* What the first i modes of the list build.
Built(list, i) == At("apply", ApplyTo(Empty), SplitTo(list, i), Len(SplitTo(list, i)))

LEMMA PartIs ==
    ASSUME NEW modes, NEW n \in Nat, NEW order \in [1..n -> DOMAIN modes],
           \A i, j \in 1..n : i # j => order[i] # order[j], NEW i \in 1..n
    PROVE  /\ order[i] \notin DOMAIN Part(modes, order, i - 1)
           /\ Part(modes, order, i) = With(Part(modes, order, i - 1), order[i], modes[order[i]])
<1>1. PICK s, r : s = {order[j] : j \in 1..(i - 1)} /\ r = {order[j] : j \in 1..i}
  OBVIOUS
<1>2. r = s \cup {order[i]} /\ order[i] \notin s
  BY <1>1
<1>3. Part(modes, order, i - 1) = [x \in s |-> modes[x]] /\ Part(modes, order, i) = [x \in r |-> modes[x]]
  BY <1>1 DEF Part
<1> QED
  BY <1>2, <1>3 DEF With

LEMMA ListSettable ==
    ASSUME NEW modes, ModesOK(modes), NEW ch \in DOMAIN modes, NEW m,
           m = [char |-> ch, op |-> "set", args |-> modes[ch]]
    PROVE  Settable(m)
<1>1. ch \in Letter /\ modes[ch] \in SUBSET Arg /\ IsFiniteSet(modes[ch])
  BY DEF ModesOK
<1>2. m \in Mode /\ IsFiniteSet(m.args)
  BY <1>1 DEF Mode
<1>3. /\ ch \in Flag => m.args = {}
      /\ ch \in Key \cup Limit => \E a \in Arg : m.args = {a}
      /\ ch \in List => m.args # {}
  BY DEF ModesOK
<1>4. m.args = {} <=> ch \in Flag
  BY <1>1, <1>3 DEF Letter
<1>5. NeedsArg(ch, "set") <=> ch \notin Flag
  BY DEF NeedsArg
<1> QED
  BY <1>2, <1>3, <1>4, <1>5 DEF Settable, Writable

LEMMA Rebuilds ==
    ASSUME NEW modes, ModesOK(modes), NEW order \in SetToSeqs(DOMAIN modes),
           NEW list, list = ActiveList(modes, order)
    PROVE  /\ AllWritable(list)
           /\ HasModes(Built(list, Len(list)), modes)
<1>1. PICK n : n = Cardinality(DOMAIN modes)
  OBVIOUS
<1>2. /\ n \in Nat /\ order \in [1..n -> DOMAIN modes]
      /\ \A i, j \in 1..n : i # j => order[i] # order[j]
  <2>1. n \in Nat
    BY <1>1, FS_CardinalityType DEF ModesOK
  <2> QED
    BY <1>1, <2>1 DEF SetToSeqs
<1>3. {order[j] : j \in 1..n} = DOMAIN modes
  <2>1. order \in Injection(1..n, DOMAIN modes)
    BY <1>2 DEF Injection, IsInjective
  <2>2. IsFiniteSet(1..n) /\ Cardinality(1..n) = n /\ IsFiniteSet(DOMAIN modes)
    BY <1>2, FS_Interval DEF ModesOK
  <2>3. order \in Surjection(1..n, DOMAIN modes)
    BY <1>1, <2>1, <2>2, FS_Injection
  <2>4. \A x \in DOMAIN modes : \E j \in 1..n : order[j] = x
    BY <2>3 DEF Surjection
  <2> QED
    BY <1>2, <2>4, ZenonT(40)
<1>4. list = [i \in 1..n |-> [char |-> order[i], op |-> "set", args |-> modes[order[i]]]]
  BY <1>2 DEF ActiveList
<1>5. ASSUME NEW i \in 1..n
      PROVE  list[i] = [char |-> order[i], op |-> "set", args |-> modes[order[i]]] /\ Settable(list[i])
  <2>1. list[i] = [char |-> order[i], op |-> "set", args |-> modes[order[i]]]
    BY <1>4
  <2>2. order[i] \in DOMAIN modes
    BY <1>2
  <2> QED
    BY <2>1, <2>2, ListSettable
<1>6. list \in Seq(Mode) /\ Len(list) = n
  <2>1. \A i \in 1..n : list[i] \in Mode
    BY <1>5 DEF Settable, Writable
  <2>2. list = [i \in 1..n |-> list[i]]
    BY <1>4
  <2>3. list \in [1..n -> Mode]
    BY <2>1, <2>2
  <2> QED
    BY <1>2, <2>3
<1>7. AllWritable(list)
  BY <1>5, <1>6 DEF AllWritable, Settable
<1> DEFINE T == {i \in 0..n : HasModes(Built(list, i), Part(modes, order, i))}
<1>8. 0 \in T
  <2>1. SplitTo(list, 0) = <<>> /\ <<>> \in Seq(Mode) /\ Len(<<>>) = 0
    BY <1>7, Splits, EmptySeq
  <2>2. Built(list, 0) = ApplyTo(Empty)
    <3>1. At("apply", ApplyTo(Empty), <<>>, 0) = ApplyTo(Empty)
      BY <2>1, AtFirst, Zenon
    <3> QED
      BY <2>1, <3>1, Zenon DEF Built
  <2>3. Part(modes, order, 0) = Empty
    BY DEF Part, Empty
  <2>4. HasModes(ApplyTo(Empty), Empty)
    BY FS_EmptySet DEF HasModes, ApplyTo, ApplyOK, ModesOK, Empty, IsMap
  <2> QED
    BY <1>2, <2>2, <2>3, <2>4
<1>9. ASSUME NEW i \in 1..n, i - 1 \in T
      PROVE  i \in T
  <2>1. PICK m, before, acc, p, d :
          /\ m = list[i] /\ before = Part(modes, order, i - 1) /\ acc = Built(list, i - 1)
          /\ p = SplitTo(list, i - 1) /\ d = Split(m)
    OBVIOUS
  <2>2. HasModes(acc, before) /\ Settable(m) /\ m.char = order[i] /\ m.args = modes[order[i]] /\ Writable(m)
    <3>1. HasModes(acc, before)
      BY <1>9, <2>1
    <3>2. m = [char |-> order[i], op |-> "set", args |-> modes[order[i]]] /\ Settable(m)
      BY <1>5, <2>1
    <3> QED
      BY <3>1, <3>2 DEF Settable
  <2>3. m.char \notin DOMAIN before
    BY <1>2, <2>1, <2>2, PartIs
  <2>4. IsSetWhole(acc, before, m)
    BY <2>2, <2>3, SetsList, SetsOther
  <2>5. HasModes(At("apply", acc, d, Len(d)), Part(modes, order, i))
    <3>1. Part(modes, order, i) = With(before, m.char, m.args)
      <4>1. Part(modes, order, i) = With(Part(modes, order, i - 1), order[i], modes[order[i]])
        BY <1>2, PartIs
      <4> QED
        BY <2>1, <2>2, <4>1
    <3> QED
      BY <2>1, <2>4, <3>1 DEF IsSetWhole
  <2>6. p \in Seq(Mode) /\ d \in Seq(Mode)
    <3>1. i - 1 \in 0..Len(list)
      BY <1>2, <1>6
    <3>2. p \in Seq(Mode)
      BY <1>7, <2>1, <3>1, Splits
    <3> QED
      BY <2>1, <2>2, <3>2, SplitIs
  <2>7. SplitTo(list, i) = p \o d
    BY <1>6, <1>7, <2>1, Splits DEF SplitNext
  <2>8. AtRest("apply", ApplyTo(Empty), p, d, Len(d))
    BY <2>6, AtConcat
  <2>9. Len(p \o d) = Len(p) + Len(d)
    BY <2>6
  <2>10. Built(list, i) = At("apply", acc, d, Len(d))
    BY <2>1, <2>7, <2>8, <2>9 DEF Built, AtRest
  <2>11. i \in 0..n
    BY <1>2
  <2> QED
    BY <2>5, <2>10, <2>11
<1>10. n \in T
  <2> HIDE DEF T
  <2>1. T \in SUBSET (0..n)
    BY DEF T
  <2>2. \A i \in 0..n : i \in T
    BY <1>2, <1>8, <1>9, <2>1, BoundedInduction
  <2> QED
    BY <1>2, <2>2
<1>11. Part(modes, order, n) = modes
  BY <1>3 DEF Part, ModesOK, IsMap
<1> QED
  BY <1>6, <1>7, <1>10, <1>11

\* The string of the active modes, read and applied to no modes, sets the
\* same modes, whatever the order of the letters.
THEOREM StringRebuildsCorrect == Spec => []StringRebuilds
<1>1. ModesOK(am) => StringRebuilds
  <2> SUFFICES ASSUME ModesOK(am), NEW order \in SetToSeqs(DOMAIN am), NEW list, list = ActiveList(am, order),
                      NEW parsed, parsed = ParseModeChange(ModeString(list))
               PROVE  parsed.errors = <<>> /\ Apply(Empty, parsed.changes).modes = am
    BY DEF StringRebuilds
  <2>1. AllWritable(list) /\ HasModes(Built(list, Len(list)), am)
    BY Rebuilds
  <2>2. PICK s : s = SplitTo(list, Len(list))
    OBVIOUS
  <2>3. parsed.errors = <<>> /\ parsed.changes = s
    BY <2>1, <2>2, WrittenIsRead
  <2>4. s \in Seq(Mode)
    <3>1. Len(list) \in 0..Len(list)
      BY <2>1 DEF AllWritable
    <3> QED
      BY <2>1, <2>2, <3>1, Splits
  <2>5. Apply(Empty, s) = At("apply", ApplyTo(Empty), s, Len(s))
    BY <2>4, FoldIsAt DEF Apply, ApplyTo
  <2> QED
    BY <2>1, <2>2, <2>3, <2>5 DEF Built, HasModes
<1> QED
  BY <1>1, ModesInvariance, PTL

=============================================================================
