--------------------------- MODULE MessagesProofs ---------------------------
(***************************************************************************)
(* Proofs about Messages, for any letters and lines of any length.         *)
(***************************************************************************)
EXTENDS Messages, FiniteSetTheorems, SequenceTheorems, WellFoundedInduction, TLAPS

(* Induction over a set of numbers: its complement would have a least element. *)

LEMMA Induction ==
    ASSUME NEW T \in SUBSET Nat, 0 \in T, \A n \in T : n + 1 \in T
    PROVE  \A n \in Nat : n \in T
<1> SUFFICES ASSUME Nat \ T # {}
             PROVE  FALSE
  OBVIOUS
<1>1. PICK x \in Nat \ T : \A y \in Nat \ T : <<y, x>> \notin OpToRel(<, Nat)
  <2> DEFINE U == Nat \ T
  <2>1. U \subseteq Nat /\ U # {}
    OBVIOUS
  <2> HIDE DEF U
  <2>2. \E x \in U : \A y \in U : ~(<<y, x>> \in OpToRel(<, Nat))
    BY <2>1, WFMin, NatLessThanWellFounded, Zenon
  <2> QED
    BY <2>2 DEF U
<1>2. x # 0 /\ x - 1 \in Nat
  OBVIOUS
<1>3. <<x - 1, x>> \in OpToRel(<, Nat)
  BY <1>2 DEF OpToRel
<1>4. x - 1 \in T
  BY <1>1, <1>2, <1>3
<1>5. x - 1 + 1 = x
  OBVIOUS
<1> QED
  BY <1>4, <1>5

\* The same up to a bound.
LEMMA BoundedInduction ==
    ASSUME NEW n \in Nat, NEW T \in SUBSET (0..n), 0 \in T,
           \A i \in 1..n : i - 1 \in T => i \in T
    PROVE  \A i \in 0..n : i \in T
<1> DEFINE U == {i \in Nat : i \in 0..n => i \in T}
<1>1. U \in SUBSET Nat /\ 0 \in U
  OBVIOUS
<1>2. ASSUME NEW i \in U
      PROVE  i + 1 \in U
  <2> SUFFICES ASSUME i + 1 \in 0..n
               PROVE  i + 1 \in T
    OBVIOUS
  <2>1. i + 1 \in 1..n /\ i + 1 - 1 = i /\ i \in 0..n
    OBVIOUS
  <2> QED
    BY <2>1
<1> HIDE DEF U
<1>3. \A i \in Nat : i \in U
  BY <1>1, <1>2, Induction
<1> QED
  BY <1>3 DEF U

LEMMA MaxOf ==
    ASSUME NEW n \in Nat, NEW s \in SUBSET (1..n), s # {}
    PROVE  Max(s) \in s /\ \A y \in s : Max(s) >= y
<1> DEFINE T == {m \in Nat : \A r \in SUBSET (1..m) : r # {} => \E x \in r : \A y \in r : x >= y}
<1>1. 0 \in T
  <2>1. \A r \in SUBSET (1..0) : r = {}
    OBVIOUS
  <2> QED
    BY <2>1
<1>2. ASSUME NEW m \in T
      PROVE  m + 1 \in T
  <2> SUFFICES ASSUME NEW r \in SUBSET (1..(m + 1)), r # {}
               PROVE  \E x \in r : \A y \in r : x >= y
    OBVIOUS
  <2>1. CASE m + 1 \in r
    BY <2>1
  <2>2. CASE m + 1 \notin r
    <3>1. r \in SUBSET (1..m)
      BY <2>2
    <3> QED
      BY <3>1
  <2> QED
    BY <2>1, <2>2
<1>3. n \in T
  <2>1. T \in SUBSET Nat
    OBVIOUS
  <2> HIDE DEF T
  <2> QED
    BY <1>1, <1>2, <2>1, Induction
<1>4. \E x \in s : \A y \in s : x >= y
  BY <1>3
<1> QED
  BY <1>4 DEF Max

-----------------------------------------------------------------------------
(* The folds of Messages as recursion on the length. *)

Step(fold, acc, x) ==
    CASE fold = "cut" -> Cut(acc, x, Space)
      [] fold = "lead" -> acc \o x \o <<Space>>
      [] fold = "flat" -> acc \o x

LEMMA StepIs ==
    ASSUME NEW acc, NEW x
    PROVE  /\ Step("cut", acc, x) = Cut(acc, x, Space)
           /\ Step("lead", acc, x) = acc \o x \o <<Space>>
           /\ Step("flat", acc, x) = acc \o x
BY DEF Step

\* F is what FoldLeft makes of the elements at each set of places.
Folded(F, fold, base, seq, n) ==
    F = [s \in SUBSET (1..n) |-> IF s = {} THEN base ELSE Step(fold, F[s \ {Max(s)}], seq[Max(s)])]

\* What is made of the first i elements.
At(fold, base, seq, i) == (CHOOSE F : Folded(F, fold, base, seq, Len(seq)))[1..i]

LEMMA FoldExists ==
    ASSUME NEW fold, NEW base, NEW seq, NEW len \in Nat
    PROVE  \E F : Folded(F, fold, base, seq, len)
<1> DEFINE T == {n \in Nat : \E F : Folded(F, fold, base, seq, n)}
<1>1. 0 \in T
  <2> DEFINE F == [s \in SUBSET (1..0) |-> base]
  <2>1. \A s \in SUBSET (1..0) : s = {}
    OBVIOUS
  <2>2. Folded(F, fold, base, seq, 0)
    BY <2>1 DEF Folded
  <2> QED
    BY <2>2
<1>2. ASSUME NEW n \in T
      PROVE  n + 1 \in T
  <2>1. PICK F : Folded(F, fold, base, seq, n)
    OBVIOUS
  <2> DEFINE G == [s \in SUBSET (1..(n + 1)) |->
                      IF n + 1 \in s THEN Step(fold, F[s \ {n + 1}], seq[n + 1]) ELSE F[s]]
             Value(s) == IF s = {} THEN base ELSE Step(fold, G[s \ {Max(s)}], seq[Max(s)])
  <2>2. ASSUME NEW s \in SUBSET (1..(n + 1)), n + 1 \in s
        PROVE  G[s] = Value(s)
    <3>1. Max(s) = n + 1
      <4>1. Max(s) \in s /\ Max(s) >= n + 1
        BY <2>2, MaxOf
      <4>2. \A x \in 1..(n + 1) : x >= n + 1 => x = n + 1
        OBVIOUS
      <4>3. Max(s) \in 1..(n + 1)
        BY <4>1, Zenon
      <4> QED
        BY <4>1, <4>2, <4>3, Zenon
    <3>2. G[s \ {n + 1}] = F[s \ {n + 1}]
      BY <2>2
    <3> QED
      BY <2>2, <3>1, <3>2
  <2>3. ASSUME NEW s \in SUBSET (1..(n + 1)), n + 1 \notin s, s # {}
        PROVE  G[s] = Value(s)
    <3>1. s \in SUBSET (1..n)
      BY <2>3
    <3>2. s \ {Max(s)} \in SUBSET (1..n) /\ s \ {Max(s)} \in SUBSET (1..(n + 1))
      BY <2>3, <3>1
    <3>3. G[s] = F[s] /\ G[s \ {Max(s)}] = F[s \ {Max(s)}]
      BY <2>3, <3>2
    <3>4. F[s] = Step(fold, F[s \ {Max(s)}], seq[Max(s)])
      BY <2>1, <2>3, <3>1 DEF Folded
    <3> QED
      BY <2>3, <3>3, <3>4
  <2>4. G[{}] = base
    BY <2>1 DEF Folded
  <2>5. \A s \in SUBSET (1..(n + 1)) : G[s] = Value(s)
    BY <2>2, <2>3, <2>4
  <2>6. G = [s \in SUBSET (1..(n + 1)) |-> G[s]]
    OBVIOUS
  <2> HIDE DEF G
  <2>7. Folded(G, fold, base, seq, n + 1)
    BY <2>5, <2>6, Zenon DEF Folded
  <2> QED
    BY <2>7
<1> HIDE DEF T
<1>3. T \in SUBSET Nat
  BY DEF T
<1>4. len \in T
  BY <1>1, <1>2, <1>3, Induction
<1> QED
  BY <1>4 DEF T

LEMMA AtFirst ==
    ASSUME NEW fold, NEW base, NEW S, NEW seq \in Seq(S)
    PROVE  At(fold, base, seq, 0) = base
<1> DEFINE F == CHOOSE F : Folded(F, fold, base, seq, Len(seq))
<1>1. Folded(F, fold, base, seq, Len(seq))
  BY FoldExists
<1>2. At(fold, base, seq, 0) = F[1..0]
  BY DEF At
<1> HIDE DEF F
<1>3. 1..0 = {} /\ 1..0 \in SUBSET (1..Len(seq))
  OBVIOUS
<1> QED
  BY <1>1, <1>2, <1>3 DEF Folded

LEMMA AtNext ==
    ASSUME NEW fold, NEW base, NEW S, NEW seq \in Seq(S), NEW i \in 1..Len(seq)
    PROVE  At(fold, base, seq, i) = Step(fold, At(fold, base, seq, i - 1), seq[i])
<1> DEFINE F == CHOOSE F : Folded(F, fold, base, seq, Len(seq))
<1>1. Folded(F, fold, base, seq, Len(seq))
  BY FoldExists
<1>2. \A j : At(fold, base, seq, j) = F[1..j]
  BY DEF At
<1> HIDE DEF F
<1>3. (1..i) \in SUBSET (1..Len(seq)) /\ 1..i # {}
  OBVIOUS
<1>4. Max(1..i) = i
  <2>1. i \in Nat /\ (1..i) \in SUBSET (1..i) /\ i \in 1..i
    OBVIOUS
  <2>2. Max(1..i) \in 1..i /\ Max(1..i) >= i
    BY <1>3, <2>1, MaxOf, Zenon
  <2>3. \A x \in 1..i : x >= i => x = i
    BY <2>1
  <2> QED
    BY <2>2, <2>3, Zenon
<1>5. (1..i) \ {i} = 1..(i - 1)
  OBVIOUS
<1>6. F[1..i] = Step(fold, F[(1..i) \ {i}], seq[i])
  BY <1>1, <1>3, <1>4 DEF Folded
<1> QED
  BY <1>2, <1>5, <1>6

LEMMA AtPrefix ==
    ASSUME NEW fold, NEW base, NEW S, NEW p \in Seq(S), NEW q \in Seq(S), Len(p) <= Len(q),
           \A i \in 1..Len(p) : q[i] = p[i]
    PROVE  At(fold, base, q, Len(p)) = At(fold, base, p, Len(p))
<1> DEFINE n == Len(p)
           T == {i \in 0..n : At(fold, base, q, i) = At(fold, base, p, i)}
<1>1. n \in Nat /\ Len(q) \in Nat /\ \A i \in 1..n : i \in 1..Len(q)
  OBVIOUS
<1>2. 0 \in T
  <2>1. At(fold, base, q, 0) = base /\ At(fold, base, p, 0) = base
    BY AtFirst
  <2> QED
    BY <1>1, <2>1
<1>3. ASSUME NEW i \in 1..n, i - 1 \in T
      PROVE  i \in T
  <2>1. At(fold, base, p, i) = Step(fold, At(fold, base, p, i - 1), p[i])
    BY AtNext
  <2>2. i \in 1..Len(q)
    BY <1>1
  <2>3. At(fold, base, q, i) = Step(fold, At(fold, base, q, i - 1), q[i])
    BY <2>2, AtNext
  <2>4. q[i] = p[i] /\ i \in 0..n
    OBVIOUS
  <2> QED
    BY <1>3, <2>1, <2>3, <2>4
<1> HIDE DEF T
<1>4. T \in SUBSET (0..n)
  BY DEF T
<1>5. \A i \in 0..n : i \in T
  BY <1>1, <1>2, <1>3, <1>4, BoundedInduction
<1>6. n \in T
  BY <1>1, <1>5
<1> QED
  BY <1>6 DEF T

AtSteps(fold, base, seq, i) ==
    At(fold, base, seq, i) = Step(fold, At(fold, base, seq, i - 1), seq[i])

LEMMA AtStep ==
    ASSUME NEW fold, NEW base, NEW S, NEW seq \in Seq(S), NEW i \in 1..Len(seq)
    PROVE  AtSteps(fold, base, seq, i)
BY AtNext DEF AtSteps

AtRest(fold, base, p, q, j) ==
    At(fold, base, p \o q, Len(p) + j) = At(fold, At(fold, base, p, Len(p)), q, j)

LEMMA AtConcat ==
    ASSUME NEW fold, NEW base, NEW S, NEW p \in Seq(S), NEW q \in Seq(S)
    PROVE  AtRest(fold, base, p, q, Len(q))
<1> DEFINE T == {j \in 0..Len(q) : AtRest(fold, base, p, q, j)}
<1>1. PICK pq : pq = p \o q
  OBVIOUS
<1>2. /\ pq \in Seq(S) /\ Len(pq) = Len(p) + Len(q) /\ Len(p) \in Nat /\ Len(q) \in Nat
      /\ \A j \in 1..Len(p) : pq[j] = p[j]
      /\ \A j \in 1..Len(q) : pq[Len(p) + j] = q[j]
  <2>1. /\ Len(p) \in Nat /\ Len(q) \in Nat /\ Len(p \o q) = Len(p) + Len(q) /\ p \o q \in Seq(S)
        /\ \A i \in 1..(Len(p) + Len(q)) : (p \o q)[i] = IF i <= Len(p) THEN p[i] ELSE q[i - Len(p)]
    BY ConcatProperties
  <2>2. ASSUME NEW j \in 1..Len(p)
        PROVE  pq[j] = p[j]
    <3>1. j \in 1..(Len(p) + Len(q)) /\ j <= Len(p)
      BY <2>1
    <3> QED
      BY <1>1, <2>1, <3>1
  <2>3. ASSUME NEW j \in 1..Len(q)
        PROVE  pq[Len(p) + j] = q[j]
    <3>1. Len(p) + j \in 1..(Len(p) + Len(q)) /\ ~(Len(p) + j <= Len(p)) /\ Len(p) + j - Len(p) = j
      BY <2>1
    <3> QED
      BY <1>1, <2>1, <3>1
  <2> QED
    BY <1>1, <2>1, <2>2, <2>3
<1>3. PICK mid : mid = At(fold, base, p, Len(p))
  OBVIOUS
<1>4. 0 \in T
  <2>1. Len(p) <= Len(pq) /\ Len(p) + 0 = Len(p) /\ 0 \in 0..Len(q)
    BY <1>2
  <2>2. At(fold, base, pq, Len(p)) = mid
    BY <1>2, <1>3, <2>1, AtPrefix
  <2>3. At(fold, mid, q, 0) = mid
    BY AtFirst
  <2> QED
    BY <1>1, <1>3, <2>1, <2>2, <2>3 DEF AtRest
<1>5. ASSUME NEW j \in 1..Len(q), j - 1 \in T
      PROVE  j \in T
  <2>1. /\ Len(p) + j \in 1..Len(pq) /\ Len(p) + j - 1 = Len(p) + (j - 1) /\ j \in 0..Len(q)
        /\ pq[Len(p) + j] = q[j]
    BY <1>2
  <2>2. At(fold, base, pq, Len(p) + j) = Step(fold, At(fold, base, pq, Len(p) + j - 1), pq[Len(p) + j])
    <3>1. AtSteps(fold, base, pq, Len(p) + j)
      BY <1>2, <2>1, AtStep
    <3> QED
      BY <3>1 DEF AtSteps
  <2>3. At(fold, mid, q, j) = Step(fold, At(fold, mid, q, j - 1), q[j])
    BY AtNext
  <2>4. At(fold, base, pq, Len(p) + (j - 1)) = At(fold, mid, q, j - 1)
    BY <1>1, <1>3, <1>5 DEF AtRest
  <2>5. At(fold, base, pq, Len(p) + j) = At(fold, mid, q, j)
    BY <2>1, <2>2, <2>3, <2>4
  <2> QED
    BY <1>1, <1>3, <2>1, <2>5 DEF AtRest
<1>6. Len(q) \in T
  <2> HIDE DEF T
  <2>1. T \in SUBSET (0..Len(q))
    BY DEF T
  <2>2. \A j \in 0..Len(q) : j \in T
    BY <1>2, <1>4, <1>5, <2>1, BoundedInduction
  <2> QED
    BY <1>2, <2>2
<1> QED
  BY <1>6

LEMMA SplitIsAt ==
    ASSUME NEW S, NEW seq \in Seq(S)
    PROVE  Split(seq, Space) = At("cut", <<<<>>>>, seq, Len(seq))
<1>1. DOMAIN seq = 1..Len(seq)
  OBVIOUS
<1> QED
  BY <1>1, Zenon DEF Split, FoldLeft, MapThenFoldSet, At, Folded, Step

LEMMA FlattenIsAt ==
    ASSUME NEW S, NEW seqs \in Seq(Seq(S))
    PROVE  FlattenSeq(seqs) = At("flat", <<>>, seqs, Len(seqs))
<1>1. PICK n : n = Len(seqs)
  OBVIOUS
<1>2. n \in Nat /\ \A i \in 1..n : seqs[i] \in Seq(S)
  BY <1>1
<1> DEFINE IsFlat(f) == f = [i \in 1..n |-> IF i = 1 THEN seqs[i] ELSE f[i - 1] \o seqs[i]]
           G == [i \in 1..n |-> At("flat", <<>>, seqs, i)]
<1>3. CASE n = 0
  <2>1. seqs = <<>>
    <3>1. PICK R : R = Seq(S)
      OBVIOUS
    <3>2. seqs \in Seq(R) /\ Len(seqs) = 0
      BY <1>1, <1>3, <3>1
    <3> QED
      BY <3>2, EmptySeq
  <2>2. At("flat", <<>>, seqs, 0) = <<>>
    BY AtFirst
  <2> QED
    BY <1>1, <1>3, <2>1, <2>2 DEF FlattenSeq
<1>4. CASE n # 0
  <2>1. ASSUME NEW i \in 1..n
        PROVE  At("flat", <<>>, seqs, i) = At("flat", <<>>, seqs, i - 1) \o seqs[i]
    <3>1. AtSteps("flat", <<>>, seqs, i)
      BY <1>1, AtStep
    <3> QED
      BY <3>1, StepIs DEF AtSteps
  <2>2. At("flat", <<>>, seqs, 0) = <<>>
    BY AtFirst
  <2>3. At("flat", <<>>, seqs, 1) = seqs[1]
    <3>1. 1 \in 1..n /\ 1 - 1 = 0
      BY <1>2, <1>4
    <3>2. At("flat", <<>>, seqs, 1) = At("flat", <<>>, seqs, 1 - 1) \o seqs[1]
      BY <2>1, <3>1
    <3>3. seqs[1] \in Seq(S)
      BY <1>2, <3>1
    <3> QED
      BY <2>2, <3>1, <3>2, <3>3, ConcatEmptySeq
  <2>4. IsFlat(G)
    <3>1. ASSUME NEW i \in 1..n
          PROVE  G[i] = IF i = 1 THEN seqs[i] ELSE G[i - 1] \o seqs[i]
      <4>1. CASE i = 1
        BY <2>3, <4>1
      <4>2. CASE i # 1
        <5>1. i - 1 \in 1..n
          BY <1>2, <4>2
        <5> QED
          BY <2>1, <4>2, <5>1
      <4> QED
        BY <4>1, <4>2
    <3>2. G = [i \in 1..n |-> G[i]]
      OBVIOUS
    <3> HIDE DEF G
    <3> QED
      BY <3>1, <3>2, Zenon
  <2>5. ASSUME NEW f, IsFlat(f)
        PROVE  f[n] = At("flat", <<>>, seqs, n)
    <3> DEFINE T == {i \in 0..n : i # 0 => f[i] = At("flat", <<>>, seqs, i)}
    <3>1. 0 \in T
      BY <1>2
    <3>2. ASSUME NEW i \in 1..n, i - 1 \in T
          PROVE  i \in T
      <4>1. f[i] = IF i = 1 THEN seqs[i] ELSE f[i - 1] \o seqs[i]
        BY <2>5
      <4>2. CASE i = 1
        BY <1>2, <2>3, <4>1, <4>2
      <4>3. CASE i # 1
        <5>1. i - 1 # 0
          BY <1>2, <4>3
        <5>2. f[i - 1] = At("flat", <<>>, seqs, i - 1)
          BY <3>2, <5>1
        <5>3. f[i] = f[i - 1] \o seqs[i]
          BY <4>1, <4>3
        <5>4. At("flat", <<>>, seqs, i) = At("flat", <<>>, seqs, i - 1) \o seqs[i]
          BY <2>1
        <5>5. f[i] = At("flat", <<>>, seqs, i)
          BY <5>2, <5>3, <5>4, Zenon
        <5>6. i \in 0..n
          BY <1>2
        <5> QED
          BY <5>5, <5>6
      <4> QED
        BY <4>2, <4>3
    <3>3. n \in T
      <4> HIDE DEF T
      <4>1. T \in SUBSET (0..n)
        BY DEF T
      <4>2. \A i \in 0..n : i \in T
        BY <1>2, <3>1, <3>2, <4>1, BoundedInduction
      <4> QED
        BY <1>2, <4>2
    <3> QED
      BY <1>4, <3>3
  <2>6. FlattenSeq(seqs) = (CHOOSE f : IsFlat(f))[n]
    BY <1>1, <1>4, Zenon DEF FlattenSeq
  <2>7. IsFlat(CHOOSE f : IsFlat(f))
    BY <2>4
  <2> HIDE DEF IsFlat
  <2> QED
    BY <1>1, <2>5, <2>6, <2>7
<1> QED
  BY <1>3, <1>4

-----------------------------------------------------------------------------
(* Texts: TrimSpace, SplitOnce and ToUpper. *)

Code == 32..126
Text == Seq(Code)

Without(s, c) == \A i \in 1..Len(s) : s[i] # c
Trimmed(s) == s # <<>> /\ s[1] # Space /\ s[Len(s)] # Space

LEMMA TextIs ==
    ASSUME NEW s \in Text
    PROVE  /\ Len(s) \in Nat /\ DOMAIN s = 1..Len(s)
           /\ \A i \in 1..Len(s) : s[i] \in Code /\ s[i] \in Nat /\ (IsSpace(s[i]) <=> s[i] = Space)
           /\ (s # <<>> <=> Len(s) # 0)
<1>1. Len(s) \in Nat /\ DOMAIN s = 1..Len(s) /\ \A i \in 1..Len(s) : s[i] \in Code
  <2>1. PICK C : C = Code
    OBVIOUS
  <2>2. s \in Seq(C)
    BY <2>1 DEF Text
  <2> QED
    BY <2>1, <2>2
<1>2. ASSUME NEW i \in 1..Len(s)
      PROVE  s[i] \in Code /\ s[i] \in Nat /\ (IsSpace(s[i]) <=> s[i] = Space)
  <2>1. PICK x : x = s[i]
    OBVIOUS
  <2>2. x \in 32..126
    BY <1>1, <2>1 DEF Code
  <2>3. x \in Nat /\ (x \in 9..13 \cup {32} <=> x = 32)
    BY <2>2
  <2> QED
    BY <2>1, <2>2, <2>3 DEF Code, IsSpace, Space
<1>3. s # <<>> <=> Len(s) # 0
  BY EmptySeq DEF Text
<1> QED
  BY <1>1, <1>2, <1>3

LEMMA MinOf ==
    ASSUME NEW n \in Nat, NEW s \in SUBSET (1..n), s # {}
    PROVE  Min(s) \in s /\ \A y \in s : Min(s) =< y
<1>1. s \subseteq Nat
  OBVIOUS
<1>2. \E x \in s : \A y \in s : ~(<<y, x>> \in OpToRel(<, Nat))
  BY <1>1, WFMin, NatLessThanWellFounded, Zenon
<1>3. \E x \in s : \A y \in s : x =< y
  <2>1. PICK x \in s : \A y \in s : ~(<<y, x>> \in OpToRel(<, Nat))
    BY <1>2
  <2>2. ASSUME NEW y \in s
        PROVE  x =< y
    <3>1. x \in Nat /\ y \in Nat
      BY <1>1
    <3>2. ~(y < x)
      BY <2>1, <3>1 DEF OpToRel
    <3> QED
      BY <3>1, <3>2
  <2> QED
    BY <2>2
<1> QED
  BY <1>3 DEF Min

TrimOK(s, t) ==
    /\ t \in Text
    /\ t = <<>> \/ Trimmed(t)
    /\ Without(s, Colon) => Without(t, Colon)
    /\ (\E i \in 1..Len(s) : s[i] # Space) => t # <<>>

LEMMA TrimIs ==
    ASSUME NEW s \in Text
    PROVE  TrimOK(s, TrimSpace(s))
<1>1. PICK kept : kept = {i \in DOMAIN s : ~IsSpace(s[i])}
  OBVIOUS
<1>2. kept \in SUBSET (1..Len(s)) /\ Len(s) \in Nat /\ \A i \in 1..Len(s) : i \in kept <=> s[i] # Space
  BY <1>1, TextIs
<1>3. TrimSpace(s) = IF kept = {} THEN <<>> ELSE SubSeq(s, Min(kept), Max(kept))
  BY <1>1 DEF TrimSpace
<1>4. CASE kept = {}
  <2>1. <<>> \in Text /\ Len(<<>>) = 0
    BY DEF Text
  <2> QED
    BY <1>2, <1>3, <1>4, <2>1 DEF TrimOK, Without
<1>5. CASE kept # {}
  <2>1. PICK a, b : a = Min(kept) /\ b = Max(kept)
    OBVIOUS
  <2>2. a \in kept /\ b \in kept /\ a =< b
    <3>1. Min(kept) \in kept /\ \A y \in kept : Min(kept) =< y
      BY <1>2, <1>5, MinOf
    <3>2. Max(kept) \in kept
      BY <1>2, <1>5, MaxOf
    <3> QED
      BY <2>1, <3>1, <3>2
  <2>3. a \in 1..Len(s) /\ b \in 1..Len(s) /\ s[a] # Space /\ s[b] # Space
    BY <1>2, <2>2
  <2>4. PICK t : t = SubSeq(s, a, b)
    OBVIOUS
  <2>5. /\ t \in Text /\ Len(t) = b - a + 1
        /\ \A i \in 1..(b - a + 1) : t[i] = s[a + i - 1]
    <3>1. \A i \in a..b : s[i] \in Code
      BY <1>2, <2>3, TextIs
    <3> QED
      BY <2>2, <2>3, <2>4, <3>1, SubSeqProperties DEF Text
  <2>6. t # <<>> /\ t[1] = s[a] /\ t[Len(t)] = s[b]
    <3>1. 1 \in 1..(b - a + 1) /\ b - a + 1 \in 1..(b - a + 1) /\ a + 1 - 1 = a /\ a + (b - a + 1) - 1 = b
      BY <2>2, <2>3
    <3> QED
      BY <2>5, <3>1
  <2>7. Without(s, Colon) => Without(t, Colon)
    <3>1. \A i \in 1..(b - a + 1) : a + i - 1 \in 1..Len(s)
      BY <2>2, <2>3
    <3> QED
      BY <2>5, <3>1 DEF Without
  <2> QED
    BY <1>3, <1>5, <2>1, <2>3, <2>4, <2>5, <2>6, <2>7 DEF TrimOK, Trimmed
<1> QED
  BY <1>4, <1>5

\* Nothing is trimmed but spaces at the end.
LEMMA TrimOnlySpaces ==
    ASSUME NEW s \in Text, Trimmed(s), NEW t \in Text, Len(t) >= Len(s),
           \A i \in 1..Len(s) : t[i] = s[i],
           \A i \in 1..Len(t) : i > Len(s) => t[i] = Space
    PROVE  TrimSpace(t) = s
<1>1. PICK kept : kept = {i \in DOMAIN t : ~IsSpace(t[i])}
  OBVIOUS
<1>2. kept \in SUBSET (1..Len(t)) /\ Len(t) \in Nat /\ \A i \in 1..Len(t) : i \in kept <=> t[i] # Space
  BY <1>1, TextIs
<1>3. PICK n : n = Len(s)
  OBVIOUS
<1>4. n \in Nat /\ n # 0 /\ s[1] # Space /\ s[n] # Space /\ n =< Len(t)
  BY <1>3, TextIs DEF Trimmed
<1>5. 1 \in kept /\ n \in kept
  <2>1. 1 \in 1..n /\ n \in 1..n /\ 1 \in 1..Len(t) /\ n \in 1..Len(t)
    BY <1>2, <1>4
  <2>2. t[1] = s[1] /\ t[n] = s[n]
    BY <1>3, <2>1
  <2> QED
    BY <1>2, <1>4, <2>1, <2>2
<1>6. \A y \in kept : 1 =< y /\ y =< n
  BY <1>2, <1>3, <1>4
<1>7. Min(kept) = 1
  <2>1. Min(kept) \in kept /\ \A y \in kept : Min(kept) =< y
    BY <1>2, <1>5, MinOf
  <2>2. PICK m : m = Min(kept)
    OBVIOUS
  <2>3. m \in kept /\ m =< 1
    BY <1>5, <2>1, <2>2
  <2>4. m \in 1..Len(t)
    BY <1>2, <2>3
  <2>5. m = 1
    BY <1>2, <2>3, <2>4
  <2> QED
    BY <2>2, <2>5
<1>8. Max(kept) = n
  <2>1. Max(kept) \in kept /\ \A y \in kept : Max(kept) >= y
    BY <1>2, <1>5, MaxOf
  <2>2. PICK m : m = Max(kept)
    OBVIOUS
  <2>3. m \in kept /\ m >= n
    BY <1>5, <2>1, <2>2
  <2>4. m \in 1..Len(t) /\ m =< n
    BY <1>2, <1>6, <2>3
  <2>5. m = n
    BY <1>2, <1>4, <2>3, <2>4
  <2> QED
    BY <2>2, <2>5
<1>9. TrimSpace(t) = SubSeq(t, 1, n)
  BY <1>1, <1>5, <1>7, <1>8 DEF TrimSpace
<1>10. SubSeq(t, 1, n) = s
  <2>1. PICK r : r = SubSeq(t, 1, n)
    OBVIOUS
  <2>2. r \in Seq(Code) /\ Len(r) = n /\ \A i \in 1..n : r[i] = t[i]
    <3>1. \A i \in 1..n : t[i] \in Code
      BY <1>2, <1>4, TextIs
    <3>2. /\ r \in Seq(Code) /\ Len(r) = IF 1 <= n THEN n - 1 + 1 ELSE 0
          /\ \A i \in 1..(n - 1 + 1) : r[i] = t[1 + i - 1]
      BY <1>4, <2>1, <3>1, SubSeqProperties
    <3>3. 1 <= n /\ n - 1 + 1 = n /\ \A i \in 1..n : 1 + i - 1 = i
      BY <1>4
    <3> QED
      BY <3>2, <3>3
  <2>3. s \in Seq(Code) /\ Len(s) = n /\ \A i \in 1..n : r[i] = s[i]
    BY <1>3, <2>2 DEF Text
  <2>4. r = s
    BY <2>2, <2>3, SeqEqual
  <2> QED
    BY <2>1, <2>4
<1> QED
  BY <1>9, <1>10

LEMMA TrimNothing ==
    ASSUME NEW s \in Text, Trimmed(s)
    PROVE  TrimSpace(s) = s
<1>1. Len(s) >= Len(s) /\ \A i \in 1..Len(s) : ~(i > Len(s))
  BY TextIs
<1> QED
  BY <1>1, TrimOnlySpaces

LEMMA TrimSpaceBehind ==
    ASSUME NEW s \in Text, Trimmed(s)
    PROVE  TrimSpace(s \o <<Space>>) = s
<1>1. PICK t, n : t = s \o <<Space>> /\ n = Len(s)
  OBVIOUS
<1>2. n \in Nat /\ s \in Seq(Code) /\ Space \in Code
  BY <1>1, TextIs DEF Text, Code, Space
<1>3. t = Append(s, Space)
  BY <1>1, <1>2, AppendIsConcat
<1>4. /\ t \in Seq(Code) /\ Len(t) = n + 1 /\ t[n + 1] = Space
      /\ \A i \in 1..n : t[i] = s[i]
  BY <1>1, <1>2, <1>3, AppendProperties
<1>5. Len(t) >= Len(s) /\ \A i \in 1..Len(t) : i > n => i = n + 1
  BY <1>1, <1>2, <1>4
<1>6. TrimSpace(t) = s
  BY <1>1, <1>4, <1>5, TrimOnlySpaces DEF Text
<1> QED
  BY <1>1, <1>6

LEMMA SplitOnceNowhere ==
    ASSUME NEW s \in Text, NEW c, Without(s, c)
    PROVE  SplitOnce(s, c) = <<s>>
<1>1. Places(s, c) = {}
  BY TextIs DEF Places, Without
<1> QED
  BY <1>1 DEF SplitOnce

Between(s, a, c, b) == a \in Text /\ b \in Text /\ Without(a, c) /\ s = a \o (<<c>> \o b)

LEMMA SplitOnceAt ==
    ASSUME NEW s \in Text, NEW c \in Code, NEW a, NEW b, Between(s, a, c, b)
    PROVE  SplitOnce(s, c) = <<a, b>>
<1>1. PICK n, k : n = Len(a) /\ k = Len(b)
  OBVIOUS
<1>2. a \in Seq(Code) /\ b \in Seq(Code) /\ n \in Nat /\ k \in Nat /\ <<c>> \in Seq(Code) /\ Len(<<c>>) = 1
  BY <1>1 DEF Between, Text
<1>12. PICK cb : cb = <<c>> \o b
  OBVIOUS
<1>3. /\ cb \in Seq(Code) /\ Len(cb) = 1 + k
      /\ \A i \in 1..(1 + k) : cb[i] = IF i <= 1 THEN <<c>>[i] ELSE b[i - 1]
  BY <1>1, <1>2, <1>12, ConcatProperties
<1>4. /\ Len(s) = n + (1 + k)
      /\ \A i \in 1..(n + (1 + k)) : s[i] = IF i <= n THEN a[i] ELSE cb[i - n]
  BY <1>1, <1>2, <1>3, <1>12, ConcatProperties DEF Between
<1>5. ASSUME NEW i \in 1..n
      PROVE  s[i] = a[i]
  <2>1. i \in 1..(n + (1 + k)) /\ i <= n
    BY <1>2
  <2> QED
    BY <1>4, <2>1
<1>6. s[n + 1] = c
  <2>1. PICK x : x = n + 1
    OBVIOUS
  <2>2. x \in 1..(n + (1 + k)) /\ ~(x <= n) /\ x - n = 1 /\ 1 \in 1..(1 + k) /\ 1 <= 1
    BY <1>2, <2>1
  <2>3. s[x] = cb[x - n]
    BY <1>4, <2>2
  <2>4. cb[1] = <<c>>[1]
    BY <1>3, <2>2
  <2> QED
    BY <2>1, <2>2, <2>3, <2>4
<1>7. ASSUME NEW i \in 1..k
      PROVE  s[n + 1 + i] = b[i]
  <2>1. PICK x, y : x = n + 1 + i /\ y = 1 + i
    OBVIOUS
  <2>2. /\ x \in 1..(n + (1 + k)) /\ ~(x <= n) /\ x - n = y
        /\ y \in 1..(1 + k) /\ ~(y <= 1) /\ y - 1 = i
    BY <1>2, <2>1
  <2>3. s[x] = cb[x - n]
    BY <1>4, <2>2
  <2>4. cb[y] = b[y - 1]
    BY <1>3, <2>2
  <2> QED
    BY <2>1, <2>2, <2>3, <2>4
<1>8. Min(Places(s, c)) = n + 1 /\ Places(s, c) # {}
  <2>1. PICK p : p = Places(s, c)
    OBVIOUS
  <2>2. p \in SUBSET (1..(n + (1 + k))) /\ n + 1 \in p /\ \A i \in p : s[i] = c
    BY <1>2, <1>4, <1>6, <2>1, TextIs DEF Places
  <2>3. n + (1 + k) \in Nat
    BY <1>2
  <2>4. Min(p) \in p /\ \A y \in p : Min(p) =< y
    BY <2>2, <2>3, MinOf
  <2>5. ~(Min(p) \in 1..n)
    BY <1>1, <1>5, <2>2, <2>4 DEF Between, Without
  <2>6. Min(p) =< n + 1 /\ Min(p) \in 1..(n + (1 + k))
    BY <2>2, <2>4
  <2>7. Min(p) = n + 1
    BY <1>2, <2>5, <2>6
  <2> QED
    BY <2>1, <2>2, <2>7
<1>9. SplitOnce(s, c) = <<SubSeq(s, 1, n), SubSeq(s, n + 2, n + (1 + k))>>
  <2>1. PICK x : x = n + 1
    OBVIOUS
  <2>2. SplitOnce(s, c) = <<SubSeq(s, 1, x - 1), SubSeq(s, x + 1, Len(s))>>
    BY <1>8, <2>1, SMT DEF SplitOnce
  <2>3. x - 1 = n /\ x + 1 = n + 2 /\ Len(s) = n + (1 + k)
    BY <1>2, <1>4, <2>1
  <2> QED
    BY <2>2, <2>3, Zenon
<1>10. SubSeq(s, 1, n) = a
  <2>1. PICK r : r = SubSeq(s, 1, n)
    OBVIOUS
  <2>2. r \in Seq(Code) /\ Len(r) = n /\ \A i \in 1..n : r[i] = s[i]
    <3>1. \A i \in 1..n : s[i] \in Code
      BY <1>2, <1>4, TextIs
    <3> QED
      BY <1>2, <2>1, <3>1, SubSeqProperties
  <2>3. \A i \in 1..n : r[i] = a[i]
    BY <1>5, <2>2
  <2>4. r = a
    BY <1>1, <1>2, <2>2, <2>3, SeqEqual
  <2> QED
    BY <2>1, <2>4
<1>11. SubSeq(s, n + 2, n + (1 + k)) = b
  <2>1. PICK r : r = SubSeq(s, n + 2, n + (1 + k))
    OBVIOUS
  <2>2. r \in Seq(Code) /\ Len(r) = k /\ \A i \in 1..k : r[i] = s[n + 1 + i]
    <3>1. \A i \in (n + 2)..(n + (1 + k)) : s[i] \in Code
      <4>1. ASSUME NEW i \in (n + 2)..(n + (1 + k))
            PROVE  s[i] \in Code
        <5>1. i \in 1..Len(s)
          BY <1>2, <1>4
        <5> QED
          BY <5>1, TextIs
      <4> QED
        BY <4>1
    <3>2. /\ r \in Seq(Code)
          /\ Len(r) = IF n + 2 <= n + (1 + k) THEN n + (1 + k) - (n + 2) + 1 ELSE 0
          /\ \A i \in 1..(n + (1 + k) - (n + 2) + 1) : r[i] = s[n + 2 + i - 1]
      BY <1>2, <2>1, <3>1, SubSeqProperties
    <3>3. /\ n + (1 + k) - (n + 2) + 1 = k /\ (~(n + 2 <= n + (1 + k)) => k = 0)
          /\ \A i \in 1..k : n + 2 + i - 1 = n + 1 + i
      BY <1>2
    <3> QED
      BY <3>2, <3>3
  <2>3. \A i \in 1..k : r[i] = b[i]
    BY <1>7, <2>2
  <2>4. r = b
    BY <1>1, <1>2, <2>2, <2>3, SeqEqual
  <2> QED
    BY <2>1, <2>4
<1> QED
  BY <1>9, <1>10, <1>11

LEMMA SplitOnceSomewhere ==
    ASSUME NEW s \in Text, NEW c \in Code, ~Without(s, c)
    PROVE  \E a, b : Between(s, a, c, b)
<1>1. PICK p, n : p = Places(s, c) /\ n = Len(s)
  OBVIOUS
<1>2. s \in Seq(Code) /\ n \in Nat /\ p \in SUBSET (1..n) /\ p # {} /\ \A i \in 1..n : i \in p <=> s[i] = c
  BY <1>1, TextIs DEF Text, Places, Without
<1>3. PICK m : m = Min(p)
  OBVIOUS
<1>4. m \in p /\ \A y \in p : m =< y
  BY <1>2, <1>3, MinOf
<1>5. m \in 1..n /\ s[m] = c /\ n \in m..Len(s)
  BY <1>1, <1>2, <1>4
<1>6. PICK a, b : a = SubSeq(s, 1, m - 1) /\ b = SubSeq(s, m + 1, n)
  OBVIOUS
<1>7. a \in Seq(Code) /\ b \in Seq(Code)
  BY <1>1, <1>2, <1>5, <1>6
<1>8. Len(a) = m - 1 /\ \A i \in 1..(m - 1) : a[i] = s[i]
  BY <1>1, <1>2, <1>5, <1>6
<1>9. Without(a, c)
  <2>1. \A i \in 1..(m - 1) : i \in 1..n /\ ~(m =< i)
    BY <1>2, <1>5
  <2> QED
    BY <1>2, <1>4, <1>8, <2>1 DEF Without
<1>10. s = a \o (<<c>> \o b)
  <2>1. SubSeq(s, m, n) = <<c>> \o b
    BY <1>1, <1>2, <1>5, <1>6, SubSeqRecursiveFirst
  <2>2. 1 \in 1..(Len(s) + 1) /\ m - 1 \in (1 - 1)..Len(s) /\ n \in (m - 1)..Len(s) /\ m - 1 + 1 = m
    BY <1>1, <1>2, <1>5
  <2>3. SubSeq(s, 1, m - 1) \o SubSeq(s, m - 1 + 1, n) = SubSeq(s, 1, n)
    BY <1>2, <2>2, ConcatAdjacentSubSeq
  <2>4. SubSeq(s, 1, n) = s
    BY <1>1, <1>2, SubSeqFull
  <2> QED
    BY <1>6, <2>1, <2>2, <2>3, <2>4
<1> QED
  BY <1>7, <1>9, <1>10 DEF Between, Text

LEMMA ToUpperIs ==
    ASSUME NEW w \in Text
    PROVE  /\ ToUpper(w) \in Text /\ Len(ToUpper(w)) = Len(w)
           /\ Without(w, Space) => Without(ToUpper(w), Space)
           /\ Without(w, Colon) => Without(ToUpper(w), Colon)
           /\ ToUpper(ToUpper(w)) = ToUpper(w)
<1>1. PICK u, n : u = ToUpper(w) /\ n = Len(w)
  OBVIOUS
<1>2. n \in Nat /\ DOMAIN w = 1..n /\ \A i \in 1..n : w[i] \in 32..126
  BY <1>1, TextIs DEF Code
<1>3. u = [i \in 1..n |-> IF w[i] \in 97..122 THEN w[i] - 32 ELSE w[i]]
  BY <1>1, <1>2 DEF ToUpper
<1>4. \A i \in 1..n : u[i] = IF w[i] \in 97..122 THEN w[i] - 32 ELSE w[i]
  BY <1>3
<1>9. ASSUME NEW i \in 1..n
      PROVE  /\ u[i] \in 32..126 /\ u[i] \notin 97..122
             /\ (w[i] # 32 => u[i] # 32) /\ (w[i] # 58 => u[i] # 58)
  <2>1. PICK x : x = w[i]
    OBVIOUS
  <2>3. x \in 32..126
    BY <1>2, <2>1
  <2>2. u[i] = IF x \in 97..122 THEN x - 32 ELSE x
    BY <1>4, <2>1, Zenon
  <2> QED
    BY <2>1, <2>2, <2>3
<1>5. \A i \in 1..n : u[i] \in 32..126 /\ u[i] \notin 97..122
  BY <1>9
<1>6. \A i \in 1..n : (w[i] # 32 => u[i] # 32) /\ (w[i] # 58 => u[i] # 58)
  BY <1>9
<1>7. u \in Seq(32..126) /\ Len(u) = n /\ DOMAIN u = 1..n
  BY <1>2, <1>3, <1>5
<1>8. ToUpper(u) = u
  <2>1. ToUpper(u) = [i \in 1..n |-> IF u[i] \in 97..122 THEN u[i] - 32 ELSE u[i]]
    BY <1>7 DEF ToUpper
  <2>2. \A i \in 1..n : (IF u[i] \in 97..122 THEN u[i] - 32 ELSE u[i]) = u[i]
    BY <1>5
  <2>3. u = [i \in 1..n |-> u[i]]
    BY <1>3
  <2> QED
    BY <2>1, <2>2, <2>3
<1> QED
  BY <1>1, <1>6, <1>7, <1>8 DEF Text, Code, Without, Space, Colon

-----------------------------------------------------------------------------
(* Words: a line is its words, each but the last followed by a space. *)

LEMMA ByAppending ==
    ASSUME NEW S, NEW T \in SUBSET Seq(S), <<>> \in T,
           \A s \in T : \A e \in S : Append(s, e) \in T
    PROVE  \A s \in Seq(S) : s \in T
<1> DEFINE U == {n \in Nat : \A s \in Seq(S) : Len(s) = n => s \in T}
<1>1. 0 \in U
  <2>1. \A s \in Seq(S) : Len(s) = 0 => s = <<>>
    BY EmptySeq
  <2> QED
    BY <2>1
<1>2. ASSUME NEW n \in U
      PROVE  n + 1 \in U
  <2>1. n \in Nat /\ \A s \in Seq(S) : Len(s) = n => s \in T
    OBVIOUS
  <2>2. ASSUME NEW s \in Seq(S), Len(s) = n + 1
        PROVE  s \in T
    <3>1. s # <<>>
      BY <2>1, <2>2, EmptySeq
    <3>2. PICK f \in Seq(S), e \in S : s = Append(f, e)
      BY <3>1, SequenceEmptyOrAppend
    <3>3. Len(f) \in Nat /\ Len(s) = Len(f) + 1
      BY <3>2, AppendProperties
    <3>4. Len(f) = n
      BY <2>1, <2>2, <3>3
    <3> QED
      BY <2>1, <3>2, <3>4
  <2>3. n + 1 \in Nat
    BY <2>1
  <2> QED
    BY <2>2, <2>3
<1>3. \A n \in Nat : n \in U
  <2>1. U \in SUBSET Nat
    OBVIOUS
  <2> HIDE DEF U
  <2> QED
    BY <1>1, <1>2, <2>1, Induction
<1>4. ASSUME NEW s \in Seq(S)
      PROVE  s \in T
  <2>1. Len(s) \in U
    BY <1>3
  <2> QED
    BY <2>1
<1> QED
  BY <1>4

\* What is made of all the elements.
Fold(fold, base, seq) == At(fold, base, seq, Len(seq))

FoldStep(fold, base, p, e) == Fold(fold, base, Append(p, e)) = Step(fold, Fold(fold, base, p), e)

LEMMA FoldEmpty ==
    ASSUME NEW fold, NEW base
    PROVE  Fold(fold, base, <<>>) = base
<1>1. <<>> \in Seq({}) /\ Len(<<>>) = 0
  BY EmptySeq
<1> QED
  BY <1>1, AtFirst DEF Fold

LEMMA FoldAppend ==
    ASSUME NEW fold, NEW base, NEW S, NEW p \in Seq(S), NEW e \in S
    PROVE  FoldStep(fold, base, p, e)
<1>1. PICK q, n : q = Append(p, e) /\ n = Len(p)
  OBVIOUS
<1>2. q \in Seq(S) /\ Len(q) = n + 1 /\ n \in Nat /\ q[n + 1] = e /\ \A i \in 1..n : q[i] = p[i]
  BY <1>1, AppendProperties
<1>3. At(fold, base, q, n) = At(fold, base, p, n)
  <2>1. Len(p) <= Len(q)
    BY <1>1, <1>2
  <2> QED
    BY <1>1, <1>2, <2>1, AtPrefix
<1>4. AtSteps(fold, base, q, n + 1)
  <2>1. n + 1 \in 1..Len(q)
    BY <1>2
  <2> QED
    BY <1>2, <2>1, AtStep
<1>5. n + 1 - 1 = n
  BY <1>2
<1> QED
  BY <1>1, <1>2, <1>3, <1>4, <1>5 DEF FoldStep, Fold, AtSteps

FoldRest(fold, base, p, q) == Fold(fold, base, p \o q) = Fold(fold, Fold(fold, base, p), q)

LEMMA FoldConcat ==
    ASSUME NEW fold, NEW base, NEW S, NEW p \in Seq(S), NEW q \in Seq(S)
    PROVE  FoldRest(fold, base, p, q)
<1>1. AtRest(fold, base, p, q, Len(q))
  BY AtConcat
<1>2. Len(p \o q) = Len(p) + Len(q)
  BY ConcatProperties
<1> QED
  BY <1>1, <1>2 DEF AtRest, Fold, FoldRest

LEMMA SplitIsFold ==
    ASSUME NEW S, NEW s \in Seq(S)
    PROVE  Split(s, Space) = Fold("cut", <<<<>>>>, s)
BY SplitIsAt DEF Fold

LEMMA FlattenIsFold ==
    ASSUME NEW S, NEW seqs \in Seq(Seq(S))
    PROVE  FlattenSeq(seqs) = Fold("flat", <<>>, seqs)
BY FlattenIsAt DEF Fold

\* The words of ws, each followed by a space.
Led(ws) == Fold("lead", <<>>, ws)

LedStep(ws, w) == Led(Append(ws, w)) = (Led(ws) \o w) \o <<Space>>

LEMMA LedEmpty == Led(<<>>) = <<>>
BY FoldEmpty DEF Led

LEMMA LedAppend ==
    ASSUME NEW S, NEW ws \in Seq(S), NEW w \in S
    PROVE  LedStep(ws, w)
<1>1. FoldStep("lead", <<>>, ws, w)
  BY FoldAppend
<1> QED
  BY <1>1, StepIs DEF FoldStep, LedStep, Led

LEMMA LedText ==
    ASSUME NEW C, Space \in C
    PROVE  \A ws \in Seq(Seq(C)) : Led(ws) \in Seq(C)
<1> DEFINE T == {ws \in Seq(Seq(C)) : Led(ws) \in Seq(C)}
<1>1. PICK R : R = Seq(C)
  OBVIOUS
<1>2. T \in SUBSET Seq(R)
  BY <1>1
<1>3. <<>> \in T
  <2>1. <<>> \in Seq(Seq(C)) /\ <<>> \in Seq(C)
    OBVIOUS
  <2>2. Led(<<>>) \in Seq(C)
    BY <2>1, LedEmpty, Zenon
  <2> QED
    BY <2>1, <2>2
<1>4. ASSUME NEW ws \in T, NEW w \in R
      PROVE  Append(ws, w) \in T
  <2>1. ws \in Seq(R) /\ Led(ws) \in Seq(C) /\ w \in Seq(C)
    BY <1>1
  <2>2. LedStep(ws, w)
    BY <2>1, LedAppend
  <2>3. Append(ws, w) \in Seq(R)
    BY <2>1
  <2>4. PICK l : l = Led(ws) \o w
    OBVIOUS
  <2>5. l \in Seq(C)
    BY <2>1, <2>4
  <2>6. l \o <<Space>> \in Seq(C)
    BY <2>5
  <2>7. Led(Append(ws, w)) \in Seq(C)
    BY <2>2, <2>4, <2>6 DEF LedStep
  <2> QED
    BY <1>1, <2>3, <2>7
<1>5. \A ws \in Seq(R) : ws \in T
  <2> HIDE DEF T
  <2> QED
    BY <1>2, <1>3, <1>4, ByAppending
<1> QED
  BY <1>1, <1>5

\* One more character after the words P, a.
CutStep(P, a, c) ==
    Cut(Append(P, a), c, Space) = IF c = Space THEN Append(Append(P, a), <<>>) ELSE Append(P, Append(a, c))

LEMMA CutIs ==
    ASSUME NEW S, NEW P \in Seq(Seq(S)), NEW a \in Seq(S), NEW c \in S
    PROVE  CutStep(P, a, c)
<1>1. PICK R, q, n, b : R = Seq(S) /\ q = Append(P, a) /\ n = Len(P) /\ b = Append(a, c)
  OBVIOUS
<1>2. P \in Seq(R) /\ a \in R /\ b \in R /\ n \in Nat
  BY <1>1, AppendProperties
<1>3. q \in Seq(R) /\ Len(q) = n + 1 /\ q[n + 1] = a /\ \A i \in 1..n : q[i] = P[i]
  BY <1>1, <1>2, AppendProperties
<1>4. PICK r : r = [q EXCEPT ![n + 1] = b]
  OBVIOUS
<1>5. PICK t : t = Append(P, b)
  OBVIOUS
<1>6. r = t
  <2>1. n + 1 \in 1..Len(q)
    BY <1>2, <1>3
  <2>2. r \in Seq(R) /\ Len(r) = n + 1 /\ \A j \in 1..(n + 1) : r[j] = IF j = n + 1 THEN b ELSE q[j]
    BY <1>2, <1>3, <1>4, <2>1, ExceptSeq
  <2>3. t \in Seq(R) /\ Len(t) = n + 1 /\ t[n + 1] = b /\ \A i \in 1..n : t[i] = P[i]
    BY <1>1, <1>2, <1>5, AppendProperties
  <2>4. ASSUME NEW j \in 1..(n + 1)
        PROVE  r[j] = t[j]
    <3>1. CASE j = n + 1
      BY <2>2, <2>3, <3>1
    <3>2. CASE j # n + 1
      <4>1. j \in 1..n
        BY <1>2, <3>2
      <4> QED
        BY <1>3, <2>2, <2>3, <3>2, <4>1
    <3> QED
      BY <3>1, <3>2
  <2> QED
    BY <2>2, <2>3, <2>4, SeqEqual
<1>7. Cut(q, c, Space) = IF c = Space THEN Append(q, <<>>) ELSE r
  BY <1>1, <1>3, <1>4 DEF Cut
<1> QED
  BY <1>1, <1>5, <1>6, <1>7 DEF CutStep

CutsWord(P, a) == Fold("cut", Append(P, <<>>), a) = Append(P, a)

LEMMA WordIsCut ==
    ASSUME NEW C, Space \notin C, NEW P \in Seq(Seq(C))
    PROVE  \A a \in Seq(C) : CutsWord(P, a)
<1> DEFINE T == {a \in Seq(C) : CutsWord(P, a)}
<1>1. T \in SUBSET Seq(C)
  OBVIOUS
<1>2. <<>> \in T
  <2>1. Fold("cut", Append(P, <<>>), <<>>) = Append(P, <<>>)
    BY FoldEmpty
  <2>2. CutsWord(P, <<>>) /\ <<>> \in Seq(C)
    BY <2>1 DEF CutsWord
  <2> QED
    BY <2>2
<1>3. ASSUME NEW a \in T, NEW c \in C
      PROVE  Append(a, c) \in T
  <2>1. a \in Seq(C) /\ CutsWord(P, a) /\ c # Space /\ Append(a, c) \in Seq(C)
    OBVIOUS
  <2>2. FoldStep("cut", Append(P, <<>>), a, c)
    BY <2>1, FoldAppend
  <2>3. CutStep(P, a, c)
    BY <2>1, CutIs
  <2>4. CutsWord(P, Append(a, c))
    BY <2>1, <2>2, <2>3, StepIs DEF FoldStep, CutStep, CutsWord
  <2> QED
    BY <2>1, <2>4
<1> HIDE DEF T
<1>4. \A a \in Seq(C) : a \in T
  BY <1>1, <1>2, <1>3, ByAppending
<1> QED
  BY <1>4 DEF T

CutsLed(P) == Fold("cut", <<<<>>>>, Led(P)) = Append(P, <<>>)

LEMMA LedIsCut ==
    ASSUME NEW C, Space \notin C
    PROVE  \A P \in Seq(Seq(C)) : CutsLed(P)
<1> DEFINE T == {P \in Seq(Seq(C)) : CutsLed(P)}
<1>1. PICK R, D : R = Seq(C) /\ D = C \cup {Space}
  OBVIOUS
<1>2. T \in SUBSET Seq(R)
  BY <1>1
<1>3. <<>> \in T
  <2>1. Fold("cut", <<<<>>>>, <<>>) = <<<<>>>>
    BY FoldEmpty
  <2>2. Append(<<>>, <<>>) = <<<<>>>>
    OBVIOUS
  <2> QED
    BY <2>1, <2>2, LedEmpty DEF CutsLed
<1>4. ASSUME NEW P \in T, NEW w \in R
      PROVE  Append(P, w) \in T
  <2>1. P \in Seq(Seq(C)) /\ P \in Seq(R) /\ CutsLed(P) /\ w \in Seq(C) /\ Append(P, w) \in Seq(R)
    BY <1>1
  <2>2. w \in Seq(D) /\ P \in Seq(Seq(D)) /\ Space \in D
    <3>1. Seq(C) \subseteq Seq(D)
      BY <1>1
    <3>2. w \in Seq(D)
      BY <2>1, <3>1
    <3>3. P \in Seq(Seq(D))
      BY <1>1, <2>1, <3>1, SeqMonotonic
    <3> QED
      BY <1>1, <3>2, <3>3
  <2>3. Led(P) \in Seq(D)
    BY <2>2, LedText
  <2>4. PICK l : l = Led(P) \o w
    OBVIOUS
  <2>5. l \in Seq(D)
    BY <2>2, <2>3, <2>4
  <2>6. Fold("cut", <<<<>>>>, l) = Append(P, w)
    <3>3. FoldRest("cut", <<<<>>>>, Led(P), w)
      BY <2>2, <2>3, FoldConcat
    <3>1. Fold("cut", <<<<>>>>, l) = Fold("cut", Append(P, <<>>), w)
      BY <2>1, <2>4, <3>3, Zenon DEF CutsLed, FoldRest
    <3>2. CutsWord(P, w)
      BY <2>1, WordIsCut
    <3> QED
      BY <3>1, <3>2 DEF CutsWord
  <2>7. Led(Append(P, w)) = Append(l, Space)
    <3>1. LedStep(P, w)
      BY <2>1, LedAppend
    <3>2. Append(l, Space) = l \o <<Space>>
      BY <2>2, <2>5, AppendIsConcat
    <3> QED
      BY <2>4, <3>1, <3>2 DEF LedStep
  <2>8. FoldStep("cut", <<<<>>>>, l, Space)
    BY <2>2, <2>5, FoldAppend
  <2>9. CutStep(P, w, Space)
    BY <2>2, CutIs
  <2>10. CutsLed(Append(P, w))
    BY <2>6, <2>7, <2>8, <2>9, StepIs DEF FoldStep, CutStep, CutsLed
  <2> QED
    BY <1>1, <2>1, <2>10
<1>5. \A P \in Seq(R) : P \in T
  <2> HIDE DEF T
  <2> QED
    BY <1>2, <1>3, <1>4, ByAppending
<1> QED
  BY <1>1, <1>5

LEMMA SplitLed ==
    ASSUME NEW C, Space \notin C, NEW P \in Seq(Seq(C)), NEW a \in Seq(C)
    PROVE  Split(Led(P) \o a, Space) = Append(P, a)
<1>1. PICK D : D = C \cup {Space}
  OBVIOUS
<1>2. Seq(C) \subseteq Seq(D)
  BY <1>1
<1>3. a \in Seq(D) /\ P \in Seq(Seq(D))
  BY <1>2, SeqMonotonic
<1>4. Led(P) \in Seq(D)
  BY <1>1, <1>3, LedText
<1>5. Led(P) \o a \in Seq(D)
  BY <1>3, <1>4
<1>6. Split(Led(P) \o a, Space) = Fold("cut", Fold("cut", <<<<>>>>, Led(P)), a)
  <2>1. FoldRest("cut", <<<<>>>>, Led(P), a)
    BY <1>3, <1>4, FoldConcat
  <2>2. Split(Led(P) \o a, Space) = Fold("cut", <<<<>>>>, Led(P) \o a)
    BY <1>5, SplitIsFold
  <2> QED
    BY <2>1, <2>2, Zenon DEF FoldRest
<1>7. CutsLed(P) /\ CutsWord(P, a)
  BY LedIsCut, WordIsCut
<1> QED
  BY <1>6, <1>7 DEF CutsLed, CutsWord

\* The words of s.
SplitsInto(s, C, pieces) ==
    \E P \in Seq(Seq(C)), a \in Seq(C) : pieces = Append(P, a) /\ s = Led(P) \o a

LEMMA Splitting ==
    ASSUME NEW C, Space \notin C
    PROVE  \A s \in Seq(C \cup {Space}) : SplitsInto(s, C, Fold("cut", <<<<>>>>, s))
<1>1. PICK D : D = C \cup {Space}
  OBVIOUS
<1> DEFINE T == {s \in Seq(D) : SplitsInto(s, C, Fold("cut", <<<<>>>>, s))}
<1>2. T \in SUBSET Seq(D)
  OBVIOUS
<1>3. <<>> \in T
  <2>1. Fold("cut", <<<<>>>>, <<>>) = <<<<>>>>
    BY FoldEmpty
  <2>2. Append(<<>>, <<>>) = <<<<>>>> /\ <<>> \in Seq(Seq(C)) /\ <<>> \in Seq(C) /\ <<>> \in Seq(D)
    OBVIOUS
  <2>3. <<>> = Led(<<>>) \o <<>>
    BY LedEmpty
  <2>4. SplitsInto(<<>>, C, <<<<>>>>)
    BY <2>2, <2>3 DEF SplitsInto
  <2> QED
    BY <2>1, <2>2, <2>4
<1>4. ASSUME NEW s \in T, NEW c \in D
      PROVE  Append(s, c) \in T
  <2>1. s \in Seq(D) /\ SplitsInto(s, C, Fold("cut", <<<<>>>>, s)) /\ Append(s, c) \in Seq(D)
    OBVIOUS
  <2>2. PICK P \in Seq(Seq(C)), a \in Seq(C) : Fold("cut", <<<<>>>>, s) = Append(P, a) /\ s = Led(P) \o a
    BY <2>1 DEF SplitsInto
  <2>3. Seq(C) \subseteq Seq(D)
    BY <1>1
  <2>4. a \in Seq(D) /\ P \in Seq(Seq(D)) /\ Space \in D
    BY <1>1, <2>3, SeqMonotonic
  <2>5. Led(P) \in Seq(D)
    BY <2>4, LedText
  <2>6. Fold("cut", <<<<>>>>, Append(s, c)) = Cut(Append(P, a), c, Space)
    <3>1. FoldStep("cut", <<<<>>>>, s, c)
      BY <2>1, FoldAppend
    <3> QED
      BY <2>2, <3>1, StepIs DEF FoldStep
  <2>7. CutStep(P, a, c)
    BY <2>4, CutIs
  <2>8. CASE c = Space
    <3>1. PICK R, Q : R = Seq(C) /\ Q = Append(P, a)
      OBVIOUS
    <3>2. Q \in Seq(Seq(C)) /\ LedStep(P, a)
      BY <3>1, LedAppend, AppendProperties
    <3>3. Append(s, Space) = s \o <<Space>>
      BY <2>1, <2>4, AppendIsConcat
    <3>4. Append(s, c) = Led(Q)
      BY <2>2, <2>8, <3>1, <3>2, <3>3 DEF LedStep
    <3>5. Led(Q) \o <<>> = Led(Q)
      BY <2>1, <3>4, ConcatEmptySeq
    <3>6. Fold("cut", <<<<>>>>, Append(s, c)) = Append(Q, <<>>)
      BY <2>6, <2>7, <2>8, <3>1 DEF CutStep
    <3>7. <<>> \in Seq(C)
      OBVIOUS
    <3>8. SplitsInto(Append(s, c), C, Append(Q, <<>>))
      BY <3>2, <3>4, <3>5, <3>7 DEF SplitsInto
    <3> QED
      BY <2>1, <3>6, <3>8
  <2>9. CASE c # Space
    <3>1. PICK b : b = Append(a, c)
      OBVIOUS
    <3>2. b \in Seq(C) /\ c \in C
      BY <1>1, <2>9, <3>1
    <3>3. Append(s, c) = Led(P) \o b
      <4>1. Append(s, c) = (Led(P) \o a) \o <<c>>
        BY <2>1, <2>2, AppendIsConcat
      <4>2. b = a \o <<c>>
        BY <3>1, <3>2, AppendIsConcat
      <4>3. <<c>> \in Seq(D)
        OBVIOUS
      <4>4. (Led(P) \o a) \o <<c>> = Led(P) \o (a \o <<c>>)
        BY <2>4, <2>5, <4>3, ConcatAssociative, SMTT(30)
      <4> QED
        BY <4>1, <4>2, <4>4
    <3>4. Fold("cut", <<<<>>>>, Append(s, c)) = Append(P, b)
      BY <2>6, <2>7, <2>9, <3>1 DEF CutStep
    <3>5. SplitsInto(Append(s, c), C, Append(P, b))
      BY <3>2, <3>3 DEF SplitsInto
    <3> QED
      BY <2>1, <3>4, <3>5
  <2> QED
    BY <2>8, <2>9
<1> HIDE DEF T
<1>5. \A s \in Seq(D) : s \in T
  BY <1>2, <1>3, <1>4, ByAppending
<1> QED
  BY <1>1, <1>5 DEF T

LEMMA SplitIs ==
    ASSUME NEW C, Space \notin C, NEW s \in Seq(C \cup {Space})
    PROVE  SplitsInto(s, C, Split(s, Space))
<1>1. SplitsInto(s, C, Fold("cut", <<<<>>>>, s))
  BY Splitting
<1> QED
  BY <1>1, SplitIsFold

Regroups(s, t, u) == (s \o t) \o u = s \o (t \o u)

LEMMA Regroup ==
    ASSUME NEW C, NEW s \in Seq(C), NEW t \in Seq(C), NEW u \in Seq(C)
    PROVE  Regroups(s, t, u)
BY ConcatAssociative DEF Regroups

LedBoth(P, Q) == Led(P \o Q) = Led(P) \o Led(Q)

LEMMA LedConcat ==
    ASSUME NEW C, Space \in C, NEW P \in Seq(Seq(C))
    PROVE  \A Q \in Seq(Seq(C)) : LedBoth(P, Q)
<1> DEFINE T == {Q \in Seq(Seq(C)) : LedBoth(P, Q)}
<1>1. PICK R : R = Seq(C)
  OBVIOUS
<1>2. T \in SUBSET Seq(R)
  BY <1>1
<1>3. <<>> \in T
  <2>1. <<>> \in Seq(Seq(C)) /\ Led(P) \in Seq(C)
    BY LedText
  <2>2. P \o <<>> = P /\ Led(P) \o <<>> = Led(P)
    <3>1. P \o <<>> = P
      BY <1>1, ConcatEmptySeq
    <3>2. Led(P) \o <<>> = Led(P)
      BY <2>1, ConcatEmptySeq
    <3> QED
      BY <3>1, <3>2
  <2>3. LedBoth(P, <<>>)
    BY <2>2, LedEmpty, Zenon DEF LedBoth
  <2> QED
    BY <2>1, <2>3
<1>4. ASSUME NEW Q \in T, NEW w \in R
      PROVE  Append(Q, w) \in T
  <2>1. P \in Seq(R) /\ Q \in Seq(R) /\ LedBoth(P, Q) /\ w \in Seq(C) /\ Append(Q, w) \in Seq(R)
    BY <1>1
  <2>2. Led(P) \in Seq(C) /\ Led(Q) \in Seq(C) /\ <<Space>> \in Seq(C)
    BY <1>1, <2>1, LedText
  <2>3. P \o Append(Q, w) = Append(P \o Q, w)
    <3>1. Append(Q, w) = Q \o <<w>> /\ <<w>> \in Seq(R)
      BY <2>1, AppendIsConcat
    <3>2. P \o Q \in Seq(R)
      BY <2>1
    <3>3. Append(P \o Q, w) = (P \o Q) \o <<w>>
      BY <3>2, AppendIsConcat
    <3>4. (P \o Q) \o <<w>> = P \o (Q \o <<w>>)
      BY <2>1, <3>1, ConcatAssociative, SMTT(30)
    <3> QED
      BY <3>1, <3>3, <3>4
  <2>4. LedStep(P \o Q, w) /\ LedStep(Q, w)
    <3>1. P \o Q \in Seq(R)
      BY <2>1
    <3> QED
      BY <2>1, <3>1, LedAppend
  <2>5. ((Led(P) \o Led(Q)) \o w) \o <<Space>> = Led(P) \o ((Led(Q) \o w) \o <<Space>>)
    <3>1. (Led(P) \o Led(Q)) \o w = Led(P) \o (Led(Q) \o w)
      BY <2>1, <2>2, ConcatAssociative
    <3>2. PICK x : x = Led(Q) \o w
      OBVIOUS
    <3>3. x \in Seq(C)
      BY <2>1, <2>2, <3>2
    <3>4. Regroups(Led(P), x, <<Space>>)
      BY <2>2, <3>3, Regroup
    <3> QED
      BY <3>1, <3>2, <3>4, Zenon DEF Regroups
  <2>6. LedBoth(P, Append(Q, w))
    BY <2>1, <2>3, <2>4, <2>5, Zenon DEF LedStep, LedBoth
  <2> QED
    BY <1>1, <2>1, <2>6
<1>5. \A Q \in Seq(R) : Q \in T
  <2> HIDE DEF T
  <2> QED
    BY <1>2, <1>3, <1>4, ByAppending
<1> QED
  BY <1>1, <1>5

LEMMA LedOne ==
    ASSUME NEW C, Space \in C, NEW w \in Seq(C)
    PROVE  Led(<<w>>) = w \o <<Space>>
<1>1. PICK R : R = Seq(C)
  OBVIOUS
<1>2. <<>> \in Seq(R) /\ w \in R /\ Append(<<>>, w) = <<w>>
  BY <1>1
<1>3. LedStep(<<>>, w)
  BY <1>2, LedAppend
<1>4. <<>> \o w = w
  BY ConcatEmptySeq
<1> QED
  BY <1>2, <1>3, <1>4, LedEmpty DEF LedStep

FlatStep(P, w) == Fold("flat", <<>>, Append(P, w)) = Fold("flat", <<>>, P) \o w

LEMMA FlatAppend ==
    ASSUME NEW S, NEW P \in Seq(S), NEW w \in S
    PROVE  FlatStep(P, w)
<1>1. FoldStep("flat", <<>>, P, w)
  BY FoldAppend
<1> QED
  BY <1>1, StepIs DEF FoldStep, FlatStep

LengthsAdd(P, C) ==
    /\ Fold("flat", <<>>, P) \in Seq(C)
    /\ Len(Led(P)) = Len(Fold("flat", <<>>, P)) + Len(P)

LEMMA LengthsAre ==
    ASSUME NEW C, Space \in C
    PROVE  \A P \in Seq(Seq(C)) : LengthsAdd(P, C)
<1> DEFINE T == {P \in Seq(Seq(C)) : LengthsAdd(P, C)}
<1>1. PICK R : R = Seq(C)
  OBVIOUS
<1>2. T \in SUBSET Seq(R)
  BY <1>1
<1>3. <<>> \in T
  <2>1. Fold("flat", <<>>, <<>>) = <<>>
    BY FoldEmpty
  <2>2. <<>> \in Seq(Seq(C)) /\ <<>> \in Seq(C) /\ Len(<<>>) = 0
    OBVIOUS
  <2>3. LengthsAdd(<<>>, C)
    <3>1. Len(Led(<<>>)) = Len(Fold("flat", <<>>, <<>>)) + Len(<<>>)
      <4>1. 0 = 0 + 0
        OBVIOUS
      <4> QED
        BY <2>1, <2>2, <4>1, LedEmpty, Zenon
    <3> QED
      BY <2>1, <2>2, <3>1, Zenon DEF LengthsAdd
  <2> QED
    BY <2>2, <2>3
<1>4. ASSUME NEW P \in T, NEW w \in R
      PROVE  Append(P, w) \in T
  <2>1. P \in Seq(R) /\ LengthsAdd(P, C) /\ w \in Seq(C)
    BY <1>1
  <2>2. Append(P, w) \in Seq(R) /\ Len(Append(P, w)) = Len(P) + 1 /\ Len(P) \in Nat
    BY <2>1, AppendProperties
  <2>3. LedStep(P, w) /\ FlatStep(P, w)
    BY <2>1, LedAppend, FlatAppend
  <2>4. PICK l, f : l = Led(P) /\ f = Fold("flat", <<>>, P)
    OBVIOUS
  <2>5. l \in Seq(C) /\ f \in Seq(C) /\ Len(l) = Len(f) + Len(P)
    BY <1>1, <2>1, <2>4, LedText DEF LengthsAdd
  <2>6. f \o w \in Seq(C) /\ Len(f \o w) = Len(f) + Len(w)
    BY <2>1, <2>5, ConcatProperties
  <2>7. PICK lw : lw = l \o w
    OBVIOUS
  <2>8. lw \in Seq(C) /\ Len(lw) = Len(l) + Len(w)
    BY <2>1, <2>5, <2>7, ConcatProperties
  <2>9. Len(lw \o <<Space>>) = Len(lw) + 1
    <3>1. <<Space>> \in Seq(C) /\ Len(<<Space>>) = 1
      OBVIOUS
    <3> QED
      BY <2>8, <3>1, ConcatProperties
  <2>10. Len(l) + Len(w) + 1 = Len(f) + Len(w) + (Len(P) + 1)
    BY <2>1, <2>2, <2>5
  <2>11. LengthsAdd(Append(P, w), C)
    BY <2>2, <2>3, <2>4, <2>6, <2>7, <2>8, <2>9, <2>10 DEF LedStep, FlatStep, LengthsAdd
  <2> QED
    BY <1>1, <2>2, <2>11
<1>5. \A P \in Seq(R) : P \in T
  <2> HIDE DEF T
  <2> QED
    BY <1>2, <1>3, <1>4, ByAppending
<1> QED
  BY <1>1, <1>5

\* Arguments as Bytes writes them, each after a space.
Spaced(args) == [i \in 1..Len(args) |-> <<Space>> \o args[i]]

LEMMA SpacedAppend ==
    ASSUME NEW C, Space \in C, NEW args \in Seq(Seq(C)), NEW w \in Seq(C)
    PROVE  /\ Spaced(args) \in Seq(Seq(C))
           /\ Spaced(Append(args, w)) = Append(Spaced(args), <<Space>> \o w)
<1>1. PICK R, n, sw : R = Seq(C) /\ n = Len(args) /\ sw = <<Space>> \o w
  OBVIOUS
<1>2. args \in Seq(R) /\ w \in R /\ n \in Nat /\ <<Space>> \in Seq(C) /\ sw \in R
  BY <1>1
<1>3. PICK b : b = Append(args, w)
  OBVIOUS
<1>4. b \in Seq(R) /\ Len(b) = n + 1 /\ b[n + 1] = w /\ \A i \in 1..n : b[i] = args[i]
  BY <1>1, <1>2, <1>3, AppendProperties
<1>5. \A x \in R : <<Space>> \o x \in R
  BY <1>1, <1>2
<1>6. \A i \in 1..n : args[i] \in R
  BY <1>1, <1>2
<1>7. PICK f, g : f = Spaced(args) /\ g = Spaced(b)
  OBVIOUS
<1>8. f \in Seq(R) /\ Len(f) = n /\ \A i \in 1..n : f[i] = <<Space>> \o args[i]
  BY <1>1, <1>2, <1>5, <1>6, <1>7 DEF Spaced
<1>9. g \in Seq(R) /\ Len(g) = n + 1 /\ \A i \in 1..(n + 1) : g[i] = <<Space>> \o b[i]
  <2>1. \A i \in 1..(n + 1) : b[i] \in R
    BY <1>4
  <2>2. PICK m : m = n + 1
    OBVIOUS
  <2>3. m \in Nat /\ Len(b) = m /\ \A i \in 1..m : b[i] \in R
    BY <1>2, <1>4, <2>1, <2>2
  <2>4. g = [i \in 1..m |-> <<Space>> \o b[i]]
    BY <1>7, <2>3 DEF Spaced
  <2>5. \A i \in 1..m : <<Space>> \o b[i] \in R
    BY <1>5, <2>3
  <2>6. g \in Seq(R) /\ Len(g) = m /\ \A i \in 1..m : g[i] = <<Space>> \o b[i]
    <3>1. \A i \in 1..m : g[i] = <<Space>> \o b[i]
      BY <2>4
    <3>2. g = [i \in 1..m |-> g[i]] /\ \A i \in 1..m : g[i] \in R
      BY <2>4, <2>5, <3>1
    <3>3. g \in [1..m -> R]
      BY <3>2
    <3>4. g \in Seq(R) /\ Len(g) = m
      BY <2>3, <3>3
    <3> QED
      BY <3>1, <3>4
  <2> QED
    BY <2>2, <2>6
<1>10. PICK h : h = Append(f, sw)
  OBVIOUS
<1>11. h \in Seq(R) /\ Len(h) = n + 1 /\ h[n + 1] = sw /\ \A i \in 1..n : h[i] = f[i]
  <2>1. sw \in R /\ n \in Nat /\ f \in Seq(R) /\ Len(f) = n
    BY <1>2, <1>8
  <2> QED
    BY <1>10, <2>1, AppendProperties
<1>12. ASSUME NEW i \in 1..(n + 1)
       PROVE  g[i] = h[i]
  <2>1. CASE i = n + 1
    BY <1>1, <1>4, <1>9, <1>11, <2>1
  <2>2. CASE i # n + 1
    <3>1. i \in 1..n
      BY <1>2, <2>2
    <3> QED
      BY <1>4, <1>8, <1>9, <1>11, <3>1
  <2> QED
    BY <2>1, <2>2
<1>13. g = h
  BY <1>9, <1>11, <1>12, SeqEqual
<1> QED
  BY <1>1, <1>3, <1>7, <1>8, <1>10, <1>13

SpacedLed(c, args, C) ==
    /\ Fold("flat", <<>>, Spaced(args)) \in Seq(C)
    /\ (c \o Fold("flat", <<>>, Spaced(args))) \o <<Space>> = Led(<<c>> \o args)

LEMMA SpacedIsLed ==
    ASSUME NEW C, Space \in C, NEW c \in Seq(C)
    PROVE  \A args \in Seq(Seq(C)) : SpacedLed(c, args, C)
<1> DEFINE T == {args \in Seq(Seq(C)) : SpacedLed(c, args, C)}
<1>1. PICK R, sp : R = Seq(C) /\ sp = <<Space>>
  OBVIOUS
<1>2. T \in SUBSET Seq(R) /\ sp \in Seq(C)
  BY <1>1
<1>3. <<>> \in T
  <2>1. Spaced(<<>>) = <<>>
    BY DEF Spaced
  <2>2. Fold("flat", <<>>, <<>>) = <<>>
    BY FoldEmpty
  <2>3. <<>> \in Seq(Seq(C)) /\ <<>> \in Seq(C) /\ c \o <<>> = c
    BY ConcatEmptySeq
  <2>4. <<c>> \o <<>> = <<c>>
    <3>1. <<c>> \in Seq(R)
      BY <1>1
    <3> QED
      BY <3>1, ConcatEmptySeq
  <2>5. Led(<<c>>) = c \o <<Space>>
    BY LedOne
  <2>6. SpacedLed(c, <<>>, C)
    BY <2>1, <2>2, <2>3, <2>4, <2>5, Zenon DEF SpacedLed
  <2> QED
    BY <2>3, <2>6
<1>4. ASSUME NEW args \in T, NEW w \in R
      PROVE  Append(args, w) \in T
  <2>1. args \in Seq(R) /\ SpacedLed(c, args, C) /\ w \in Seq(C) /\ c \in R /\ <<c>> \in Seq(R)
    BY <1>1
  <2>2. PICK f, b, sw : f = Fold("flat", <<>>, Spaced(args)) /\ b = Append(args, w) /\ sw = sp \o w
    OBVIOUS
  <2>3. f \in Seq(C) /\ (c \o f) \o sp = Led(<<c>> \o args)
    BY <1>1, <2>1, <2>2 DEF SpacedLed
  <2>4. sw \in Seq(C) /\ b \in Seq(R)
    BY <1>2, <2>1, <2>2
  <2>5. Fold("flat", <<>>, Spaced(b)) = f \o sw
    <3>1. Spaced(args) \in Seq(R) /\ Spaced(b) = Append(Spaced(args), sw)
      BY <1>1, <2>1, <2>2, SpacedAppend
    <3>2. FlatStep(Spaced(args), sw)
      BY <1>1, <2>4, <3>1, FlatAppend
    <3> QED
      BY <2>2, <3>1, <3>2 DEF FlatStep
  <2>6. f \o sw \in Seq(C)
    BY <2>3, <2>4
  <2>7. c \o (f \o sw) = ((c \o f) \o sp) \o w
    <3>1. (f \o sp) \o w = f \o (sp \o w)
      BY <1>2, <2>1, <2>3, ConcatAssociative, SMTT(30)
    <3>2. PICK fs : fs = f \o sp
      OBVIOUS
    <3>3. fs \in Seq(C)
      BY <1>2, <2>3, <3>2
    <3>4. (c \o fs) \o w = c \o (fs \o w)
      BY <2>1, <3>3, ConcatAssociative
    <3>5. Regroups(c, f, sp)
      BY <1>2, <2>3, Regroup
    <3> QED
      BY <2>2, <3>1, <3>2, <3>4, <3>5, Zenon DEF Regroups
  <2>8. <<c>> \o b = Append(<<c>> \o args, w)
    <3>1. PICK ca : ca = <<c>> \o args
      OBVIOUS
    <3>2. ca \in Seq(R)
      BY <2>1, <3>1
    <3>3. Append(ca, w) = ca \o <<w>> /\ <<w>> \in Seq(R) /\ b = args \o <<w>>
      BY <1>1, <2>1, <2>2, <3>2, AppendIsConcat
    <3>4. (<<c>> \o args) \o <<w>> = <<c>> \o (args \o <<w>>)
      BY <2>1, <3>3, ConcatAssociative
    <3> QED
      BY <3>1, <3>3, <3>4
  <2>9. LedStep(<<c>> \o args, w)
    <3>1. <<c>> \o args \in Seq(R)
      BY <2>1
    <3> QED
      BY <1>1, <2>1, <3>1, LedAppend
  <2>10. SpacedLed(c, b, C)
    BY <1>1, <2>3, <2>5, <2>6, <2>7, <2>8, <2>9, Zenon DEF LedStep, SpacedLed
  <2> QED
    BY <1>1, <2>2, <2>4, <2>10
<1>5. \A args \in Seq(R) : args \in T
  <2> HIDE DEF T
  <2> QED
    BY <1>2, <1>3, <1>4, ByAppending
<1> QED
  BY <1>1, <1>5

-----------------------------------------------------------------------------
(* What Rest makes of words. *)

Plain == Code \ {Space, Colon}
Word == Seq(Plain)
Spoken == Code \ {Space}     \* the characters of what stands between spaces

LEMMA Alphabets ==
    /\ Space \in Code /\ Colon \in Code /\ Colon \in Spoken
    /\ Space \notin Spoken /\ Space \notin Plain /\ Colon \notin Plain
    /\ Spoken \cup {Space} = Code /\ Plain \subseteq Spoken /\ Plain \subseteq Code /\ Spoken \subseteq Code
BY DEF Code, Plain, Spoken, Space, Colon

LEMMA Widen ==
    ASSUME NEW C, NEW D, C \subseteq D
    PROVE  /\ \A s \in Seq(C) : s \in Seq(D)
           /\ \A P \in Seq(Seq(C)) : P \in Seq(Seq(D))
<1>1. \A s \in Seq(C) : s \in Seq(D)
  BY SeqMonotonic
<1>2. PICK A, B : A = Seq(C) /\ B = Seq(D)
  OBVIOUS
<1>3. A \subseteq B
  BY <1>1, <1>2
<1>4. \A P \in Seq(A) : P \in Seq(B)
  BY <1>3, SeqMonotonic
<1> QED
  BY <1>1, <1>2, <1>4

Ends(x, y) ==
    /\ x # <<>> => x \o y # <<>> /\ (x \o y)[1] = x[1]
    /\ y # <<>> => x \o y # <<>> /\ (x \o y)[Len(x \o y)] = y[Len(y)]

LEMMA ConcatEnds ==
    ASSUME NEW S, NEW x \in Seq(S), NEW y \in Seq(S)
    PROVE  Ends(x, y)
<1>1. PICK z, n, k : z = x \o y /\ n = Len(x) /\ k = Len(y)
  OBVIOUS
<1>2. /\ z \in Seq(S) /\ Len(z) = n + k /\ n \in Nat /\ k \in Nat
      /\ \A i \in 1..(n + k) : z[i] = IF i <= n THEN x[i] ELSE y[i - n]
  BY <1>1, ConcatProperties
<1>3. Len(<<>>) = 0
  OBVIOUS
<1>4. ASSUME x # <<>>
      PROVE  z # <<>> /\ z[1] = x[1]
  <2>1. n # 0
    BY <1>1, <1>4, EmptySeq
  <2>2. 1 \in 1..(n + k) /\ 1 <= n /\ n + k # 0
    BY <1>2, <2>1
  <2>3. z[1] = x[1]
    BY <1>2, <2>2
  <2> QED
    BY <1>2, <1>3, <2>2, <2>3
<1>5. ASSUME y # <<>>
      PROVE  z # <<>> /\ z[Len(z)] = y[k]
  <2>1. k # 0
    BY <1>1, <1>5, EmptySeq
  <2>2. PICK m : m = n + k
    OBVIOUS
  <2>3. m \in 1..(n + k) /\ ~(m <= n) /\ m - n = k /\ m # 0
    BY <1>2, <2>1, <2>2
  <2>4. z[m] = y[m - n]
    BY <1>2, <2>3
  <2> QED
    BY <1>2, <1>3, <2>2, <2>3, <2>4
<1> QED
  BY <1>1, <1>4, <1>5 DEF Ends

FirstOfWord(w) == IF w = <<>> THEN Space ELSE w[1]

LEMMA LedEnds ==
    ASSUME NEW C, Space \in C, NEW P \in Seq(Seq(C)), P # <<>>
    PROVE  /\ Led(P) \in Seq(C) /\ Led(P) # <<>> /\ Led(P)[Len(Led(P))] = Space
           /\ Led(P)[1] = FirstOfWord(P[1])
<1>1. PICK R, sp : R = Seq(C) /\ sp = <<Space>>
  OBVIOUS
<1>2. P \in Seq(R) /\ sp \in Seq(C) /\ sp # <<>> /\ sp[1] = Space /\ sp[Len(sp)] = Space
  BY <1>1
<1>3. Led(P) # <<>> /\ Led(P)[Len(Led(P))] = Space
  <2>1. PICK Q \in Seq(R), w \in R : P = Append(Q, w)
    BY <1>2, SequenceEmptyOrAppend
  <2>2. LedStep(Q, w)
    BY <2>1, LedAppend
  <2>3. PICK l : l = Led(Q) \o w
    OBVIOUS
  <2>4. l \in Seq(C)
    <3>1. Led(Q) \in Seq(C)
      BY <1>1, <2>1, LedText
    <3> QED
      BY <1>1, <2>1, <2>3, <3>1
  <2>5. Ends(l, sp)
    BY <1>2, <2>4, ConcatEnds
  <2>6. Led(P) = l \o sp
    BY <1>1, <2>1, <2>2, <2>3 DEF LedStep
  <2> QED
    BY <1>2, <2>5, <2>6, Zenon DEF Ends
<1>4. Led(P)[1] = FirstOfWord(P[1])
  <2>1. PICK n : n = Len(P)
    OBVIOUS
  <2>2. n \in Nat /\ n # 0
    BY <1>2, <2>1, EmptySeq
  <2>3. PICK w, Q : w = P[1] /\ Q = SubSeq(P, 2, n)
    OBVIOUS
  <2>4. P = <<w>> \o Q
    <3>1. 1 \in 1..Len(P) /\ n \in 1..Len(P) /\ 1 + 1 = 2
      BY <2>1, <2>2
    <3>2. SubSeq(P, 1, n) = <<P[1]>> \o SubSeq(P, 1 + 1, n)
      BY <1>2, <3>1, SubSeqRecursiveFirst
    <3>3. SubSeq(P, 1, n) = P
      BY <1>2, <2>1, SubSeqFull
    <3> QED
      BY <2>3, <3>1, <3>2, <3>3
  <2>5. w \in Seq(C) /\ Q \in Seq(R) /\ <<w>> \in Seq(R)
    <3>1. w \in R
      BY <1>2, <2>1, <2>2, <2>3
    <3>2. \A i \in 2..n : P[i] \in R
      BY <1>2, <2>1, <2>2
    <3>3. Q \in Seq(R)
      BY <2>2, <2>3, <3>2, SubSeqProperties
    <3> QED
      BY <1>1, <3>1, <3>3
  <2>6. PICK l : l = w \o sp
    OBVIOUS
  <2>7. l \in Seq(C) /\ l # <<>> /\ l[1] = FirstOfWord(w)
    <3>1. Ends(w, sp)
      BY <1>2, <2>5, ConcatEnds
    <3>2. l \in Seq(C)
      BY <1>2, <2>5, <2>6
    <3>3. CASE w = <<>>
      <4>1. l = sp
        BY <1>2, <2>6, <3>3, ConcatEmptySeq
      <4> QED
        BY <1>2, <3>2, <3>3, <4>1 DEF FirstOfWord
    <3>4. CASE w # <<>>
      BY <2>6, <3>1, <3>2, <3>4 DEF Ends, FirstOfWord
    <3> QED
      BY <3>3, <3>4
  <2>8. Led(P) = l \o Led(Q)
    <3>1. <<w>> \in Seq(Seq(C)) /\ Q \in Seq(Seq(C))
      BY <1>1, <2>5
    <3>2. LedBoth(<<w>>, Q)
      BY <3>1, LedConcat
    <3>3. Led(<<w>>) = l
      BY <1>1, <2>5, <2>6, LedOne
    <3> QED
      BY <2>4, <3>2, <3>3, Zenon DEF LedBoth
  <2>9. Ends(l, Led(Q))
    <3>1. Led(Q) \in Seq(C)
      BY <1>1, <2>5, LedText
    <3> QED
      BY <2>7, <3>1, ConcatEnds
  <2> QED
    BY <2>3, <2>7, <2>8, <2>9, Zenon DEF Ends
<1>5. Led(P) \in Seq(C)
  BY LedText
<1> QED
  BY <1>3, <1>4, <1>5

\* The line of the words P, a.
LineOf(P, a) == Led(P) \o a

LineEnds(P, a) ==
    /\ LineOf(P, a) \in Text
    /\ Trimmed(LineOf(P, a)) <=> a # <<>> /\ Append(P, a)[1] # <<>>
    /\ a # <<>> /\ Append(P, a)[1] # <<>> => LineOf(P, a)[1] = Append(P, a)[1][1]

LEMMA LineIs ==
    ASSUME NEW P \in Seq(Seq(Spoken)), NEW a \in Seq(Spoken)
    PROVE  LineEnds(P, a)
<1>1. P \in Seq(Seq(Code)) /\ a \in Seq(Code) /\ Space \in Code
  BY Alphabets, Widen
<1>2. PICK l : l = LineOf(P, a)
  OBVIOUS
<1>3. Led(P) \in Seq(Code)
  BY <1>1, LedText
<1>4. l \in Seq(Code)
  BY <1>1, <1>2, <1>3 DEF LineOf
<1>5. Ends(Led(P), a)
  BY <1>1, <1>3, ConcatEnds
<1>6. ASSUME NEW w \in Seq(Spoken), w # <<>>
      PROVE  w[1] # Space /\ w[Len(w)] # Space
  <2>1. Len(w) \in Nat /\ Len(w) # 0
    BY <1>6, EmptySeq
  <2>2. w[1] \in Spoken /\ w[Len(w)] \in Spoken
    BY <2>1
  <2> QED
    BY <2>2, Alphabets
<1>7. CASE P = <<>>
  <2>1. l = a
    <3>1. <<>> \o a = a
      BY <1>1, ConcatEmptySeq
    <3> QED
      BY <1>2, <1>7, <3>1, LedEmpty, Zenon DEF LineOf
  <2>2. Append(P, a) = <<a>> /\ Append(P, a)[1] = a
    BY <1>7
  <2> QED
    BY <1>2, <1>4, <1>6, <2>1, <2>2 DEF LineEnds, Trimmed, Text
<1>8. CASE P # <<>>
  <2>1. Led(P) # <<>> /\ Led(P)[Len(Led(P))] = Space /\ Led(P)[1] = FirstOfWord(P[1])
    BY <1>1, <1>8, LedEnds
  <2>2. l # <<>> /\ l[1] = FirstOfWord(P[1])
    BY <1>2, <1>5, <2>1, Zenon DEF Ends, LineOf
  <2>3. Append(P, a)[1] = P[1] /\ P[1] \in Seq(Spoken)
    <3>1. PICK R : R = Seq(Spoken)
      OBVIOUS
    <3>2. P \in Seq(R) /\ a \in R /\ Len(P) \in Nat /\ Len(P) # 0
      BY <1>8, <3>1, EmptySeq
    <3>3. 1 \in 1..Len(P)
      BY <3>2
    <3>4. Append(P, a)[1] = P[1]
      BY <3>2, <3>3, AppendProperties
    <3> QED
      BY <3>1, <3>2, <3>3, <3>4
  <2>4. l[1] # Space <=> P[1] # <<>>
    BY <1>6, <2>2, <2>3 DEF FirstOfWord
  <2>5. CASE a = <<>>
    <3>1. l = Led(P)
      BY <1>2, <1>3, <2>5, ConcatEmptySeq DEF LineOf
    <3> QED
      BY <1>2, <1>4, <2>1, <2>5, <3>1 DEF LineEnds, Trimmed, Text
  <2>6. CASE a # <<>>
    <3>1. l[Len(l)] = a[Len(a)]
      BY <1>2, <1>5, <2>6, Zenon DEF Ends, LineOf
    <3>2. l[Len(l)] # Space
      BY <1>6, <2>6, <3>1
    <3>3. P[1] # <<>> => l[1] = P[1][1]
      BY <2>2 DEF FirstOfWord
    <3> QED
      BY <1>2, <1>4, <2>2, <2>3, <2>4, <2>6, <3>2, <3>3 DEF LineEnds, Trimmed, Text
  <2> QED
    BY <2>5, <2>6
<1> QED
  BY <1>7, <1>8

\* The message of the words W, and of the text after the first colon if there is one.
Understood(p, W, tr) == [prefix |-> p, command |-> ToUpper(W[1]), args |-> Tail(W) \o tr, ok |-> TRUE]

LEMMA Pair ==
    ASSUME NEW x, NEW y
    PROVE  <<x>> \o <<y>> = <<x, y>>
<1>1. PICK S : S = {x, y}
  OBVIOUS
<1>2. PICK p, q : p = <<x>> /\ q = <<y>>
  OBVIOUS
<1>3. p \in Seq(S) /\ q \in Seq(S) /\ Len(p) = 1 /\ Len(q) = 1 /\ p[1] = x /\ q[1] = y
  BY <1>1, <1>2
<1>4. PICK r, t : r = p \o q /\ t = <<x, y>>
  OBVIOUS
<1>5. r \in Seq(S) /\ Len(r) = 2 /\ r[1] = x /\ r[2] = y
  BY <1>3, <1>4, SMTT(30)
<1>6. t \in Seq(S) /\ Len(t) = 2 /\ t[1] = x /\ t[2] = y
  BY <1>1, <1>4
<1>7. \A i \in 1..2 : i = 1 \/ i = 2
  OBVIOUS
<1>8. r = t
  BY <1>5, <1>6, <1>7, SeqEqual
<1> QED
  BY <1>2, <1>4, <1>8

LEMMA PlainLine ==
    ASSUME NEW s \in Text
    PROVE  Without(s, Colon) <=> s \in Seq(Plain \cup {Space})
<1>1. PICK C, D, n : C = Code /\ D = Plain \cup {Space} /\ n = Len(s)
  OBVIOUS
<1>2. s \in Seq(C) /\ n \in Nat
  BY <1>1 DEF Text
<1>3. \A c \in C : c \in D <=> c # Colon
  BY <1>1, Alphabets DEF Plain
<1>4. ASSUME Without(s, Colon)
      PROVE  s \in Seq(D)
  <2>1. \A i \in 1..n : s[i] \in D
    BY <1>1, <1>2, <1>3, <1>4 DEF Without
  <2>2. s \in [1..n -> C]
    BY <1>1, <1>2, LenProperties
  <2>3. s \in [1..n -> D]
    BY <2>1, <2>2
  <2> QED
    BY <1>2, <2>3
<1>5. ASSUME s \in Seq(D)
      PROVE  Without(s, Colon)
  <2>1. \A i \in 1..n : s[i] \in D /\ s[i] \in C
    BY <1>1, <1>2, <1>5
  <2> QED
    BY <1>1, <1>3, <2>1 DEF Without
<1> QED
  BY <1>1, <1>4, <1>5

LEMMA WordsAreSpoken ==
    ASSUME NEW P \in Seq(Word), NEW a \in Word
    PROVE  /\ P \in Seq(Seq(Plain)) /\ a \in Seq(Plain)
           /\ P \in Seq(Seq(Spoken)) /\ a \in Seq(Spoken)
BY Alphabets, Widen DEF Word

\* A line of words holds no colon, and is split into its words.
LEMMA LineOfWords ==
    ASSUME NEW P \in Seq(Word), NEW a \in Word
    PROVE  /\ LineOf(P, a) \in Text
           /\ Without(LineOf(P, a), Colon)
           /\ Split(LineOf(P, a), Space) = Append(P, a)
<1>1. PICK D : D = Plain \cup {Space}
  OBVIOUS
<1>2. P \in Seq(Seq(Plain)) /\ a \in Seq(Plain) /\ Plain \subseteq D /\ D \subseteq Code /\ Space \in D
  BY <1>1, WordsAreSpoken, Alphabets
<1>3. P \in Seq(Seq(D)) /\ a \in Seq(D)
  BY <1>2, Widen
<1>4. Led(P) \in Seq(D)
  BY <1>2, <1>3, LedText
<1>5. LineOf(P, a) \in Seq(D)
  BY <1>3, <1>4 DEF LineOf
<1>6. LineOf(P, a) \in Text
  BY <1>2, <1>5, SeqMonotonic DEF Text
<1>7. Split(LineOf(P, a), Space) = Append(P, a)
  BY <1>2, SplitLed, Alphabets DEF LineOf
<1> QED
  BY <1>1, <1>5, <1>6, <1>7, PlainLine

LEMMA RestPlain ==
    ASSUME NEW p, NEW P \in Seq(Word), NEW a \in Word, a # <<>>, Append(P, a)[1] # <<>>
    PROVE  Rest(p, LineOf(P, a)) = Understood(p, Append(P, a), <<>>)
<1>1. PICK s, W : s = LineOf(P, a) /\ W = Append(P, a)
  OBVIOUS
<1>2. s \in Text /\ Without(s, Colon) /\ Split(s, Space) = W
  BY <1>1, LineOfWords
<1>3. Trimmed(s)
  <2>1. LineEnds(P, a)
    BY WordsAreSpoken, LineIs
  <2> QED
    BY <1>1, <2>1 DEF LineEnds
<1>4. TrimSpace(s) = s /\ SplitOnce(s, Colon) = <<s>>
  BY <1>2, <1>3, TrimNothing, SplitOnceNowhere
<1>5. <<s>>[1] = s /\ Tail(<<s>>) = <<>>
  OBVIOUS
<1> QED
  BY <1>1, <1>2, <1>4, <1>5 DEF Rest, Understood

LEMMA RestMarked ==
    ASSUME NEW p, NEW P \in Seq(Word), NEW a \in Word, a # <<>>, Append(P, a)[1] # <<>>, NEW b \in Text
    PROVE  Rest(p, (LineOf(P, a) \o <<Space>>) \o (<<Colon>> \o b)) = Understood(p, Append(P, a), <<b>>)
<1>1. PICK s, W, h, l :
         s = LineOf(P, a) /\ W = Append(P, a) /\ h = s \o <<Space>> /\ l = h \o (<<Colon>> \o b)
  OBVIOUS
<1>2. s \in Text /\ Without(s, Colon) /\ Split(s, Space) = W
  BY <1>1, LineOfWords
<1>3. Trimmed(s)
  <2>1. LineEnds(P, a)
    BY WordsAreSpoken, LineIs
  <2> QED
    BY <1>1, <2>1 DEF LineEnds
<1>4. TrimSpace(h) = s
  BY <1>1, <1>2, <1>3, TrimSpaceBehind
<1>5. h \in Text /\ Without(h, Colon)
  <2>1. PICK D : D = Plain \cup {Space}
    OBVIOUS
  <2>2. s \in Seq(D) /\ <<Space>> \in Seq(D)
    BY <1>2, <2>1, PlainLine
  <2>3. h \in Seq(D)
    BY <1>1, <2>2
  <2>4. h \in Text
    <3>1. D \subseteq Code
      BY <2>1, Alphabets
    <3> QED
      BY <2>3, <3>1, SeqMonotonic DEF Text
  <2> QED
    BY <2>1, <2>3, <2>4, PlainLine
<1>6. SplitOnce(l, Colon) = <<h, b>>
  <2>1. Between(l, h, Colon, b)
    BY <1>1, <1>5 DEF Between
  <2>2. l \in Text /\ Colon \in Code
    <3>1. Colon \in Code /\ h \in Seq(Code) /\ b \in Seq(Code)
      BY <1>5, Alphabets DEF Text
    <3>2. PICK cb : cb = <<Colon>> \o b
      OBVIOUS
    <3>3. cb \in Seq(Code)
      BY <3>1, <3>2
    <3>4. l \in Seq(Code)
      BY <1>1, <3>1, <3>2, <3>3
    <3> QED
      BY <3>1, <3>4 DEF Text
  <2> QED
    BY <2>1, <2>2, SplitOnceAt
<1>7. <<h, b>>[1] = h /\ Tail(<<h, b>>) = <<b>>
  OBVIOUS
<1>8. Rest(p, l) = Understood(p, W, <<b>>)
  BY <1>2, <1>4, <1>6, <1>7 DEF Rest, Understood
<1> QED
  BY <1>1, <1>8

\* Rest always finds words, and has them all but for a text without any.
RestWords(p, s, P, a, tr) ==
    /\ Rest(p, s) = Understood(p, Append(P, a), tr)
    /\ a = <<>> => Append(P, a)[1] = <<>>
    /\ tr = <<>> \/ \E h \in Text : \E b \in Text : tr = <<b>> /\ s = h \o (<<Colon>> \o b)

LEMMA RestGives ==
    ASSUME NEW p, NEW s \in Text
    PROVE  \E tr : \E P \in Seq(Word), a \in Word : RestWords(p, s, P, a, tr)
<1>1. PICK h, tr :
          /\ h \in Text /\ SplitOnce(s, Colon) = <<h>> \o tr /\ Without(h, Colon)
          /\ tr = <<>> \/ \E b \in Text : tr = <<b>> /\ s = h \o (<<Colon>> \o b)
  <2>1. CASE Without(s, Colon)
    <3>1. SplitOnce(s, Colon) = <<s>> /\ <<s>> \o <<>> = <<s>>
      BY <2>1, SplitOnceNowhere
    <3> QED
      BY <2>1, <3>1
  <2>2. CASE ~Without(s, Colon)
    <3>1. PICK h, b : Between(s, h, Colon, b)
      BY <2>2, SplitOnceSomewhere, Alphabets
    <3>2. SplitOnce(s, Colon) = <<h, b>>
      BY <3>1, SplitOnceAt, Alphabets
    <3>3. <<h>> \o <<b>> = <<h, b>>
      BY Pair
    <3> QED
      BY <3>1, <3>2, <3>3 DEF Between
  <2> QED
    BY <2>1, <2>2
<1>2. PICK hs : hs = <<h>> \o tr
  OBVIOUS
<1>3. hs[1] = h /\ Tail(hs) = tr
  <2>1. CASE tr = <<>>
    <3>1. hs = <<h>>
      BY <1>2, <2>1
    <3> QED
      BY <2>1, <3>1
  <2>2. CASE tr # <<>>
    <3>1. PICK b : tr = <<b>>
      BY <1>1, <2>2
    <3>2. hs = <<h, b>>
      BY <1>2, <3>1, Pair
    <3> QED
      BY <3>1, <3>2
  <2> QED
    BY <2>1, <2>2
<1>4. PICK t : t = TrimSpace(h)
  OBVIOUS
<1>5. t \in Text /\ (t = <<>> \/ Trimmed(t)) /\ Without(t, Colon)
  BY <1>1, <1>4, TrimIs DEF TrimOK
<1>6. PICK P \in Seq(Word), a \in Word : Split(t, Space) = Append(P, a) /\ t = LineOf(P, a)
  <2>1. t \in Seq(Plain \cup {Space})
    BY <1>5, PlainLine
  <2>2. SplitsInto(t, Plain, Split(t, Space))
    BY <2>1, SplitIs, Alphabets
  <2> QED
    BY <2>2 DEF SplitsInto, LineOf, Word
<1>7. Rest(p, s) = Understood(p, Append(P, a), tr)
  BY <1>1, <1>2, <1>3, <1>4, <1>6 DEF Rest, Understood
<1>8. a = <<>> => Append(P, a)[1] = <<>>
  <2>1. ASSUME a = <<>>, P # <<>>
        PROVE  FALSE
    <3>1. LineEnds(P, a)
      BY WordsAreSpoken, LineIs
    <3>2. t = <<>>
      BY <1>5, <1>6, <2>1, <3>1 DEF LineEnds
    <3>3. P \in Seq(Seq(Code)) /\ Space \in Code
      BY Alphabets, Widen DEF Word
    <3>4. Led(P) # <<>> /\ Led(P) \in Seq(Code)
      BY <2>1, <3>3, LedEnds
    <3>5. Led(P) \o <<>> = Led(P)
      BY <3>4, ConcatEmptySeq
    <3> QED
      BY <1>6, <2>1, <3>2, <3>4, <3>5 DEF LineOf
  <2>2. Append(<<>>, <<>>)[1] = <<>>
    OBVIOUS
  <2> QED
    BY <2>1, <2>2
<1>9. RestWords(p, s, P, a, tr)
  BY <1>1, <1>7, <1>8 DEF RestWords
<1> QED
  BY <1>9

-----------------------------------------------------------------------------
(* ParseMessage of a line made of a prefix and what follows it. *)

Follows(r) == r \in Text /\ r # <<>> /\ r[1] # Space /\ r[1] # Colon /\ r[Len(r)] # Space

LEMMA ParseUnprefixed ==
    ASSUME NEW r, Follows(r)
    PROVE  ParseMessage(r) = Rest(<<>>, r)
<1>1. TrimSpace(r) = r
  BY TrimNothing DEF Follows, Trimmed
<1> QED
  BY <1>1 DEF Follows, ParseMessage

LEMMA ParsePrefixed ==
    ASSUME NEW p \in Seq(Spoken), NEW r, Follows(r)
    PROVE  ParseMessage((<<Colon>> \o p) \o (<<Space>> \o r)) = Rest(p, r)
<1>1. PICK h, t, s : h = <<Colon>> \o p /\ t = <<Space>> \o r /\ s = h \o t
  OBVIOUS
<1>2. p \in Seq(Code) /\ r \in Seq(Code) /\ <<Colon>> \in Seq(Code) /\ <<Space>> \in Seq(Code)
  BY Alphabets, Widen DEF Follows, Text
<1>3. h \in Seq(Code) /\ t \in Seq(Code)
  BY <1>1, <1>2
<1>4. s \in Seq(Code)
  BY <1>1, <1>3
<1>5. h \in Seq(Spoken) /\ h # <<>> /\ h[1] = Colon /\ Tail(h) = p
  <2>1. PICK k : k = <<Colon>>
    OBVIOUS
  <2>2. k \in Seq(Spoken) /\ k # <<>> /\ k[1] = Colon /\ h = k \o p
    BY <1>1, <2>1, Alphabets
  <2>3. Ends(k, p)
    BY <2>2, ConcatEnds
  <2>4. h \in Seq(Spoken) /\ h # <<>> /\ h[1] = Colon
    BY <2>2, <2>3 DEF Ends
  <2>5. Tail(h) = p
    <3>1. Len(h) = 1 + Len(p) /\ \A i \in 1..(1 + Len(p)) : h[i] = IF i <= 1 THEN k[i] ELSE p[i - 1]
      BY <2>1, <2>2, ConcatProperties
    <3>2. PICK q, n : q = Tail(h) /\ n = Len(p)
      OBVIOUS
    <3>3. n \in Nat /\ q \in Seq(Spoken) /\ Len(q) = n /\ \A i \in 1..n : q[i] = h[i + 1]
      BY <2>4, <3>1, <3>2, HeadTailProperties
    <3>4. ASSUME NEW i \in 1..n
          PROVE  q[i] = p[i]
      <4>1. PICK j : j = i + 1
        OBVIOUS
      <4>4. n \in Nat /\ i \in 1..n
        BY <3>3
      <4>2. j \in 1..(1 + n) /\ ~(j <= 1) /\ j - 1 = i
        BY <4>1, <4>4
      <4>3. h[j] = p[j - 1]
        BY <3>1, <3>2, <4>2
      <4> QED
        BY <3>3, <4>1, <4>2, <4>3
    <3>5. q = p
      BY <3>2, <3>3, <3>4, SeqEqual
    <3> QED
      BY <3>2, <3>5
  <2> QED
    BY <2>4, <2>5
<1>6. Trimmed(s) /\ s[1] = Colon /\ s # <<>>
  <2>1. Ends(h, t)
    BY <1>3, ConcatEnds
  <2>2. Ends(<<Space>>, r)
    BY <1>2, ConcatEnds
  <2>3. t # <<>> /\ t[Len(t)] = r[Len(r)]
    BY <1>1, <2>2, Zenon DEF Ends, Follows
  <2>4. s # <<>> /\ s[1] = Colon /\ s[Len(s)] = r[Len(r)]
    BY <1>1, <1>5, <2>1, <2>3, Zenon DEF Ends
  <2>5. Colon # Space
    BY DEF Colon, Space
  <2> QED
    BY <2>4, <2>5 DEF Trimmed, Follows
<1>7. TrimSpace(s) = s
  BY <1>4, <1>6, TrimNothing DEF Text
<1>8. SplitOnce(s, Space) = <<h, r>>
  <2>1. Without(h, Space)
    <3>1. \A i \in 1..Len(h) : h[i] \in Spoken
      BY <1>5
    <3> QED
      BY <3>1, Alphabets DEF Without
  <2>2. Between(s, h, Space, r)
    BY <1>1, <1>2, <1>3, <2>1 DEF Between, Text
  <2> QED
    BY <1>4, <2>2, SplitOnceAt, Alphabets DEF Text
<1>9. ParseMessage(s) = Rest(p, r)
  <2>1. Len(<<h, r>>) = 2 /\ <<h, r>>[1] = h /\ <<h, r>>[2] = r /\ 2 # 1
    OBVIOUS
  <2>2. ParseMessage(s) = Rest(Tail(<<h, r>>[1]), <<h, r>>[2])
    BY <1>6, <1>7, <1>8, <2>1 DEF ParseMessage
  <2> QED
    BY <1>5, <2>1, <2>2
<1> QED
  BY <1>1, <1>9

\* Every message has a prefix without spaces, and what follows it does not end with
\* one.
ParsedAs(m, p, r) == m = Rest(p, r) /\ (r # <<>> => r[Len(r)] # Space)

LEMMA ParseGives ==
    ASSUME NEW l \in Text, ParseMessage(l).ok
    PROVE  \E p \in Seq(Spoken), r \in Text : ParsedAs(ParseMessage(l), p, r)
<1>1. PICK s, m : s = TrimSpace(l) /\ m = ParseMessage(l)
  OBVIOUS
<1>2. NoMessage.ok = FALSE
  BY DEF NoMessage
<1>3. s # <<>>
  BY <1>1, <1>2 DEF ParseMessage
<1>4. s \in Text /\ Trimmed(s)
  BY <1>1, <1>3, TrimIs DEF TrimOK
<1>5. CASE s[1] # Colon
  <2>1. m = Rest(<<>>, s)
    BY <1>1, <1>3, <1>5 DEF ParseMessage
  <2>2. <<>> \in Seq(Spoken)
    OBVIOUS
  <2>3. ParsedAs(m, <<>>, s)
    BY <1>4, <2>1 DEF ParsedAs, Trimmed
  <2> QED
    BY <1>1, <1>4, <2>2, <2>3
<1>6. CASE s[1] = Colon
  <2>1. PICK halves : halves = SplitOnce(s, Space)
    OBVIOUS
  <2>2. m = IF Len(halves) = 1 THEN NoMessage ELSE Rest(Tail(halves[1]), halves[2])
    BY <1>1, <1>3, <1>6, <2>1 DEF ParseMessage
  <2>3. Len(halves) # 1 /\ m = Rest(Tail(halves[1]), halves[2])
    BY <1>1, <1>2, <2>2
  <2>4. ~Without(s, Space)
    <3>1. Len(<<s>>) = 1
      OBVIOUS
    <3> QED
      BY <1>4, <2>1, <2>3, <3>1, SplitOnceNowhere
  <2>5. PICK h, r : Between(s, h, Space, r)
    BY <1>4, <2>4, SplitOnceSomewhere, Alphabets
  <2>6. h \in Text /\ r \in Text /\ Without(h, Space) /\ s = h \o (<<Space>> \o r)
    BY <2>5 DEF Between
  <2>7. halves = <<h, r>>
    BY <1>4, <2>1, <2>5, SplitOnceAt, Alphabets
  <2>8. m = Rest(Tail(h), r)
    BY <2>3, <2>7
  <2>9. h \in Seq(Spoken)
    <3>1. PICK n : n = Len(h)
      OBVIOUS
    <3>2. n \in Nat /\ h \in Seq(Code) /\ \A i \in 1..n : h[i] \in Spoken
      <4>1. Len(h) \in Nat /\ \A i \in 1..Len(h) : h[i] \in Code /\ h[i] # Space
        BY <2>6, TextIs DEF Without
      <4> QED
        BY <2>6, <3>1, <4>1 DEF Spoken, Text
    <3>3. h \in [1..n -> Spoken]
      BY <3>1, <3>2, LenProperties
    <3> QED
      BY <3>2, <3>3
  <2>10. h # <<>>
    <3>1. PICK t, e : t = <<Space>> \o r /\ e = <<Space>>
      OBVIOUS
    <3>2. e \in Seq(Code) /\ e # <<>> /\ e[1] = Space /\ r \in Seq(Code) /\ t \in Seq(Code)
      BY <2>6, <3>1, Alphabets DEF Text
    <3>3. Ends(e, r)
      BY <3>2, ConcatEnds
    <3>4. t[1] = Space
      BY <3>1, <3>2, <3>3 DEF Ends
    <3>5. h = <<>> => s = t
      BY <2>6, <3>1, <3>2, ConcatEmptySeq
    <3> QED
      BY <1>4, <3>4, <3>5 DEF Trimmed
  <2>11. Tail(h) \in Seq(Spoken)
    BY <2>9, <2>10, HeadTailProperties
  <2>12. r # <<>> => r[Len(r)] # Space
    <3>1. h \in Seq(Code) /\ r \in Seq(Code) /\ <<Space>> \in Seq(Code)
      BY <2>6, Alphabets DEF Text
    <3>2. PICK t : t = <<Space>> \o r
      OBVIOUS
    <3>3. t \in Seq(Code)
      BY <3>1, <3>2
    <3>4. Ends(<<Space>>, r) /\ Ends(h, t)
      BY <3>1, <3>3, ConcatEnds
    <3>5. r # <<>> => s[Len(s)] = r[Len(r)]
      BY <2>6, <3>2, <3>4, Zenon DEF Ends
    <3> QED
      BY <1>4, <3>5 DEF Trimmed
  <2>13. ParsedAs(m, Tail(h), r)
    BY <2>8, <2>12 DEF ParsedAs
  <2> QED
    BY <1>1, <2>6, <2>11, <2>13
<1> QED
  BY <1>5, <1>6

-----------------------------------------------------------------------------
(* What Bytes makes of a message. *)

Written(args) ==
    [i \in DOMAIN args |->
        IF i = Len(args) /\ Marked(args[i]) THEN <<Space, Colon>> \o args[i]
        ELSE <<Space>> \o args[i]]

LEMMA MarkedIs ==
    ASSUME NEW b \in Text
    PROVE  Marked(b) <=> b \notin Word
<1>1. Range(b) = {b[i] : i \in 1..Len(b)} /\ Len(b) \in Nat /\ \A i \in 1..Len(b) : b[i] \in Code
  BY TextIs, RangeEquality DEF Text
<1>2. ASSUME b \in Word
      PROVE  ~Marked(b)
  <2>1. \A i \in 1..Len(b) : b[i] \in Plain
    BY <1>2 DEF Word
  <2> QED
    BY <1>1, <2>1, Alphabets DEF Marked
<1>3. ASSUME ~Marked(b)
      PROVE  b \in Word
  <2>1. PICK n : n = Len(b)
    OBVIOUS
  <2>2. \A i \in 1..n : b[i] \in Plain
    BY <1>1, <1>3, <2>1 DEF Marked, Plain
  <2>3. b \in [1..n -> Plain]
    BY <2>1, <2>2, LenProperties DEF Text
  <2> QED
    BY <1>1, <2>1, <2>3 DEF Word
<1> QED
  BY <1>2, <1>3

LEMMA WrittenPlain ==
    ASSUME NEW c \in Word, NEW args \in Seq(Word), NEW P \in Seq(Word), NEW a \in Word,
           <<c>> \o args = Append(P, a)
    PROVE  c \o FlattenSeq(Written(args)) = LineOf(P, a)
<1>1. c \in Text /\ args \in Seq(Seq(Code)) /\ P \in Seq(Seq(Code)) /\ a \in Seq(Code) /\ c \in Seq(Code)
  BY Alphabets, Widen DEF Word, Text
<1>2. Written(args) = Spaced(args)
  <2>1. DOMAIN args = 1..Len(args)
    OBVIOUS
  <2>2. \A i \in 1..Len(args) : ~Marked(args[i])
    <3>1. \A i \in 1..Len(args) : args[i] \in Word /\ args[i] \in Text
      BY <1>1 DEF Text
    <3> QED
      BY <3>1, MarkedIs
  <2>3. Written(args) = [i \in 1..Len(args) |-> IF i = Len(args) /\ Marked(args[i]) THEN <<Space, Colon>> \o args[i]
                                                ELSE <<Space>> \o args[i]]
    BY <2>1, Zenon DEF Written
  <2>4. \A i \in 1..Len(args) : (IF i = Len(args) /\ Marked(args[i]) THEN <<Space, Colon>> \o args[i]
                                 ELSE <<Space>> \o args[i]) = <<Space>> \o args[i]
    BY <2>2
  <2> QED
    BY <2>3, <2>4, Zenon DEF Spaced
<1>3. PICK f, l : f = Fold("flat", <<>>, Spaced(args)) /\ l = LineOf(P, a)
  OBVIOUS
<1>4. f \in Seq(Code) /\ (c \o f) \o <<Space>> = Led(Append(P, a))
  <2>1. SpacedLed(c, args, Code)
    BY <1>1, SpacedIsLed, Alphabets
  <2> QED
    BY <1>3, <2>1 DEF SpacedLed
<1>5. Led(Append(P, a)) = l \o <<Space>>
  <2>1. LedStep(P, a)
    BY LedAppend
  <2> QED
    BY <1>3, <2>1 DEF LedStep, LineOf
<1>6. c \o f = l
  <2>1. PICK cf, sp : cf = c \o f /\ sp = <<Space>>
    OBVIOUS
  <2>2. cf \in Seq(Code) /\ sp \in Seq(Code)
    BY <1>1, <1>4, <2>1, Alphabets
  <2>3. l \in Seq(Code)
    <3>1. Led(P) \in Seq(Code)
      BY <1>1, LedText, Alphabets
    <3> QED
      BY <1>1, <1>3, <3>1 DEF LineOf
  <2>4. cf \o sp = l \o sp
    BY <1>4, <1>5, <2>1
  <2> QED
    BY <2>1, <2>2, <2>3, <2>4, ConcatSimplifications
<1>7. FlattenSeq(Spaced(args)) = f
  <2>1. <<>> \in Seq(Code) /\ Space \in Code
    BY Alphabets
  <2>2. Spaced(args) \in Seq(Seq(Code))
    BY <1>1, <2>1, SpacedAppend
  <2> QED
    BY <1>3, <2>2, FlattenIsFold
<1> QED
  BY <1>2, <1>3, <1>6, <1>7

WritesMarked(c, vs, b, P, a) ==
    c \o FlattenSeq(Written(Append(vs, b))) = (LineOf(P, a) \o <<Space>>) \o (<<Colon>> \o b)

LEMMA WrittenMarked ==
    ASSUME NEW c \in Word, NEW vs \in Seq(Word), NEW b \in Text, b \notin Word,
           NEW P \in Seq(Word), NEW a \in Word, <<c>> \o vs = Append(P, a)
    PROVE  WritesMarked(c, vs, b, P, a)
<1>1. /\ c \in Seq(Code) /\ vs \in Seq(Seq(Code)) /\ P \in Seq(Seq(Code)) /\ a \in Seq(Code) /\ b \in Seq(Code)
      /\ Space \in Code /\ Colon \in Code
  BY Alphabets, Widen DEF Word, Text
<1>2. PICK R, n, args, scb :
         R = Seq(Code) /\ n = Len(vs) /\ args = Append(vs, b) /\ scb = <<Space, Colon>> \o b
  OBVIOUS
<1>3. /\ vs \in Seq(R) /\ b \in R /\ n \in Nat
      /\ args \in Seq(R) /\ Len(args) = n + 1 /\ args[n + 1] = b /\ \A i \in 1..n : args[i] = vs[i]
  BY <1>1, <1>2, AppendProperties
<1>4. scb \in R
  <2>1. <<Space, Colon>> \in Seq(Code)
    BY <1>1
  <2> QED
    BY <1>1, <1>2, <2>1
<1>5. Marked(b)
  BY MarkedIs
<1>6. PICK f, g : f = Spaced(vs) /\ g = Written(args)
  OBVIOUS
<1>7. f \in Seq(R) /\ Len(f) = n /\ \A i \in 1..n : f[i] = <<Space>> \o vs[i]
  <2>1. f \in Seq(R)
    BY <1>1, <1>2, <1>6, SpacedAppend
  <2>2. f = [i \in 1..n |-> <<Space>> \o vs[i]]
    BY <1>2, <1>6 DEF Spaced
  <2>3. DOMAIN f = 1..n /\ \A i \in 1..n : f[i] = <<Space>> \o vs[i]
    BY <2>2
  <2>4. Len(f) \in Nat /\ DOMAIN f = 1..Len(f)
    BY <2>1, LenProperties
  <2>5. Len(f) = n
    BY <1>3, <2>3, <2>4
  <2> QED
    BY <2>1, <2>3, <2>5
<1>8. PICK m : m = n + 1
  OBVIOUS
<1>9. m \in Nat /\ DOMAIN args = 1..m /\ Len(args) = m
  BY <1>3, <1>8
<1>10. g = [i \in 1..m |-> IF i = m /\ Marked(args[i]) THEN <<Space, Colon>> \o args[i]
                           ELSE <<Space>> \o args[i]]
  BY <1>6, <1>9, Zenon DEF Written
<1>11. DOMAIN g = 1..m
  BY <1>10
<1>12. g[m] = scb
  <2>1. m \in 1..m /\ args[m] = b
    BY <1>3, <1>8
  <2> QED
    BY <1>2, <1>5, <1>10, <2>1
<1>13. \A i \in 1..n : g[i] = f[i]
  <2>1. ASSUME NEW i \in 1..n
        PROVE  g[i] = f[i]
    <3>1. i \in 1..m /\ i # m
      BY <1>3, <1>8
    <3>2. g[i] = <<Space>> \o args[i]
      BY <1>10, <3>1
    <3> QED
      BY <1>3, <1>7, <3>2
  <2> QED
    BY <2>1
<1>14. g = Append(f, scb)
  <2>1. PICK h : h = Append(f, scb)
    OBVIOUS
  <2>2. h \in Seq(R) /\ Len(h) = m /\ h[m] = scb /\ \A i \in 1..n : h[i] = f[i]
    BY <1>4, <1>7, <1>8, <2>1, AppendProperties
  <2>3. \A i \in 1..m : i = m \/ i \in 1..n
    BY <1>3, <1>8
  <2>4. \A i \in 1..m : g[i] = h[i] /\ h[i] \in R
    BY <1>12, <1>13, <2>2, <2>3
  <2>5. g = [i \in 1..m |-> g[i]]
    BY <1>10
  <2>6. \A i \in 1..m : g[i] \in R
    BY <2>4
  <2>7. g \in [1..m -> R]
    BY <2>5, <2>6
  <2>8. g \in Seq(R) /\ Len(g) = m
    BY <1>9, <2>7
  <2>9. g = h
    BY <2>2, <2>4, <2>8, SeqEqual
  <2> QED
    BY <2>1, <2>9
<1>15. PICK F : F = Fold("flat", <<>>, f)
  OBVIOUS
<1>16. F \in Seq(Code) /\ (c \o F) \o <<Space>> = Led(Append(P, a))
  <2>1. SpacedLed(c, vs, Code)
    BY <1>1, SpacedIsLed
  <2> QED
    BY <1>6, <1>15, <2>1 DEF SpacedLed
<1>17. FlattenSeq(g) = F \o scb
  <2>1. g \in Seq(Seq(Code))
    BY <1>2, <1>4, <1>7, <1>14, AppendProperties
  <2>2. FlatStep(f, scb)
    BY <1>4, <1>7, FlatAppend
  <2> QED
    BY <1>14, <1>15, <2>1, <2>2, FlattenIsFold DEF FlatStep
<1>18. Led(Append(P, a)) = LineOf(P, a) \o <<Space>>
  <2>1. LedStep(P, a)
    BY LedAppend
  <2> QED
    BY <2>1 DEF LedStep, LineOf
<1>19. c \o (F \o scb) = ((c \o F) \o <<Space>>) \o (<<Colon>> \o b)
  <2>1. PICK sp, co, cb : sp = <<Space>> /\ co = <<Colon>> /\ cb = co \o b
    OBVIOUS
  <2>2. sp \in Seq(Code) /\ co \in Seq(Code) /\ cb \in Seq(Code)
    BY <1>1, <2>1
  <2>3. scb = sp \o cb
    <3>1. sp \o co = <<Space, Colon>>
      BY <2>1, Pair
    <3>2. Regroups(sp, co, b)
      BY <1>1, <2>2, Regroup
    <3> QED
      BY <1>2, <2>1, <3>1, <3>2 DEF Regroups
  <2>4. PICK cF : cF = c \o F
    OBVIOUS
  <2>5. cF \in Seq(Code)
    BY <1>1, <1>16, <2>4
  <2>6. Regroups(cF, sp, cb) /\ Regroups(c, F, scb)
    BY <1>1, <1>2, <1>4, <1>16, <2>2, <2>5, Regroup
  <2> QED
    BY <2>1, <2>3, <2>4, <2>6, Zenon DEF Regroups
<1> QED
  BY <1>2, <1>6, <1>16, <1>17, <1>18, <1>19 DEF WritesMarked

\* Bytes in two parts.
LEMMA BytesIs ==
    ASSUME NEW p \in Seq(Spoken), NEW m, m.prefix = p, NEW r, r = m.command \o FlattenSeq(Written(m.args)),
           m.command \in Seq(Code), FlattenSeq(Written(m.args)) \in Seq(Code)
    PROVE  /\ p = <<>> => Bytes(m) = r
           /\ p # <<>> => Bytes(m) = (<<Colon>> \o p) \o (<<Space>> \o r)
<1>1. PICK c, F, sp, cp :
         c = m.command /\ F = FlattenSeq(Written(m.args)) /\ sp = <<Space>> /\ cp = <<Colon>> \o p
  OBVIOUS
<1>2. p \in Seq(Code) /\ c \in Seq(Code) /\ F \in Seq(Code) /\ sp \in Seq(Code) /\ cp \in Seq(Code)
  <2>1. p \in Seq(Code) /\ <<Colon>> \in Seq(Code) /\ sp \in Seq(Code)
    BY <1>1, Alphabets, Widen
  <2> QED
    BY <1>1, <2>1
<1>3. Bytes(m) = ((IF p = <<>> THEN <<>> ELSE cp \o sp) \o c) \o F
  BY <1>1, Zenon DEF Bytes, Written
<1>4. CASE p = <<>>
  <2>1. <<>> \o c = c
    BY <1>2, ConcatEmptySeq
  <2> QED
    BY <1>1, <1>3, <1>4, <2>1
<1>5. CASE p # <<>>
  <2>1. PICK x, y : x = cp \o sp /\ y = c \o F
    OBVIOUS
  <2>2. x \in Seq(Code) /\ y \in Seq(Code)
    BY <1>2, <2>1
  <2>3. Regroups(x, c, F) /\ Regroups(cp, sp, y)
    BY <1>2, <2>2, Regroup
  <2> QED
    BY <1>1, <1>3, <1>5, <2>1, <2>3, Zenon DEF Regroups
<1> QED
  BY <1>4, <1>5

LEMMA WrittenText ==
    ASSUME NEW args \in Seq(Text)
    PROVE  FlattenSeq(Written(args)) \in Seq(Code)
<1>1. PICK R, n, g : R = Seq(Code) /\ n = Len(args) /\ g = Written(args)
  OBVIOUS
<1>2. n \in Nat /\ DOMAIN args = 1..n /\ \A i \in 1..n : args[i] \in R
  BY <1>1 DEF Text
<1>3. <<Space>> \in Seq(Code) /\ <<Space, Colon>> \in Seq(Code)
  BY Alphabets
<1>4. \A x \in R : <<Space>> \o x \in R /\ <<Space, Colon>> \o x \in R
  BY <1>1, <1>3
<1>5. g = [i \in 1..n |-> IF i = n /\ Marked(args[i]) THEN <<Space, Colon>> \o args[i]
                          ELSE <<Space>> \o args[i]]
  BY <1>1, <1>2, Zenon DEF Written
<1>6. g \in [1..n -> R]
  BY <1>2, <1>4, <1>5
<1>7. g \in Seq(Seq(Code))
  <2>1. g \in Seq(R)
    BY <1>2, <1>6
  <2> QED
    BY <1>1, <2>1
<1>8. LengthsAdd(g, Code)
  BY <1>7, LengthsAre, Alphabets
<1> QED
  BY <1>1, <1>7, <1>8, FlattenIsFold DEF LengthsAdd

LEMMA Prepended ==
    ASSUME NEW S, NEW c \in S, NEW vs \in Seq(S), NEW Q \in Seq(S), NEW d \in S, <<c>> \o vs = Append(Q, d)
    PROVE  /\ Append(Q, d)[1] = c /\ Tail(Append(Q, d)) = vs
           /\ vs = <<>> => d = c
           /\ vs # <<>> => d = vs[Len(vs)]
<1>1. PICK k, W : k = <<c>> /\ W = Append(Q, d)
  OBVIOUS
<1>2. k \in Seq(S) /\ k # <<>> /\ Len(k) = 1 /\ k[1] = c /\ k[Len(k)] = c /\ W = k \o vs
  <2>1. k \in Seq(S) /\ Len(k) = 1 /\ k[1] = c
    BY <1>1
  <2>2. k # <<>>
    BY <1>1
  <2>3. W = k \o vs
    BY <1>1, Zenon
  <2> QED
    BY <2>1, <2>2, <2>3
<1>3. W \in Seq(S) /\ W # <<>> /\ Len(W) = Len(Q) + 1 /\ Len(Q) \in Nat /\ W[Len(W)] = d
  BY <1>1, AppendProperties
<1>4. Ends(k, vs)
  BY <1>2, ConcatEnds
<1>5. W[1] = c
  BY <1>2, <1>4 DEF Ends
<1>6. vs # <<>> => d = vs[Len(vs)]
  BY <1>2, <1>3, <1>4 DEF Ends
<1>7. vs = <<>> => d = c
  <2>1. vs = <<>> => W = k
    BY <1>2, ConcatEmptySeq
  <2> QED
    BY <1>2, <1>3, <2>1
<1>8. Tail(W) = vs
  <2>1. PICK n, q : n = Len(vs) /\ q = Tail(W)
    OBVIOUS
  <2>2. n \in Nat /\ Len(W) = 1 + n /\ \A i \in 1..(1 + n) : W[i] = IF i <= 1 THEN k[i] ELSE vs[i - 1]
    <3>1. PICK one : one = Len(k)
      OBVIOUS
    <3>4. /\ Len(k \o vs) = Len(k) + Len(vs) /\ Len(vs) \in Nat
          /\ \A i \in 1..(Len(k) + Len(vs)) : (k \o vs)[i] = IF i <= Len(k) THEN k[i] ELSE vs[i - Len(k)]
      BY <1>2, ConcatProperties
    <3>2. n \in Nat /\ Len(W) = one + n /\ \A i \in 1..(one + n) : W[i] = IF i <= one THEN k[i]
                                                                          ELSE vs[i - one]
      BY <1>2, <2>1, <3>1, <3>4, Zenon
    <3>3. one = 1
      BY <1>2, <3>1
    <3> QED
      BY <3>2, <3>3
  <2>3. q \in Seq(S) /\ Len(q) = Len(W) - 1 /\ \A i \in 1..Len(q) : q[i] = W[i + 1]
    BY <1>3, <2>1, HeadTailProperties
  <2>4. Len(q) = n
    BY <2>2, <2>3
  <2>5. ASSUME NEW i \in 1..n
        PROVE  q[i] = vs[i]
    <3>1. PICK j : j = i + 1
      OBVIOUS
    <3>2. n \in Nat
      BY <2>2
    <3>3. j \in 1..(1 + n) /\ ~(j <= 1) /\ j - 1 = i
      BY <3>1, <3>2
    <3>4. W[j] = vs[j - 1]
      BY <2>2, <3>3
    <3> QED
      BY <2>3, <2>4, <3>1, <3>3, <3>4
  <2>6. q = vs
    BY <2>1, <2>3, <2>4, <2>5, SeqEqual
  <2> QED
    BY <2>1, <2>6
<1> QED
  BY <1>1, <1>5, <1>6, <1>7, <1>8

Command(c) == c \in Word /\ c # <<>> /\ ToUpper(c) = c

Message(p, c, args) == [prefix |-> p, command |-> c, args |-> args, ok |-> TRUE]

\* What Bytes writes behind the prefix, and what Rest makes of it.
ReadBack(p, c, args) ==
    /\ Follows(c \o FlattenSeq(Written(args)))
    /\ Rest(p, c \o FlattenSeq(Written(args))) = Message(p, c, args)

LEMMA ReadBackPlain ==
    ASSUME NEW p, NEW c, Command(c), NEW args \in Seq(Word), args # <<>> => args[Len(args)] # <<>>
    PROVE  ReadBack(p, c, args)
<1>1. c \in Word /\ c # <<>> /\ ToUpper(c) = c
  BY DEF Command
<1>2. PICK Q \in Seq(Word), d \in Word : <<c>> \o args = Append(Q, d)
  <2>1. PICK W : W = <<c>> \o args
    OBVIOUS
  <2>2. <<c>> \in Seq(Word) /\ <<c>> # <<>>
    BY <1>1
  <2>3. W \in Seq(Word) /\ W # <<>>
    <3>1. Ends(<<c>>, args)
      BY <2>2, ConcatEnds
    <3> QED
      BY <2>1, <2>2, <3>1 DEF Ends
  <2> QED
    BY <2>1, <2>3, SequenceEmptyOrAppend
<1>3. Append(Q, d)[1] = c /\ Tail(Append(Q, d)) = args /\ d # <<>>
  BY <1>1, <1>2, Prepended
<1>4. c \o FlattenSeq(Written(args)) = LineOf(Q, d)
  BY <1>1, <1>2, WrittenPlain
<1>5. Follows(LineOf(Q, d))
  <2>1. LineEnds(Q, d)
    BY WordsAreSpoken, LineIs
  <2>2. c[1] \in Plain
    <3>1. Len(c) \in Nat /\ Len(c) # 0
      BY <1>1, EmptySeq DEF Word
    <3> QED
      BY <1>1, <3>1 DEF Word
  <2> QED
    BY <1>1, <1>3, <2>1, <2>2, Alphabets DEF LineEnds, Trimmed, Follows
<1>6. Rest(p, LineOf(Q, d)) = Understood(p, Append(Q, d), <<>>)
  BY <1>1, <1>3, RestPlain
<1>7. args \o <<>> = args
  BY ConcatEmptySeq
<1> QED
  BY <1>1, <1>3, <1>4, <1>5, <1>6, <1>7 DEF ReadBack, Understood, Message

LEMMA ReadBackMarked ==
    ASSUME NEW p, NEW c, Command(c), NEW vs \in Seq(Word), vs # <<>> => vs[Len(vs)] # <<>>,
           NEW b \in Text, b \notin Word, b[Len(b)] # Space
    PROVE  ReadBack(p, c, Append(vs, b))
<1>1. c \in Word /\ c # <<>> /\ ToUpper(c) = c
  BY DEF Command
<1>2. PICK Q \in Seq(Word), d \in Word : <<c>> \o vs = Append(Q, d)
  <2>1. PICK W : W = <<c>> \o vs
    OBVIOUS
  <2>2. <<c>> \in Seq(Word) /\ <<c>> # <<>>
    BY <1>1
  <2>3. W \in Seq(Word) /\ W # <<>>
    <3>1. Ends(<<c>>, vs)
      BY <2>2, ConcatEnds
    <3> QED
      BY <2>1, <2>2, <3>1 DEF Ends
  <2> QED
    BY <2>1, <2>3, SequenceEmptyOrAppend
<1>3. Append(Q, d)[1] = c /\ Tail(Append(Q, d)) = vs /\ d # <<>>
  <2>1. /\ Append(Q, d)[1] = c /\ Tail(Append(Q, d)) = vs
        /\ vs = <<>> => d = c
        /\ vs # <<>> => d = vs[Len(vs)]
    BY <1>1, <1>2, Prepended
  <2> QED
    BY <1>1, <2>1
<1>4. PICK s, sp, cb, ls, l :
         s = LineOf(Q, d) /\ sp = <<Space>> /\ cb = <<Colon>> \o b /\ ls = s \o sp /\ l = ls \o cb
  OBVIOUS
<1>5. c \o FlattenSeq(Written(Append(vs, b))) = l
  <2>1. c \o FlattenSeq(Written(Append(vs, b))) = (LineOf(Q, d) \o <<Space>>) \o (<<Colon>> \o b)
    <3>1. WritesMarked(c, vs, b, Q, d)
      BY <1>1, <1>2, WrittenMarked
    <3> QED
      BY <3>1, Zenon DEF WritesMarked
  <2> QED
    BY <1>4, <2>1, Zenon
<1>6. Follows(l)
  <2>1. LineEnds(Q, d)
    BY WordsAreSpoken, LineIs
  <2>2. c[1] \in Plain
    <3>1. Len(c) \in Nat /\ Len(c) # 0
      BY <1>1, EmptySeq DEF Word
    <3> QED
      BY <1>1, <3>1 DEF Word
  <2>3. s \in Seq(Code) /\ s # <<>> /\ s[1] = c[1]
    BY <1>1, <1>3, <1>4, <2>1 DEF LineEnds, Trimmed, Text
  <2>4. b \in Seq(Code) /\ b # <<>> /\ sp \in Seq(Code) /\ <<Colon>> \in Seq(Code)
    BY <1>4, Alphabets DEF Text, Word
  <2>5. cb \in Seq(Code) /\ ls \in Seq(Code)
    BY <1>4, <2>3, <2>4
  <2>6. l \in Seq(Code)
    BY <1>4, <2>5
  <2>7. Ends(s, sp) /\ Ends(<<Colon>>, b) /\ Ends(ls, cb)
    BY <2>3, <2>4, <2>5, ConcatEnds
  <2>8. ls # <<>> /\ ls[1] = c[1] /\ cb # <<>> /\ cb[Len(cb)] = b[Len(b)]
    BY <1>4, <2>3, <2>4, <2>7, Zenon DEF Ends
  <2>9. l # <<>> /\ l[1] = c[1] /\ l[Len(l)] = b[Len(b)]
    BY <1>4, <2>7, <2>8, Zenon DEF Ends
  <2> QED
    BY <2>2, <2>6, <2>9, Alphabets DEF Follows, Text
<1>7. Rest(p, l) = Understood(p, Append(Q, d), <<b>>)
  <2>1. Append(Q, d)[1] # <<>> /\ d # <<>> /\ b \in Text
    BY <1>1, <1>3
  <2>2. Rest(p, (LineOf(Q, d) \o <<Space>>) \o (<<Colon>> \o b)) = Understood(p, Append(Q, d), <<b>>)
    BY <2>1, RestMarked
  <2> QED
    BY <1>4, <2>2, Zenon
<1>8. vs \o <<b>> = Append(vs, b)
  <2>1. vs \in Seq(Word \cup {b}) /\ b \in Word \cup {b}
    BY SeqMonotonic
  <2> QED
    BY <2>1, AppendIsConcat
<1> QED
  BY <1>1, <1>3, <1>5, <1>6, <1>7, <1>8 DEF ReadBack, Understood, Message

LEMMA Resent ==
    ASSUME NEW p \in Seq(Spoken), NEW c, Command(c), NEW args \in Seq(Text), ReadBack(p, c, args)
    PROVE  ParseMessage(Bytes(Message(p, c, args))) = Message(p, c, args)
<1>1. PICK m, r : m = Message(p, c, args) /\ r = c \o FlattenSeq(Written(args))
  OBVIOUS
<1>2. m.prefix = p /\ m.command = c /\ m.args = args
  BY <1>1 DEF Message
<1>3. c \in Seq(Code)
  BY Alphabets, Widen DEF Command, Word
<1>4. Follows(r) /\ Rest(p, r) = m
  BY <1>1 DEF ReadBack
<1>5. /\ p = <<>> => Bytes(m) = r
      /\ p # <<>> => Bytes(m) = (<<Colon>> \o p) \o (<<Space>> \o r)
  <2>1. FlattenSeq(Written(args)) \in Seq(Code)
    BY WrittenText
  <2>2. r = m.command \o FlattenSeq(Written(m.args))
    BY <1>1, <1>2, Zenon
  <2>3. m.command \in Seq(Code) /\ FlattenSeq(Written(m.args)) \in Seq(Code)
    BY <1>2, <1>3, <2>1, Zenon
  <2> QED
    BY <1>2, <2>2, <2>3, BytesIs, ZenonT(40)
<1>6. CASE p = <<>>
  BY <1>1, <1>4, <1>5, <1>6, ParseUnprefixed
<1>7. CASE p # <<>>
  BY <1>1, <1>4, <1>5, <1>7, ParsePrefixed
<1> QED
  BY <1>6, <1>7

LEMMA UpperWord ==
    ASSUME NEW w \in Word
    PROVE  /\ ToUpper(w) \in Word /\ ToUpper(ToUpper(w)) = ToUpper(w)
           /\ ToUpper(w) # <<>> => w # <<>>
<1>1. w \in Text
  BY Alphabets, Widen DEF Word, Text
<1>2. PICK u : u = ToUpper(w)
  OBVIOUS
<1>3. /\ u \in Text /\ Len(u) = Len(w) /\ ToUpper(u) = u
      /\ Without(w, Space) => Without(u, Space)
      /\ Without(w, Colon) => Without(u, Colon)
  BY <1>1, <1>2, ToUpperIs
<1>4. Without(w, Space) /\ Without(w, Colon)
  <2>1. \A i \in 1..Len(w) : w[i] \in Plain
    BY DEF Word
  <2> QED
    BY <2>1, Alphabets DEF Without
<1>5. u \in Word
  <2>1. PICK n : n = Len(u)
    OBVIOUS
  <2>2. n \in Nat /\ u \in Seq(Code) /\ \A i \in 1..n : u[i] \in Plain
    <3>1. Len(u) \in Nat /\ \A i \in 1..Len(u) : u[i] \in Code
      BY <1>3, TextIs
    <3>2. \A i \in 1..Len(u) : u[i] # Space /\ u[i] # Colon
      BY <1>3, <1>4 DEF Without
    <3> QED
      BY <1>3, <2>1, <3>1, <3>2 DEF Plain, Text
  <2>3. u \in [1..n -> Plain]
    BY <2>1, <2>2, LenProperties
  <2> QED
    BY <2>2, <2>3 DEF Word
<1>6. u # <<>> => w # <<>>
  <2>1. u # <<>> <=> Len(u) # 0
    BY <1>3, TextIs
  <2>2. w # <<>> <=> Len(w) # 0
    BY <1>1, TextIs
  <2> QED
    BY <1>3, <2>1, <2>2
<1> QED
  BY <1>2, <1>3, <1>5, <1>6

\* A sequence is its first element and its tail.
LEMMA Unprepended ==
    ASSUME NEW S, NEW W \in Seq(S), W # <<>>
    PROVE  W[1] \in S /\ Tail(W) \in Seq(S) /\ W = <<W[1]>> \o Tail(W)
<1>1. PICK n : n = Len(W)
  OBVIOUS
<1>2. n \in Nat /\ n # 0
  BY <1>1, EmptySeq
<1>3. 1 \in 1..Len(W) /\ n \in 1..Len(W) /\ 1 + 1 = 2
  BY <1>1, <1>2
<1>4. SubSeq(W, 1, n) = <<W[1]>> \o SubSeq(W, 1 + 1, n)
  BY <1>3, SubSeqRecursiveFirst
<1>5. SubSeq(W, 1, n) = W
  BY <1>1, SubSeqFull
<1>6. Tail(W) = SubSeq(W, 2, n)
  BY <1>1, TailIsSubSeq
<1>7. W = <<W[1]>> \o Tail(W)
  BY <1>3, <1>4, <1>5, <1>6
<1>8. Tail(W) \in Seq(S) /\ W[1] \in S
  BY <1>3, HeadTailProperties
<1> QED
  BY <1>7, <1>8

LEMMA RoundTripOf ==
    ASSUME NEW l \in Text, NEW m, m = ParseMessage(l), m.ok, m.command # <<>>,
           m.args # <<>> => Last(m.args) # <<>>
    PROVE  ParseMessage(Bytes(m)) = m
<1>1. PICK p \in Seq(Spoken), r \in Text : ParsedAs(m, p, r)
  BY ParseGives
<1>tr. PICK tr : \E P \in Seq(Word), a \in Word : RestWords(p, r, P, a, tr)
  BY RestGives
<1>2. PICK P \in Seq(Word), a \in Word : RestWords(p, r, P, a, tr)
  BY <1>tr
<1>3. PICK W : W = Append(P, a)
  OBVIOUS
<1>4. W \in Seq(Word) /\ W # <<>>
  BY <1>3, AppendProperties
<1>5. PICK w, vs : w = W[1] /\ vs = Tail(W)
  OBVIOUS
<1>6. w \in Word /\ vs \in Seq(Word) /\ <<w>> \o vs = Append(P, a)
  BY <1>3, <1>4, <1>5, Unprepended
<1>7. PICK c, args : c = ToUpper(w) /\ args = vs \o tr
  OBVIOUS
<1>8. m = Message(p, c, args)
  BY <1>1, <1>2, <1>3, <1>5, <1>7 DEF ParsedAs, RestWords, Understood, Message
<1>9. m.command = c /\ m.args = args
  BY <1>8 DEF Message
<1>10. Command(c) /\ w # <<>>
  BY <1>6, <1>7, <1>9, UpperWord DEF Command
<1>11. a # <<>>
  BY <1>2, <1>3, <1>5, <1>10 DEF RestWords
<1>12. vs # <<>> => vs[Len(vs)] # <<>>
  <2>1. vs # <<>> => a = vs[Len(vs)]
    BY <1>6, Prepended
  <2> QED
    BY <1>11, <2>1
<1>13. \A x \in Word : x \in Text
  BY Alphabets, Widen DEF Word, Text
<1>14. ReadBack(p, c, args) /\ args \in Seq(Text)
  <2>1. CASE tr = <<>>
    <3>1. args = vs
      BY <1>6, <1>7, <2>1, ConcatEmptySeq
    <3>2. args \in Seq(Text)
      BY <1>6, <1>13, <3>1, SeqMonotonic
    <3> QED
      BY <1>6, <1>10, <1>12, <3>1, <3>2, ReadBackPlain
  <2>2. CASE tr # <<>>
    <3>1. PICK h \in Text, b \in Text : tr = <<b>> /\ r = h \o (<<Colon>> \o b)
      BY <1>2, <2>2 DEF RestWords
    <3>2. vs \in Seq(Text)
      BY <1>6, <1>13, SeqMonotonic
    <3>3. args = Append(vs, b)
      BY <1>7, <3>1, <3>2, AppendIsConcat
    <3>4. args \in Seq(Text) /\ args # <<>> /\ Last(args) = b
      <4>1. /\ args \in Seq(Text) /\ args # <<>> /\ Len(args) = Len(vs) + 1
            /\ args[Len(vs) + 1] = b
        BY <3>2, <3>3, AppendProperties
      <4> QED
        BY <4>1 DEF Last
    <3>5. b # <<>>
      BY <1>9, <3>4
    <3>6. b[Len(b)] # Space
      <4>1. h \in Seq(Code) /\ b \in Seq(Code) /\ <<Colon>> \in Seq(Code)
        BY Alphabets DEF Text
      <4>2. PICK cb : cb = <<Colon>> \o b
        OBVIOUS
      <4>3. cb \in Seq(Code)
        BY <4>1, <4>2
      <4>4. Ends(<<Colon>>, b) /\ Ends(h, cb)
        BY <4>1, <4>3, ConcatEnds
      <4>5. r # <<>> /\ r[Len(r)] = b[Len(b)]
        BY <3>1, <3>5, <4>2, <4>4, Zenon DEF Ends
      <4> QED
        BY <1>1, <4>5 DEF ParsedAs
    <3>7. CASE b \in Word
      <4>1. args \in Seq(Word) /\ args[Len(args)] # <<>>
        <5>1. args \in Seq(Word)
          BY <1>6, <3>3, <3>7, AppendProperties
        <5> QED
          BY <3>4, <3>5, <5>1 DEF Last
      <4>2. ReadBack(p, c, args)
        BY <1>10, <4>1, ReadBackPlain
      <4> QED
        BY <3>4, <4>2
    <3>8. CASE b \notin Word
      <4>1. ReadBack(p, c, Append(vs, b))
        BY <1>6, <1>10, <1>12, <3>6, <3>8, ReadBackMarked
      <4> QED
        BY <3>3, <3>4, <4>1
    <3> QED
      BY <3>7, <3>8
  <2> QED
    BY <2>1, <2>2
<1>15. ParseMessage(Bytes(Message(p, c, args))) = Message(p, c, args)
  BY <1>10, <1>14, Resent
<1> QED
  BY <1>8, <1>15

-----------------------------------------------------------------------------

LineOK == line \in Text

LEMMA LineInvariance == Spec => []LineOK
<1>1. Init => LineOK
  BY DEF Init, LineOK, Text
<1>2. LineOK /\ [Next]_line => LineOK'
  <2> SUFFICES ASSUME line \in Text, NEW c \in Letters \cup {Space, Colon}, line' = Append(line, c)
               PROVE  line' \in Text
    BY DEF LineOK, Next
  <2>1. c \in Code
    BY MessagesAssumption DEF Code, Space, Colon
  <2> QED
    BY <2>1 DEF Text
<1> QED
  BY <1>1, <1>2, PTL DEF Spec

\* Whatever a peer sends, the message that is made of it is the one that Bytes writes
\* for the next server (parser.go: ParseMessage, Message.Bytes).
THEOREM RoundTripCorrect == Spec => []RoundTrip
<1>1. LineOK => RoundTrip
  <2> SUFFICES ASSUME line \in Text, NEW m, m = ParseMessage(line), m.ok, m.command # <<>>,
                      m.args # <<>> => Last(m.args) # <<>>
               PROVE  ParseMessage(Bytes(m)) = m
    BY DEF LineOK, RoundTrip
  <2> QED
    BY RoundTripOf
<1> QED
  BY <1>1, LineInvariance, PTL

-----------------------------------------------------------------------------
(* The grammar: a line that is cut between two of its words. *)

CutAt(P, a, k) ==
    LineOf(P, a) = Led(SubSeq(P, 1, k)) \o LineOf(SubSeq(P, k + 1, Len(P)), a)

LEMMA SubWords ==
    ASSUME NEW S, NEW P \in Seq(S), NEW i \in 1..(Len(P) + 1), NEW j \in 0..Len(P)
    PROVE  SubSeq(P, i, j) \in Seq(S)
<1>1. \A x \in i..j : P[x] \in S
  OBVIOUS
<1> QED
  BY <1>1, SubSeqProperties

LEMMA LineIsCut ==
    ASSUME NEW P \in Seq(Seq(Spoken)), NEW a \in Seq(Spoken), NEW k \in 0..Len(P)
    PROVE  CutAt(P, a, k)
<1>1. PICK R, n : R = Seq(Code) /\ n = Len(P)
  OBVIOUS
<1>2. P \in Seq(Seq(Code)) /\ P \in Seq(R) /\ a \in Seq(Code) /\ Space \in Code /\ n \in Nat
  BY <1>1, Alphabets, Widen
<1>3. PICK A, B : A = SubSeq(P, 1, k) /\ B = SubSeq(P, k + 1, n)
  OBVIOUS
<1>4. A \in Seq(R) /\ B \in Seq(R)
  <2>1. 1 \in 1..(Len(P) + 1) /\ k \in 0..Len(P) /\ k + 1 \in 1..(Len(P) + 1) /\ n \in 0..Len(P)
    BY <1>1, <1>2
  <2> QED
    BY <1>2, <1>3, <2>1, SubWords
<1>5. P = A \o B
  <2>1. 1 \in 1..(Len(P) + 1) /\ k \in (1 - 1)..Len(P) /\ n \in k..Len(P)
    BY <1>1, <1>2
  <2>2. SubSeq(P, 1, k) \o SubSeq(P, k + 1, n) = SubSeq(P, 1, n)
    BY <1>2, <2>1, ConcatAdjacentSubSeq
  <2>3. SubSeq(P, 1, n) = P
    BY <1>1, <1>2, SubSeqFull
  <2> QED
    BY <1>3, <2>2, <2>3
<1>6. A \in Seq(Seq(Code)) /\ B \in Seq(Seq(Code))
  BY <1>1, <1>4
<1>7. LedBoth(A, B)
  BY <1>2, <1>6, LedConcat
<1>8. Led(A) \in Seq(Code) /\ Led(B) \in Seq(Code)
  BY <1>2, <1>6, LedText
<1>9. Regroups(Led(A), Led(B), a)
  BY <1>2, <1>8, Regroup
<1> QED
  BY <1>1, <1>3, <1>5, <1>7, <1>9, Zenon DEF LedBoth, Regroups, CutAt, LineOf

\* The words P, a from place i on.
FromPlace(P, a, i) ==
    /\ SubSeq(P, i, Len(P)) \in Seq(Seq(Spoken))
    /\ Append(SubSeq(P, i, Len(P)), a) = SubSeq(Append(P, a), i, Len(P) + 1)
    /\ Append(SubSeq(P, i, Len(P)), a)[1] = Append(P, a)[i]

LEMMA FromPlaceIs ==
    ASSUME NEW P \in Seq(Seq(Spoken)), NEW a \in Seq(Spoken), NEW i \in 1..(Len(P) + 1)
    PROVE  FromPlace(P, a, i)
<1>1. PICK R, n, H, B : R = Seq(Spoken) /\ n = Len(P) /\ H = Append(P, a) /\ B = SubSeq(P, i, n)
  OBVIOUS
<1>2. P \in Seq(R) /\ a \in R /\ n \in Nat /\ i \in Nat /\ 1 =< i /\ i =< n + 1
  BY <1>1
<1>3. H \in Seq(R) /\ Len(H) = n + 1 /\ H[n + 1] = a /\ \A j \in 1..n : H[j] = P[j]
  BY <1>1, <1>2, AppendProperties
<1>4. B \in Seq(R)
  <2>1. i \in 1..(Len(P) + 1) /\ n \in 0..Len(P)
    BY <1>1, <1>2
  <2> QED
    BY <1>1, <1>2, <2>1, SubWords
<1>5. PICK G : G = SubSeq(H, i, n + 1)
  OBVIOUS
<1>6. G = SubSeq(H, i, n) \o <<a>> /\ Head(G) = H[i]
  <2>1. PICK m : m = n + 1
    OBVIOUS
  <2>2. i \in 1..Len(H) /\ m \in i..Len(H) /\ m - 1 = n
    <3>1. Len(H) = m /\ m \in Nat
      BY <1>2, <1>3, <2>1
    <3>2. i \in 1..m /\ m \in i..m /\ m - 1 = n
      BY <1>2, <2>1
    <3> QED
      BY <3>1, <3>2
  <2>3. SubSeq(H, i, m) = SubSeq(H, i, m - 1) \o <<H[m]>>
    BY <1>3, <2>2, SubSeqRecursiveSecond
  <2>4. Head(SubSeq(H, i, m)) = H[i]
    BY <1>3, <2>2, HeadTailOfSubSeq
  <2>5. H[m] = a /\ G = SubSeq(H, i, m)
    BY <1>3, <1>5, <2>1
  <2> QED
    BY <2>2, <2>3, <2>4, <2>5, Zenon
<1>7. SubSeq(H, i, n) = B
  <2>1. CASE i = n + 1
    <3>1. n < i /\ i \in Int /\ n \in Int
      BY <1>2, <2>1
    <3> QED
      BY <1>1, <3>1, SubSeqEmpty
  <2>2. CASE i # n + 1
    <3>1. H = P \o <<a>> /\ <<a>> \in Seq(R)
      BY <1>1, <1>2, AppendIsConcat
    <3>2. i \in 1..Len(P) /\ n \in 1..Len(P)
      BY <1>1, <1>2, <2>2
    <3>3. SubSeq(P \o <<a>>, i, n) = SubSeq(P, i, n)
      BY <1>2, <3>1, <3>2, SubSeqOfConcat1
    <3> QED
      BY <1>1, <3>1, <3>3
  <2> QED
    BY <2>1, <2>2
<1>8. Append(B, a) = G
  BY <1>2, <1>4, <1>6, <1>7, AppendIsConcat
<1>9. G[1] = H[i]
  <2>1. Append(B, a) \in Seq(R) /\ Append(B, a) # <<>>
    <3>1. a \in R
      BY <1>2
    <3> QED
      BY <1>4, <3>1, AppendProperties
  <2>2. G \in Seq(R) /\ G # <<>>
    BY <1>8, <2>1, Zenon
  <2> QED
    BY <1>6, <2>2
<1>10. B \in Seq(Seq(Spoken))
  BY <1>1, <1>4
<1> QED
  BY <1>1, <1>5, <1>8, <1>9, <1>10, Zenon DEF FromPlace

\* What stands before the words of the message.
Prefixed(l, c, p, r) ==
    \/ c = 1 /\ p = <<>> /\ l = r
    \/ c = 2 /\ p \in Seq(Spoken) /\ l = (<<Colon>> \o p) \o (<<Space>> \o r)

LEMMA ParsePrefix ==
    ASSUME NEW l, NEW c, NEW p, NEW r, Prefixed(l, c, p, r), Follows(r)
    PROVE  ParseMessage(l) = Rest(p, r)
<1>1. CASE c = 1 /\ p = <<>> /\ l = r
  BY <1>1, ParseUnprefixed
<1>2. CASE c = 2 /\ p \in Seq(Spoken) /\ l = (<<Colon>> \o p) \o (<<Space>> \o r)
  BY <1>2, ParsePrefixed
<1> QED
  BY <1>1, <1>2 DEF Prefixed

LEMMA PrefixIs ==
    ASSUME NEW P \in Seq(Seq(Spoken)), NEW a \in Seq(Spoken), a # <<>>,
           NEW H, H = Append(P, a), H[1] # <<>>, H[1][1] = Colon, Len(P) # 0
    PROVE  Prefixed(LineOf(P, a), 2, Tail(H[1]), LineOf(SubSeq(P, 2, Len(P)), a))
<1>1. PICK R, n, h, p, r :
         R = Seq(Spoken) /\ n = Len(P) /\ h = H[1] /\ p = Tail(H[1]) /\ r = LineOf(SubSeq(P, 2, Len(P)), a)
  OBVIOUS
<1>2. P \in Seq(R) /\ a \in R /\ n \in Nat /\ n # 0 /\ H[1] = P[1] /\ h \in R
  <2>1. P \in Seq(R) /\ a \in R /\ n \in Nat /\ n # 0
    BY <1>1
  <2>2. 1 \in 1..Len(P)
    BY <1>1, <2>1
  <2>3. H[1] = P[1]
    BY <2>1, <2>2, AppendProperties
  <2> QED
    BY <1>1, <2>1, <2>2, <2>3
<1>3. h \in Seq(Spoken) /\ h # <<>> /\ h[1] = Colon
  BY <1>1, <1>2
<1>4. p \in Seq(Spoken) /\ h = <<Colon>> \o p
  BY <1>1, <1>3, Unprepended
<1>5. LineOf(P, a) = Led(SubSeq(P, 1, 1)) \o r
  <2>1. 1 \in 0..Len(P) /\ 1 + 1 = 2
    BY <1>1, <1>2
  <2>2. CutAt(P, a, 1)
    BY <2>1, LineIsCut
  <2> QED
    BY <1>1, <2>1, <2>2 DEF CutAt
<1>6. SubSeq(P, 1, 1) = <<h>>
  <2>1. 1 \in 1..Len(P) /\ 1 \in 1..Len(P) /\ 1 + 1 = 2
    BY <1>1, <1>2
  <2>2. SubSeq(P, 1, 1) = <<P[1]>> \o SubSeq(P, 1 + 1, 1)
    BY <1>2, <2>1, SubSeqRecursiveFirst
  <2>3. SubSeq(P, 2, 1) = <<>>
    BY SubSeqEmpty
  <2>4. <<h>> \o <<>> = <<h>>
    <3>1. <<h>> \in Seq(R)
      BY <1>2
    <3> QED
      BY <3>1, ConcatEmptySeq
  <2> QED
    BY <1>1, <1>2, <2>1, <2>2, <2>3, <2>4, Zenon
<1>7. h \in Seq(Code) /\ r \in Seq(Code) /\ <<Space>> \in Seq(Code) /\ Space \in Code
  <2>1. SubSeq(P, 2, Len(P)) \in Seq(R)
    <3>1. 2 \in 1..(Len(P) + 1) /\ Len(P) \in 0..Len(P)
      BY <1>1, <1>2
    <3> QED
      BY <1>2, <3>1, SubWords
  <2>2. LineEnds(SubSeq(P, 2, Len(P)), a)
    BY <1>1, <2>1, LineIs
  <2> QED
    BY <1>1, <1>3, <2>2, Alphabets, Widen DEF LineEnds, Text
<1>8. Led(<<h>>) = h \o <<Space>>
  BY <1>7, LedOne
<1>9. Regroups(h, <<Space>>, r)
  BY <1>7, Regroup
<1>10. LineOf(P, a) = h \o (<<Space>> \o r)
  BY <1>5, <1>6, <1>8, <1>9, Zenon DEF Regroups
<1> QED
  BY <1>1, <1>4, <1>10 DEF Prefixed

BehindFirst(x, z) == SubSeq(x \o z, Len(x) + 2, Len(x \o z)) = Tail(z)

LEMMA BehindFirstIs ==
    ASSUME NEW S, NEW x \in Seq(S), NEW z \in Seq(S), z # <<>>
    PROVE  BehindFirst(x, z)
<1>1. PICK n, k, t, y : n = Len(x) /\ k = Len(z) /\ t = n + 2 /\ y = x \o z
  OBVIOUS
<1>2. n \in Nat /\ k \in Nat /\ k # 0 /\ Len(y) = n + k /\ y \in Seq(S)
  BY <1>1, EmptySeq, ConcatProperties
<1>3. Tail(z) = SubSeq(z, 2, k)
  BY <1>1, TailIsSubSeq
<1>4. CASE k = 1
  <2>1. SubSeq(z, 2, k) = <<>>
    BY <1>4, SubSeqEmpty
  <2>2. PICK e : e = Len(y)
    OBVIOUS
  <2>3. e \in Int /\ t \in Int /\ e < t
    BY <1>1, <1>2, <1>4, <2>2
  <2>4. SubSeq(y, t, e) = <<>>
    BY <2>3, SubSeqEmpty
  <2> QED
    BY <1>1, <1>3, <2>1, <2>2, <2>4 DEF BehindFirst
<1>5. CASE k # 1
  <2>1. PICK e : e = Len(y)
    OBVIOUS
  <2>2. t \in (Len(x) + 1)..(Len(x) + Len(z)) /\ e \in (Len(x) + 1)..(Len(x) + Len(z))
    BY <1>1, <1>2, <1>5, <2>1
  <2>3. SubSeq(x \o z, t, e) = SubSeq(z, t - Len(x), e - Len(x))
    BY <2>2, SubSeqOfConcat2
  <2>4. t - Len(x) = 2 /\ e - Len(x) = k
    BY <1>1, <1>2, <2>1
  <2> QED
    BY <1>1, <1>3, <2>1, <2>3, <2>4 DEF BehindFirst
<1> QED
  BY <1>4, <1>5

\* Of words that are not empty and hold no colon, the first begins the line.
LEMMA PlainWords ==
    ASSUME NEW V \in Seq(Seq(Spoken)), V # <<>>,
           \A i \in DOMAIN V : V[i] # <<>> /\ Colon \notin Range(V[i])
    PROVE  /\ V \in Seq(Word) /\ V[1] # <<>> /\ V[1][1] # Space /\ V[1][1] # Colon
           /\ \E Q \in Seq(Word), d \in Word : V = Append(Q, d) /\ d # <<>>
<1>1. PICK n, R : n = Len(V) /\ R = Seq(Spoken)
  OBVIOUS
<1>2. n \in Nat /\ n # 0 /\ V \in Seq(R) /\ DOMAIN V = 1..n
  BY <1>1, EmptySeq
<1>3. ASSUME NEW i \in 1..n
      PROVE  V[i] \in Word /\ V[i] # <<>>
  <2>1. PICK w : w = V[i]
    OBVIOUS
  <2>2. w \in Seq(Spoken) /\ w # <<>> /\ Colon \notin Range(w)
    BY <1>1, <1>2, <2>1
  <2>3. PICK k : k = Len(w)
    OBVIOUS
  <2>4. k \in Nat /\ \A j \in 1..k : w[j] \in Plain
    <3>1. Range(w) = {w[j] : j \in 1..Len(w)}
      BY <2>2, RangeEquality
    <3>2. \A j \in 1..k : w[j] \in Spoken /\ w[j] # Colon
      BY <2>2, <2>3, <3>1
    <3>3. k \in Nat
      BY <2>2, <2>3
    <3> QED
      BY <3>2, <3>3 DEF Spoken, Plain
  <2>5. w \in [1..k -> Plain]
    BY <2>2, <2>3, <2>4, LenProperties
  <2> QED
    BY <2>1, <2>2, <2>4, <2>5 DEF Word
<1>4. V \in Seq(Word)
  <2>1. V \in [1..n -> Word]
    BY <1>1, <1>2, <1>3, LenProperties
  <2> QED
    BY <1>2, <2>1
<1>5. V[1] # <<>> /\ V[1][1] \in Plain
  <2>1. PICK w : w = V[1]
    OBVIOUS
  <2>2. w \in Word /\ w # <<>>
    BY <1>2, <1>3, <2>1
  <2>3. Len(w) \in Nat /\ Len(w) # 0
    BY <2>2, EmptySeq DEF Word
  <2> QED
    BY <2>1, <2>2, <2>3 DEF Word
<1>6. \E Q \in Seq(Word), d \in Word : V = Append(Q, d) /\ d # <<>>
  <2>1. PICK Q \in Seq(Word), d \in Word : V = Append(Q, d)
    BY <1>4, SequenceEmptyOrAppend
  <2>2. Len(V) = Len(Q) + 1 /\ V[Len(Q) + 1] = d
    BY <2>1, AppendProperties
  <2>3. d = V[n] /\ n \in 1..n
    BY <1>1, <1>2, <2>2
  <2> QED
    BY <1>3, <2>1, <2>3
<1> QED
  BY <1>4, <1>5, <1>6, Alphabets

\* A line without a parameter that is marked.
LEMMA UnmarkedRest ==
    ASSUME NEW p, NEW Q \in Seq(Word), NEW d \in Word, NEW V, V = Append(Q, d), d # <<>>,
           V[1] # <<>>, V[1][1] # Space, V[1][1] # Colon
    PROVE  Follows(LineOf(Q, d)) /\ Rest(p, LineOf(Q, d)) = Understood(p, V, <<>>)
<1>1. LineEnds(Q, d)
  BY WordsAreSpoken, LineIs
<1>2. Follows(LineOf(Q, d))
  BY <1>1 DEF LineEnds, Trimmed, Follows
<1> QED
  BY <1>2, RestPlain

LEMMA Cancel ==
    ASSUME NEW S, NEW s \in Seq(S), NEW t \in Seq(S), NEW v \in Seq(S), s \o t = s \o v
    PROVE  t = v
BY ConcatSimplifications

\* What is cut behind the words V of the message.
Behind(P, a, c, last, V, A, r) ==
    LET z == LineOf(SubSeq(P, last + 1, Len(P)), a) IN
    /\ r = Led(V) \o z
    /\ LineOf(P, a) = Led(A) \o z

LEMMA BehindIs ==
    ASSUME NEW P \in Seq(Seq(Spoken)), NEW a \in Seq(Spoken), NEW c \in 1..Len(P), NEW last \in c..Len(P),
           NEW V, V = SubSeq(P, c, last), NEW A, A = SubSeq(P, 1, last),
           NEW r, r = LineOf(SubSeq(P, c, Len(P)), a)
    PROVE  Behind(P, a, c, last, V, A, r)
<1>1. PICK R, n, B, z :
         R = Seq(Code) /\ n = Len(P) /\ B = SubSeq(P, 1, c - 1) /\ z = LineOf(SubSeq(P, last + 1, n), a)
  OBVIOUS
<1>2. P \in Seq(R) /\ P \in Seq(Seq(Code)) /\ a \in Seq(Code) /\ n \in Nat /\ Space \in Code
  BY <1>1, Alphabets, Widen
<1>3. /\ 1 \in 1..(Len(P) + 1) /\ c - 1 \in 0..Len(P) /\ c \in 1..(Len(P) + 1) /\ last \in 0..Len(P)
      /\ n \in 0..Len(P) /\ last + 1 \in 1..(Len(P) + 1) /\ c - 1 + 1 = c
      /\ c - 1 \in (1 - 1)..Len(P) /\ last \in (c - 1)..Len(P)
  BY <1>1, <1>2
<1>4. B \in Seq(R) /\ V \in Seq(R) /\ A \in Seq(R)
  BY <1>1, <1>2, <1>3, SubWords
<1>5. SubSeq(P, last + 1, n) \in Seq(Seq(Spoken)) /\ SubSeq(P, c, n) \in Seq(Seq(Spoken))
  <2>1. PICK W : W = Seq(Spoken)
    OBVIOUS
  <2>2. P \in Seq(W)
    BY <2>1
  <2>3. SubSeq(P, last + 1, n) \in Seq(W) /\ SubSeq(P, c, n) \in Seq(W)
    BY <1>3, <2>2, SubWords
  <2> QED
    BY <2>1, <2>3
<1>6. z \in Seq(Code) /\ r \in Seq(Code)
  <2>1. LineEnds(SubSeq(P, last + 1, n), a) /\ LineEnds(SubSeq(P, c, n), a)
    BY <1>5, LineIs
  <2> QED
    BY <1>1, <2>1 DEF LineEnds, Text
<1>7. A = B \o V
  <2>1. SubSeq(P, 1, c - 1) \o SubSeq(P, c - 1 + 1, last) = SubSeq(P, 1, last)
    BY <1>2, <1>3, ConcatAdjacentSubSeq
  <2> QED
    BY <1>1, <1>3, <2>1
<1>8. B \in Seq(Seq(Code)) /\ V \in Seq(Seq(Code)) /\ A \in Seq(Seq(Code))
  BY <1>1, <1>4
<1>9. LedBoth(B, V)
  BY <1>2, <1>8, LedConcat
<1>10. Led(B) \in Seq(Code) /\ Led(V) \in Seq(Code)
  BY <1>2, <1>8, LedText
<1>11. LineOf(P, a) = Led(A) \o z
  <2>1. CutAt(P, a, last)
    BY <1>3, LineIsCut
  <2> QED
    BY <1>1, <2>1 DEF CutAt
<1>12. LineOf(P, a) = Led(B) \o r
  <2>1. CutAt(P, a, c - 1)
    BY <1>3, LineIsCut
  <2> QED
    BY <1>1, <1>3, <2>1 DEF CutAt
<1>13. r = Led(V) \o z
  <2>1. Regroups(Led(B), Led(V), z)
    BY <1>6, <1>10, Regroup
  <2>2. PICK vz : vz = Led(V) \o z
    OBVIOUS
  <2>3. vz \in Seq(Code)
    BY <1>6, <1>10, <2>2
  <2>4. Led(B) \o r = Led(B) \o vz
    BY <1>7, <1>9, <1>11, <1>12, <2>1, <2>2, Zenon DEF LedBoth, Regroups
  <2>5. PICK lb : lb = Led(B)
    OBVIOUS
  <2>6. lb \in Seq(Code) /\ lb \o r = lb \o vz
    BY <1>10, <2>4, <2>5
  <2>7. r = vz
    BY <1>6, <2>3, <2>6, Cancel
  <2> QED
    BY <2>2, <2>7
<1> QED
  BY <1>1, <1>11, <1>13 DEF Behind

ReadMarked(p, V, r, l, A) ==
    Follows(r) /\ Rest(p, r) = Understood(p, V, <<SubSeq(l, Len(Led(A)) + 2, Len(l))>>)

LEMMA MarkedRest ==
    ASSUME NEW P \in Seq(Seq(Spoken)), NEW a \in Seq(Spoken), Trimmed(LineOf(P, a)),
           NEW c \in 1..Len(P), NEW last \in c..Len(P), Append(P, a)[last + 1] # <<>>,
           Append(P, a)[last + 1][1] = Colon,
           NEW Q \in Seq(Word), NEW d \in Word, NEW V, V = Append(Q, d), d # <<>>,
           V[1] # <<>>, V[1][1] # Space, V[1][1] # Colon, V = SubSeq(P, c, last),
           NEW r, r = LineOf(SubSeq(P, c, Len(P)), a),
           NEW l, l = LineOf(P, a), NEW A, A = SubSeq(P, 1, last), NEW p
    PROVE  ReadMarked(p, V, r, l, A)
<1>1. PICK n, z, b : n = Len(P) /\ z = LineOf(SubSeq(P, last + 1, n), a) /\ b = Tail(z)
  OBVIOUS
<1>2. n \in Nat /\ last + 1 \in 1..(Len(P) + 1) /\ last \in 1..Len(P)
  BY <1>1
<1>3. r = Led(V) \o z /\ l = Led(A) \o z
  <2>1. Behind(P, a, c, last, V, A, r)
    BY BehindIs
  <2> QED
    BY <1>1, <2>1 DEF Behind
<1>4. a # <<>> /\ l \in Seq(Code)
  <2>1. LineEnds(P, a)
    BY LineIs
  <2> QED
    BY <2>1 DEF LineEnds, Text
<1>5. z \in Seq(Code) /\ z # <<>> /\ z[1] = Colon
  <2>1. PICK B : B = SubSeq(P, last + 1, n)
    OBVIOUS
  <2>2. B \in Seq(Seq(Spoken)) /\ Append(B, a)[1] = Append(P, a)[last + 1]
    <3>1. FromPlace(P, a, last + 1)
      BY <1>2, FromPlaceIs
    <3> QED
      BY <1>1, <2>1, <3>1 DEF FromPlace
  <2>3. LineEnds(B, a)
    BY <2>2, LineIs
  <2>4. Append(B, a)[1] # <<>> /\ Append(B, a)[1][1] = Colon
    BY <2>2
  <2> QED
    BY <1>1, <1>4, <2>1, <2>3, <2>4 DEF LineEnds, Trimmed, Text
<1>6. b \in Seq(Code) /\ z = <<Colon>> \o b
  BY <1>1, <1>5, Unprepended
<1>7. Led(V) = LineOf(Q, d) \o <<Space>>
  <2>1. LedStep(Q, d)
    BY LedAppend
  <2> QED
    BY <2>1 DEF LedStep, LineOf
<1>8. A \in Seq(Seq(Code))
  <2>1. PICK R : R = Seq(Code)
    OBVIOUS
  <2>2. P \in Seq(R)
    BY <2>1, Alphabets, Widen
  <2>3. 1 \in 1..(Len(P) + 1) /\ last \in 0..Len(P)
    BY <1>1, <1>2
  <2> QED
    BY <2>1, <2>2, <2>3, SubWords
<1>9. SubSeq(l, Len(Led(A)) + 2, Len(l)) = b
  <2>1. Led(A) \in Seq(Code)
    BY <1>8, LedText, Alphabets
  <2>2. BehindFirst(Led(A), z)
    BY <1>5, <2>1, BehindFirstIs
  <2> QED
    BY <1>1, <1>3, <2>2, Zenon DEF BehindFirst
<1>10. Follows(r)
  <2>1. V \in Seq(Word) /\ V # <<>>
    <3>1. Append(Q, d) \in Seq(Word) /\ Append(Q, d) # <<>>
      BY AppendProperties, ZenonT(40)
    <3> QED
      BY <3>1
  <2>2. V \in Seq(Seq(Code)) /\ Space \in Code
    BY <2>1, Alphabets, Widen DEF Word
  <2>3. Led(V) \in Seq(Code) /\ Led(V) # <<>> /\ Led(V)[1] = V[1][1]
    BY <2>1, <2>2, LedEnds DEF FirstOfWord
  <2>4. r \in Seq(Code)
    BY <1>3, <1>5, <2>3
  <2>5. Ends(Led(V), z)
    BY <1>5, <2>3, ConcatEnds
  <2>6. r # <<>> /\ r[1] = V[1][1] /\ r[Len(r)] = z[Len(z)]
    BY <1>3, <1>5, <2>3, <2>5, Zenon DEF Ends
  <2>7. l[Len(l)] = z[Len(z)]
    <3>1. Led(A) \in Seq(Code)
      BY <1>8, LedText, Alphabets
    <3>2. Ends(Led(A), z)
      BY <1>5, <3>1, ConcatEnds
    <3> QED
      BY <1>3, <1>5, <3>2, Zenon DEF Ends
  <2>8. l[Len(l)] # Space
    BY DEF Trimmed
  <2> QED
    BY <2>4, <2>6, <2>7, <2>8 DEF Follows, Text
<1>11. Rest(p, r) = Understood(p, V, <<b>>)
  <2>1. Append(Q, d)[1] # <<>> /\ b \in Text
    BY <1>6 DEF Text
  <2>2. Rest(p, (LineOf(Q, d) \o <<Space>>) \o (<<Colon>> \o b)) = Understood(p, Append(Q, d), <<b>>)
    BY <2>1, RestMarked
  <2> QED
    BY <1>3, <1>6, <1>7, <2>2, Zenon
<1> QED
  BY <1>9, <1>10, <1>11 DEF ReadMarked

LEMMA GrammarOf ==
    ASSUME NEW l \in Text, l # <<>>, TrimSpace(l) = l, NEW m, m = ByGrammar(l), m.words # <<>>,
           \A i \in DOMAIN m.words : m.words[i] # <<>> /\ Colon \notin Range(m.words[i])
    PROVE  ParseMessage(l) = Understood(m.prefix, m.words, m.trailing)
<1>1. Trimmed(l)
  <2>1. TrimOK(l, TrimSpace(l))
    BY TrimIs
  <2> QED
    BY <2>1 DEF TrimOK
<1>2. PICK P \in Seq(Seq(Spoken)), a \in Seq(Spoken) : Split(l, Space) = Append(P, a) /\ l = LineOf(P, a)
  <2>1. l \in Seq(Spoken \cup {Space})
    BY Alphabets DEF Text
  <2>2. SplitsInto(l, Spoken, Split(l, Space))
    BY <2>1, SplitIs, Alphabets
  <2> QED
    BY <2>2 DEF SplitsInto, LineOf
<1>3. PICK R, n, H : R = Seq(Spoken) /\ n = Len(P) /\ H = Append(P, a)
  OBVIOUS
<1>4. PICK c : c = IF H[1][1] = Colon THEN 2 ELSE 1
  OBVIOUS
<1>5. /\ P \in Seq(R) /\ a \in R /\ n \in Nat
      /\ H \in Seq(R) /\ Len(H) = n + 1 /\ H[n + 1] = a /\ \A i \in 1..n : H[i] = P[i]
  <2>1. P \in Seq(R) /\ a \in R /\ n \in Nat
    BY <1>3
  <2> QED
    BY <1>3, <2>1, AppendProperties
<1>6. PICK marked : marked = {i \in c + 1..Len(H) : H[i] # <<>> /\ H[i][1] = Colon}
  OBVIOUS
<1>7. PICK last : last = IF marked = {} THEN Len(H) ELSE Min(marked) - 1
  OBVIOUS
<1>8. PICK t, V, p, tr :
          /\ t = Len(FlattenSeq(SubSeq(H, 1, last))) + last + 2
          /\ V = SubSeq(H, c, last)
          /\ p = IF c = 1 THEN <<>> ELSE Tail(H[1])
          /\ tr = IF marked = {} THEN <<>> ELSE <<SubSeq(l, t, Len(l))>>
  OBVIOUS
<1>9. m = [prefix |-> p, words |-> V, trailing |-> tr]
  <2>1. Split(l, Space) = H
    BY <1>2, <1>3
  <2>2. m = ByGrammar(l)
    OBVIOUS
  <2> QED
    BY <1>4, <1>6, <1>7, <1>8, <2>1, <2>2, ZenonT(60) DEF ByGrammar
<1>10. m.prefix = p /\ m.words = V /\ m.trailing = tr
  BY <1>9
<1>11. a # <<>> /\ H[1] # <<>>
  <2>1. LineEnds(P, a)
    BY LineIs
  <2> QED
    BY <1>1, <1>2, <1>3, <2>1 DEF LineEnds
<1>12. c \in 1..2 /\ marked \in SUBSET (1..(n + 1)) /\ n + 1 \in Nat /\ \A i \in marked : i >= c + 1
  <2>1. c \in 1..2
    BY <1>4
  <2> QED
    BY <1>5, <1>6, <2>1
<1>13. marked # {} => Min(marked) \in marked
  BY <1>12, MinOf
<1>14. /\ last \in c..(n + 1)
       /\ marked = {} => last = n + 1
       /\ marked # {} => last \in c..n /\ last + 1 \in marked
  <2>1. CASE marked = {}
    <3>1. last = n + 1
      BY <1>5, <1>7, <2>1
    <3>2. c <= last
      <4>1. ASSUME last < c
            PROVE  FALSE
        <5>1. last \in Int /\ c \in Int
          BY <1>12, <3>1
        <5>2. V = <<>>
          BY <1>8, <4>1, <5>1, SubSeqEmpty
        <5> QED
          BY <1>10, <5>2
      <4> QED
        BY <1>12, <3>1, <4>1
    <3> QED
      BY <1>12, <2>1, <3>1, <3>2
  <2>2. CASE marked # {}
    <3>1. PICK x : x = Min(marked)
      OBVIOUS
    <3>2. x \in marked /\ last = x - 1
      BY <1>7, <1>13, <2>2, <3>1
    <3>3. x \in 1..(n + 1) /\ x >= c + 1
      BY <1>12, <3>2
    <3>4. last + 1 = x /\ last \in c..n /\ last \in c..(n + 1)
      BY <1>5, <1>12, <3>2, <3>3
    <3> QED
      BY <2>2, <3>2, <3>4
  <2> QED
    BY <2>1, <2>2
<1>15. V \in Seq(Seq(Spoken)) /\ c \in 1..(n + 1)
  <2>1. c \in 1..(n + 1)
    BY <1>5, <1>12, <1>14
  <2>2. c \in 1..(Len(H) + 1) /\ last \in 0..Len(H)
    BY <1>5, <1>12, <1>14
  <2>3. V \in Seq(R)
    BY <1>5, <1>8, <2>2, SubWords
  <2> QED
    BY <1>3, <2>1, <2>3
<1>16. PICK Q \in Seq(Word), d \in Word : V = Append(Q, d) /\ d # <<>>
  BY <1>10, <1>15, PlainWords
<1>17. V[1] # <<>> /\ V[1][1] # Space /\ V[1][1] # Colon
  BY <1>10, <1>15, PlainWords
<1>18. PICK r : r = LineOf(SubSeq(P, c, n), a)
  OBVIOUS
<1>19. Prefixed(l, c, p, r)
  <2>1. CASE c = 1
    <3>1. SubSeq(P, 1, n) = P
      BY <1>3, SubSeqFull
    <3> QED
      BY <1>2, <1>8, <1>18, <2>1, <3>1 DEF Prefixed
  <2>2. CASE c = 2
    <3>1. Len(P) # 0
      BY <1>3, <1>14, <1>5, <2>2
    <3>2. H[1][1] = Colon /\ p = Tail(H[1])
      BY <1>4, <1>8, <2>2
    <3>3. Prefixed(LineOf(P, a), 2, Tail(H[1]), LineOf(SubSeq(P, 2, Len(P)), a))
      BY <1>3, <1>11, <3>1, <3>2, PrefixIs
    <3> QED
      BY <1>2, <1>3, <1>18, <2>2, <3>2, <3>3, Zenon
  <2> QED
    BY <1>12, <2>1, <2>2
<1>20. Follows(r) /\ Rest(p, r) = Understood(p, V, tr)
  <2>1. CASE marked = {}
    <3>1. FromPlace(P, a, c)
      BY <1>3, <1>15, FromPlaceIs
    <3>2. PICK B : B = SubSeq(P, c, n)
      OBVIOUS
    <3>3. B \in Seq(Seq(Spoken)) /\ Append(B, a) = V
      BY <1>3, <1>8, <1>14, <2>1, <3>1, <3>2 DEF FromPlace
    <3>4. B = Q /\ a = d
      <4>1. B \in Seq(R) /\ a \in R
        BY <1>3, <1>5, <3>3
      <4>2. Q \in Seq(Seq(Spoken)) /\ d \in Seq(Spoken)
        BY WordsAreSpoken
      <4>3. Q \in Seq(R) /\ d \in R
        BY <1>3, <4>2
      <4>4. Append(B, a) = Append(Q, d)
        BY <1>16, <3>3
      <4> QED
        BY <4>1, <4>3, <4>4, AppendInjective
    <3>5. Follows(LineOf(Q, d)) /\ Rest(p, LineOf(Q, d)) = Understood(p, V, <<>>)
      BY <1>16, <1>17, UnmarkedRest
    <3> QED
      BY <1>8, <1>18, <2>1, <3>2, <3>4, <3>5
  <2>2. CASE marked # {}
    <3>1. PICK A : A = SubSeq(P, 1, last)
      OBVIOUS
    <3>2. c \in 1..Len(P) /\ last \in c..Len(P) /\ last \in 1..n /\ 1 \in 1..n /\ c \in 1..n
      BY <1>3, <1>5, <1>12, <1>14, <2>2
    <3>3. H[last + 1] # <<>> /\ H[last + 1][1] = Colon
      BY <1>6, <1>14, <2>2
    <3>4. SubSeq(H, 1, last) = A /\ V = SubSeq(P, c, last)
      <4>1. H = P \o <<a>> /\ <<a>> \in Seq(R)
        BY <1>3, <1>5, AppendIsConcat
      <4>2. SubSeq(P \o <<a>>, 1, last) = SubSeq(P, 1, last) /\ SubSeq(P \o <<a>>, c, last) = SubSeq(P, c, last)
        BY <1>3, <1>5, <3>2, <4>1, SubSeqOfConcat1
      <4> QED
        BY <1>8, <3>1, <4>1, <4>2
    <3>5. A \in Seq(Seq(Code)) /\ Len(A) = last
      <4>1. PICK S : S = Seq(Code)
        OBVIOUS
      <4>2. P \in Seq(S)
        BY <4>1, Alphabets, Widen
      <4>3. \A i \in 1..last : P[i] \in S
        BY <1>3, <3>2, <4>2
      <4>4. last \in Int /\ 1 \in Int /\ 1 <= last /\ last - 1 + 1 = last
        BY <1>5, <3>2
      <4>5. A \in Seq(S) /\ Len(A) = last
        BY <3>1, <4>3, <4>4, SubSeqProperties
      <4> QED
        BY <4>1, <4>5
    <3>6. t = Len(Led(A)) + 2
      <4>1. LengthsAdd(A, Code)
        BY <3>5, LengthsAre, Alphabets
      <4>2. FlattenSeq(A) = Fold("flat", <<>>, A)
        BY <3>5, FlattenIsFold
      <4> QED
        BY <1>8, <3>4, <3>5, <4>1, <4>2 DEF LengthsAdd
    <3>7. Follows(r) /\ Rest(p, r) = Understood(p, V, <<SubSeq(l, Len(Led(A)) + 2, Len(l))>>)
      <4>1. Trimmed(LineOf(P, a)) /\ Append(P, a)[last + 1] # <<>> /\ Append(P, a)[last + 1][1] = Colon
        BY <1>1, <1>2, <1>3, <3>3
      <4>2. V = SubSeq(P, c, last) /\ r = LineOf(SubSeq(P, c, Len(P)), a) /\ l = LineOf(P, a)
        BY <1>2, <1>3, <1>18, <3>4
      <4>3. ReadMarked(p, V, r, l, A)
        BY <1>16, <1>17, <3>1, <3>2, <4>1, <4>2, MarkedRest
      <4> QED
        BY <4>3 DEF ReadMarked
    <3> QED
      BY <1>8, <2>2, <3>6, <3>7
  <2> QED
    BY <2>1, <2>2
<1>21. ParseMessage(l) = Rest(p, r)
  BY <1>19, <1>20, ParsePrefix
<1> QED
  BY <1>10, <1>20, <1>21

\* A line without doubled spaces and without a colon inside the command or a
\* parameter, the last one included, is understood as the grammar of RFC 2812 says,
\* however long it is and whatever its words are (parser.go: ParseMessage).  A colon
\* inside a parameter is in the grammar, too, and is not understood.
THEOREM GrammarParsesCorrect == Spec => []GrammarParses
<1>1. LineOK => GrammarParses
  <2> SUFFICES ASSUME line \in Text, NEW m, m = ByGrammar(line), line # <<>>, TrimSpace(line) = line,
                      m.words # <<>>,
                      \A i \in DOMAIN m.words : m.words[i] # <<>> /\ Colon \notin Range(m.words[i])
               PROVE  ParseMessage(line) = Understood(m.prefix, m.words, m.trailing)
    BY DEF LineOK, GrammarParses, Understood
  <2> QED
    BY GrammarOf
<1> QED
  BY <1>1, LineInvariance, PTL

=============================================================================
