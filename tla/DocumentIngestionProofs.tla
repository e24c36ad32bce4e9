------------------------ MODULE DocumentIngestionProofs ------------------------
(***************************************************************************)
(* Proofs about DocumentIngestion, for every number of uploads and any     *)
(* uploaded files: what becomes of files and books, and what the parsers   *)
(* and the segmenter make of any document.  A parser or segmenter is a     *)
(* fold over a sequence; induction over sequences is an induction over     *)
(* the set of those that have a property (SequenceInduction).              *)
(***************************************************************************)
EXTENDS DocumentIngestion, FiniteSums, SequenceTheorems

--------------------------------------------------------------------------------
(* Induction and folds *)

\* Sequences are what appending makes of the empty one.
LEMMA SequenceInduction ==
    ASSUME NEW S, NEW P \in SUBSET Seq(S), <<>> \in P, \A s \in P, x \in S : Append(s, x) \in P
    PROVE  P = Seq(S)
<1> DEFINE N == {n \in Nat : \A s \in Seq(S) : Len(s) = n => s \in P}
<1>1. 0 \in N
    BY EmptySeq
<1>2. ASSUME NEW n \in N PROVE n + 1 \in N
  <2>1. ASSUME NEW s \in Seq(S), Len(s) = n + 1 PROVE s \in P
    <3>1. s # <<>>
        BY <2>1
    <3>2. PICK t \in Seq(S), x \in S : s = Append(t, x)
        BY <3>1, SequenceEmptyOrAppend
    <3>3. Len(t) = n
        BY <2>1, <3>2
    <3> QED
        BY <3>2, <3>3
  <2> QED
      BY <2>1
<1>3. N = Nat
  <2> N \in SUBSET Nat
      OBVIOUS
  <2> HIDE DEF N
  <2> QED
      BY <1>1, <1>2, Induction
<1> QED
    BY <1>3, LenProperties

\* Two functions that go on alike from where they agree, agree.
LEMMA Agreement ==
    ASSUME NEW n \in Nat, NEW F, NEW G, F[0] = G[0],
           \A k \in 1..n : F[k - 1] = G[k - 1] => F[k] = G[k]
    PROVE  F[n] = G[n]
<1> DEFINE N == {k \in Nat : k <= n => F[k] = G[k]}
<1>1. 0 \in N
    OBVIOUS
<1>2. ASSUME NEW k \in N PROVE k + 1 \in N
  <2>1. CASE k + 1 <= n
    <3>1. k \in Nat /\ k + 1 \in 1..n /\ (k + 1) - 1 = k /\ k <= n
        BY <2>1
    <3>2. F[k] = G[k]
        BY <3>1
    <3> QED
        BY <3>1, <3>2
  <2>2. CASE ~(k + 1 <= n)
      BY <2>2
  <2> QED
      BY <2>1, <2>2
<1>3. N = Nat
  <2> N \in SUBSET Nat
      OBVIOUS
  <2> HIDE DEF N
  <2> QED
      BY <1>1, <1>2, Induction
<1> QED
    BY <1>3

\* What a fold has made of the elements up to each place.
Steps(op(_, _), base, seq, F) ==
    F[0] = base /\ \A k \in 1..Len(seq) : F[k] = op(F[k - 1], seq[k])

\* The function a fold is defined by: what it makes of the elements at the places s.
IsFold(op(_, _), base, seq, h) ==
    h = [s \in SUBSET DOMAIN seq |-> IF s = {} THEN base ELSE op(h[s \ {Max(s)}], seq[Max(s)])]

\* A set of numbers up to n has a greatest element.
LEMMA GreatestNumber ==
    ASSUME NEW n \in Nat, NEW s \in SUBSET (1..n), s # {}
    PROVE  Max(s) \in s
<1> DEFINE T == {k \in Nat : n - k \in s}
<1>1. PICK x \in s : TRUE
    OBVIOUS
<1>2. n - x \in T
  <2>1. x \in 1..n
      OBVIOUS
  <2>2. n - x \in Nat /\ n - (n - x) = x
      BY <2>1
  <2> QED
      BY <2>2
<1>3. PICK m \in T : \A k \in T : m <= k
    BY <1>2, LeastNumber
<1>4. ASSUME NEW y \in s PROVE n - m >= y
  <2>1. y \in 1..n
      OBVIOUS
  <2>2. n - y \in Nat /\ n - (n - y) = y
      BY <2>1
  <2> QED
      BY <1>3, <2>1, <2>2
<1>5. n - m \in s
    BY <1>3
<1> QED
    BY <1>4, <1>5 DEF Max

\* The greatest of the first k numbers is k.
LEMMA GreatestOfPrefix ==
    ASSUME NEW k \in Nat \ {0}
    PROVE  Max(1..k) = k /\ (1..k) \ {k} = 1..(k - 1) /\ 1..k # {}
<1>1. Max(1..k) \in 1..k /\ \A x \in 1..k : Max(1..k) >= x
  <2>1. k \in 1..k /\ \A x \in 1..k : k >= x
      OBVIOUS
  <2> QED
      BY <2>1 DEF Max
<1> QED
    BY <1>1

\* What the fold makes of the places s, when h says what it makes of fewer.
Folded(base, step, h, s) == IF s = {} THEN base ELSE step[h[s \ {Max(s)}]][Max(s)]

\* The functions that fold the places up to n, with values in X.
FoldFunctions(n, X, base, step) ==
    {h \in [SUBSET (1..n) -> X] : \A s \in SUBSET (1..n) : h[s] = Folded(base, step, h, s)}

\* A step that stays among the values X defines a fold.
LEMMA FoldExists ==
    ASSUME NEW n \in Nat, NEW X, NEW base \in X, NEW step,
           \A x \in X, i \in 1..n : step[x][i] \in X
    PROVE  FoldFunctions(n, X, base, step) # {}
<1> DEFINE S == 1..n
           Does(h, s) == h[s] = Folded(base, step, h, s)
           N == {k \in Nat : \E h \in [SUBSET S -> X] :
                               \A s \in SUBSET S : Cardinality(s) <= k => Does(h, s)}
<1>1. IsFiniteSet(S)
  <2>1. 1 \in Int /\ n \in Int
      OBVIOUS
  <2> QED
      BY <2>1, FS_Interval
<1>2. \A s \in SUBSET S : IsFiniteSet(s) /\ Cardinality(s) \in Nat /\ Cardinality(s) <= Cardinality(S)
    BY <1>1, FS_Subset, FS_CardinalityType
<1>3. \A s \in SUBSET S : s # {} => /\ Max(s) \in S /\ s \ {Max(s)} \in SUBSET S
                                    /\ Cardinality(s \ {Max(s)}) = Cardinality(s) - 1
    BY <1>2, GreatestNumber, FS_RemoveElement
<1>4. 0 \in N
  <2> DEFINE h == [s \in SUBSET S |-> base]
  <2>1. \A s \in SUBSET S : Cardinality(s) <= 0 => s = {}
      BY <1>2, FS_EmptySet
  <2>2. h \in [SUBSET S -> X] /\ \A s \in SUBSET S : Cardinality(s) <= 0 => Does(h, s)
      BY <2>1 DEF Folded
  <2> QED
      BY <2>2
<1>5. ASSUME NEW k \in N PROVE k + 1 \in N
  <2>1. PICK h \in [SUBSET S -> X] : \A s \in SUBSET S : Cardinality(s) <= k => Does(h, s)
      OBVIOUS
  <2>0. k \in Nat
      OBVIOUS
  <2> DEFINE g == [s \in SUBSET S |-> Folded(base, step, h, s)]
  <2>2. g \in [SUBSET S -> X]
    <3>1. ASSUME NEW s \in SUBSET S PROVE Folded(base, step, h, s) \in X
      <4>1. CASE s = {}
          BY <4>1 DEF Folded
      <4>2. CASE s # {}
        <5>1. h[s \ {Max(s)}] \in X /\ Max(s) \in 1..n
            BY <1>3, <4>2
        <5> QED
            BY <4>2, <5>1 DEF Folded
      <4> QED
          BY <4>1, <4>2
    <3> QED
        BY <3>1
  <2>3. ASSUME NEW s \in SUBSET S, Cardinality(s) <= k + 1 PROVE Does(g, s)
    <3>1. CASE s = {}
        BY <3>1 DEF Folded
    <3>2. CASE s # {}
      <4>1. s \ {Max(s)} \in SUBSET S /\ Cardinality(s \ {Max(s)}) <= k
        <5>1. s \ {Max(s)} \in SUBSET S
            BY <2>3
        <5>2. Cardinality(s \ {Max(s)}) = Cardinality(s) - 1 /\ Cardinality(s) \in Nat
            BY <1>2, <1>3, <2>3, <3>2
        <5> QED
            BY <2>0, <2>3, <5>1, <5>2
      <4>2. g[s \ {Max(s)}] = h[s \ {Max(s)}]
          BY <2>1, <4>1
      <4> QED
          BY <3>2, <4>2 DEF Folded
    <3> QED
        BY <3>1, <3>2
  <2> HIDE DEF g, Does
  <2>4. k + 1 \in Nat
      BY <2>0
  <2> QED
      BY <2>2, <2>3, <2>4
<1>6. N = Nat
  <2> N \in SUBSET Nat
      OBVIOUS
  <2> HIDE DEF N
  <2> QED
      BY <1>4, <1>5, Induction
<1>7. Cardinality(S) \in N
    BY <1>1, <1>6, FS_CardinalityType
<1> QED
    BY <1>2, <1>7 DEF FoldFunctions

--------------------------------------------------------------------------------
(* Sums *)

\* Sums of sequences of numbers are folds of this step.
Adding(a, b) == a + b

\* Sums of numbers are numbers.
LEMMA AddingClosed == 0 \in Nat /\ \A a, b \in Nat : Adding(a, b) \in Nat
BY DEF Adding

\* What Sum(seq) has made of the elements up to each place.
LEMMA SumSteps ==
    ASSUME NEW s \in Seq(Nat)
    PROVE  \E F : Steps(Adding, 0, s, F) /\ Sum(s) = F[Len(s)]
<1> DEFINE n == Len(s)
           H == CHOOSE h : IsFold(Adding, 0, s, h)
           F == [k \in 0..n |-> H[1..k]]
<1>1. Sum(s) = H[DOMAIN s]
    BY Zenon DEF Sum, Adding, FoldLeft, MapThenFoldSet, IsFold
<1>2. DOMAIN s = 1..n /\ n \in Nat /\ \A k \in 1..n : s[k] \in Nat
    OBVIOUS
<1>3. IsFold(Adding, 0, s, H)
  <2> DEFINE step == [a \in Nat |-> [k \in 1..n |-> Adding(a, s[k])]]
  <2> HIDE DEF n
  <2>1. \A a \in Nat, k \in 1..n : step[a][k] = Adding(a, s[k]) /\ step[a][k] \in Nat
      BY <1>2, AddingClosed
  <2>2. PICK h \in FoldFunctions(n, Nat, 0, step) : TRUE
    <3> HIDE DEF step, H, F
    <3>1. n \in Nat /\ 0 \in Nat
        BY <1>2, AddingClosed
    <3> QED
        BY <2>1, <3>1, FoldExists
  <2>3. \A t \in SUBSET (1..n) : t # {} => h[t] = Adding(h[t \ {Max(t)}], s[Max(t)])
      BY <1>2, <2>1, GreatestNumber DEF FoldFunctions, Folded
  <2>4. IsFold(Adding, 0, s, h)
      BY <1>2, <2>3 DEF IsFold, FoldFunctions, Folded
  <2> QED
      BY <2>4, Zenon
<1> HIDE DEF H, n
<1>4. F[0] = 0
    BY <1>2, <1>3 DEF IsFold
<1>5. ASSUME NEW k \in 1..n PROVE F[k] = Adding(F[k - 1], s[k])
  <2>1. 1..k \in SUBSET DOMAIN s /\ k - 1 \in 0..n /\ k \in Nat \ {0}
      BY <1>2
  <2>2. H[1..k] = Adding(H[1..(k - 1)], s[k])
      BY <1>3, <2>1, GreatestOfPrefix DEF IsFold
  <2> QED
      BY <2>1, <2>2
<1>6. Sum(s) = F[n]
    BY <1>1, <1>2
<1> HIDE DEF F
<1>7. Steps(Adding, 0, s, F)
    BY <1>4, <1>5 DEF Steps, n
<1> QED
    BY <1>6, <1>7 DEF n

\* The sum of a sequence that grows.
LEMMA SumAppend ==
     /\ Sum(<<>>) = 0
    /\ \A s \in Seq(Nat), x \in Nat : Sum(Append(s, x)) = Adding(Sum(s), x)
<1>1. Sum(<<>>) = 0
  <2>1. <<>> \in Seq(Nat) /\ Len(<<>>) = 0
      OBVIOUS
  <2>2. PICK F : Steps(Adding, 0, <<>>, F) /\ Sum(<<>>) = F[Len(<<>>)]
      BY <2>1, SumSteps, Zenon
  <2> QED
      BY <2>1, <2>2 DEF Steps
<1>2. ASSUME NEW s \in Seq(Nat), NEW x \in Nat
      PROVE  Sum(Append(s, x)) = Adding(Sum(s), x)
  <2> DEFINE n == Len(s)
             t == Append(s, x)
  <2>1. n \in Nat /\ t \in Seq(Nat) /\ Len(t) = n + 1 /\ t[n + 1] = x /\ \A k \in 1..n : t[k] = s[k]
      OBVIOUS
  <2>2. PICK F : Steps(Adding, 0, s, F) /\ Sum(s) = F[n]
      BY SumSteps, Zenon
  <2>3. PICK G : Steps(Adding, 0, t, G) /\ Sum(t) = G[Len(t)]
      BY <2>1, SumSteps, Zenon
  <2> HIDE DEF t
  <2>4. F[0] = G[0] /\ \A k \in 1..n : F[k - 1] = G[k - 1] => F[k] = G[k]
      BY <2>1, <2>2, <2>3 DEF Steps
  <2>5. F[n] = G[n]
      BY <2>1, <2>4, Agreement
  <2>6. G[n + 1] = Adding(G[n], x)
    <3>1. n + 1 \in 1..Len(t) /\ (n + 1) - 1 = n
        BY <2>1
    <3> QED
        BY <2>1, <2>3, <3>1 DEF Steps
  <2> QED
      BY <2>1, <2>2, <2>3, <2>5, <2>6 DEF t
<1> QED
    BY <1>1, <1>2

--------------------------------------------------------------------------------
(* Words packed into chunks *)

\* What AddWord has made of the first words.
Packed(words) == FoldLeft(AddWord, Empty, words)

\* Chunks that are closed, and the words of the one that is not.
Chunkings == [chunks : Seq(Seq(Words)), current : Seq(Words)]

\* A word more is put in chunks.
LEMMA AddWordClosed == Empty \in Chunkings /\ \A st \in Chunkings, w \in Words : AddWord(st, w) \in Chunkings
<1>1. Empty \in Chunkings
    BY DEF Empty, Chunkings
<1>2. ASSUME NEW st \in Chunkings, NEW w \in Words PROVE AddWord(st, w) \in Chunkings
  <2>1. st.chunks \in Seq(Seq(Words)) /\ st.current \in Seq(Words) /\ <<w>> \in Seq(Words)
        /\ Append(st.current, w) \in Seq(Words)
      BY DEF Chunkings
  <2>2. Close(st) \in Seq(Seq(Words))
      BY <2>1 DEF Close
  <2>3. [chunks |-> Close(st), current |-> <<w>>] \in Chunkings
      BY <2>1, <2>2 DEF Chunkings
  <2>4. [st EXCEPT !.current = Append(st.current, w)] \in Chunkings
      BY <2>1 DEF Chunkings
  <2> QED
      BY <2>3, <2>4 DEF AddWord
<1> QED
    BY <1>1, <1>2

\* What Packed(seq) has made of the elements up to each place.
LEMMA PackedSteps ==
    ASSUME NEW s \in Seq(Words)
    PROVE  \E F : Steps(AddWord, Empty, s, F) /\ Packed(s) = F[Len(s)]
<1> DEFINE n == Len(s)
           H == CHOOSE h : IsFold(AddWord, Empty, s, h)
           F == [k \in 0..n |-> H[1..k]]
<1>1. Packed(s) = H[DOMAIN s]
    BY Zenon DEF Packed, FoldLeft, MapThenFoldSet, IsFold
<1>2. DOMAIN s = 1..n /\ n \in Nat /\ \A k \in 1..n : s[k] \in Words
    OBVIOUS
<1>3. IsFold(AddWord, Empty, s, H)
  <2> DEFINE step == [a \in Chunkings |-> [k \in 1..n |-> AddWord(a, s[k])]]
  <2> HIDE DEF n
  <2>1. \A a \in Chunkings, k \in 1..n : step[a][k] = AddWord(a, s[k]) /\ step[a][k] \in Chunkings
      BY <1>2, AddWordClosed
  <2>2. PICK h \in FoldFunctions(n, Chunkings, Empty, step) : TRUE
    <3> HIDE DEF step, H, F
    <3>1. n \in Nat /\ Empty \in Chunkings
        BY <1>2, AddWordClosed
    <3> QED
        BY <2>1, <3>1, FoldExists
  <2>3. \A t \in SUBSET (1..n) : t # {} => h[t] = AddWord(h[t \ {Max(t)}], s[Max(t)])
      BY <1>2, <2>1, GreatestNumber DEF FoldFunctions, Folded
  <2>4. IsFold(AddWord, Empty, s, h)
      BY <1>2, <2>3 DEF IsFold, FoldFunctions, Folded
  <2> QED
      BY <2>4, Zenon
<1> HIDE DEF H, n
<1>4. F[0] = Empty
    BY <1>2, <1>3 DEF IsFold
<1>5. ASSUME NEW k \in 1..n PROVE F[k] = AddWord(F[k - 1], s[k])
  <2>1. 1..k \in SUBSET DOMAIN s /\ k - 1 \in 0..n /\ k \in Nat \ {0}
      BY <1>2
  <2>2. H[1..k] = AddWord(H[1..(k - 1)], s[k])
      BY <1>3, <2>1, GreatestOfPrefix DEF IsFold
  <2> QED
      BY <2>1, <2>2
<1>6. Packed(s) = F[n]
    BY <1>1, <1>2
<1> HIDE DEF F
<1>7. Steps(AddWord, Empty, s, F)
    BY <1>4, <1>5 DEF Steps, n
<1> QED
    BY <1>6, <1>7 DEF n

\* One word more.
LEMMA PackedAppend ==
     /\ Packed(<<>>) = Empty
    /\ \A s \in Seq(Words), x \in Words : Packed(Append(s, x)) = AddWord(Packed(s), x)
<1>1. Packed(<<>>) = Empty
  <2>1. <<>> \in Seq(Words) /\ Len(<<>>) = 0
      OBVIOUS
  <2>2. PICK F : Steps(AddWord, Empty, <<>>, F) /\ Packed(<<>>) = F[Len(<<>>)]
      BY <2>1, PackedSteps, Zenon
  <2> QED
      BY <2>1, <2>2 DEF Steps
<1>2. ASSUME NEW s \in Seq(Words), NEW x \in Words
      PROVE  Packed(Append(s, x)) = AddWord(Packed(s), x)
  <2> DEFINE n == Len(s)
             t == Append(s, x)
  <2>1. n \in Nat /\ t \in Seq(Words) /\ Len(t) = n + 1 /\ t[n + 1] = x /\ \A k \in 1..n : t[k] = s[k]
      OBVIOUS
  <2>2. PICK F : Steps(AddWord, Empty, s, F) /\ Packed(s) = F[n]
      BY PackedSteps, Zenon
  <2>3. PICK G : Steps(AddWord, Empty, t, G) /\ Packed(t) = G[Len(t)]
      BY <2>1, PackedSteps, Zenon
  <2> HIDE DEF t
  <2>4. F[0] = G[0] /\ \A k \in 1..n : F[k - 1] = G[k - 1] => F[k] = G[k]
      BY <2>1, <2>2, <2>3 DEF Steps
  <2>5. F[n] = G[n]
      BY <2>1, <2>4, Agreement
  <2>6. G[n + 1] = AddWord(G[n], x)
    <3>1. n + 1 \in 1..Len(t) /\ (n + 1) - 1 = n
        BY <2>1
    <3> QED
        BY <2>1, <2>3, <3>1 DEF Steps
  <2> QED
      BY <2>1, <2>2, <2>3, <2>5, <2>6 DEF t
<1> QED
    BY <1>1, <1>2

--------------------------------------------------------------------------------
(* Sequences joined *)

\* The function that joins the first sequences, up to each place.
IsJoining(seqs, h) ==
    h = [i \in 1..Len(seqs) |-> IF i = 1 THEN seqs[i] ELSE h[i - 1] \o seqs[i]]

\* There is a function that joins the first sequences.
LEMMA JoiningExists ==
    ASSUME NEW S, NEW seqs \in Seq(Seq(S))
    PROVE  \E h \in [1..Len(seqs) -> Seq(S)] : IsJoining(seqs, h)
<1> DEFINE n == Len(seqs)
           Does(h, i) == h[i] = IF i = 1 THEN seqs[i] ELSE h[i - 1] \o seqs[i]
           N == {k \in Nat : \E h \in [1..n -> Seq(S)] : \A i \in 1..n : i <= k => Does(h, i)}
<1>1. n \in Nat /\ \A i \in 1..n : seqs[i] \in Seq(S)
    OBVIOUS
<1> HIDE DEF n
<1>2. 0 \in N
  <2> DEFINE h == [i \in 1..n |-> <<>>]
  <2>1. h \in [1..n -> Seq(S)] /\ \A i \in 1..n : ~(i <= 0)
      BY <1>1
  <2> QED
      BY <2>1
<1>3. ASSUME NEW k \in N PROVE k + 1 \in N
  <2>1. PICK h \in [1..n -> Seq(S)] : \A i \in 1..n : i <= k => Does(h, i)
      OBVIOUS
  <2>2. k \in Nat
      OBVIOUS
  <2> DEFINE g == [i \in 1..n |-> IF i = 1 THEN seqs[i] ELSE h[i - 1] \o seqs[i]]
  <2>3. g \in [1..n -> Seq(S)]
    <3>1. ASSUME NEW i \in 1..n, i # 1 PROVE h[i - 1] \o seqs[i] \in Seq(S)
      <4>1. i - 1 \in 1..n
          BY <1>1, <3>1
      <4>2. h[i - 1] \in Seq(S) /\ seqs[i] \in Seq(S)
          BY <1>1, <4>1
      <4> QED
          BY <4>2
    <3> QED
        BY <1>1, <3>1
  <2>4. ASSUME NEW i \in 1..n, i <= k + 1 PROVE Does(g, i)
    <3>1. CASE i = 1
        BY <3>1
    <3>2. CASE i # 1
      <4>1. i - 1 \in 1..n /\ i - 1 <= k
          BY <1>1, <2>2, <2>4, <3>2
      <4>2. g[i - 1] = h[i - 1]
          BY <2>1, <4>1
      <4> QED
          BY <3>2, <4>2
    <3> QED
        BY <3>1, <3>2
  <2> HIDE DEF g, Does
  <2>5. k + 1 \in Nat
      BY <2>2
  <2> QED
      BY <2>3, <2>4, <2>5
<1>4. N = Nat
  <2> N \in SUBSET Nat
      OBVIOUS
  <2> HIDE DEF N
  <2> QED
      BY <1>2, <1>3, Induction
<1>5. PICK h \in [1..n -> Seq(S)] : \A i \in 1..n : Does(h, i)
  <2>1. n \in N
    <3> HIDE DEF N
    <3> QED
        BY <1>1, <1>4
  <2>2. \A i \in 1..n : i <= n
      BY <1>1
  <2> HIDE DEF Does
  <2> QED
      BY <2>1, <2>2
<1>6. h = [i \in 1..n |-> IF i = 1 THEN seqs[i] ELSE h[i - 1] \o seqs[i]]
    BY <1>5
<1> QED
    BY <1>5, <1>6 DEF IsJoining, n

\* Joined is what it makes of all of them.
LEMMA JoinedSteps ==
    ASSUME NEW S, NEW seqs \in Seq(Seq(S)), seqs # <<>>
    PROVE  \E F : /\ F[1] = seqs[1]
                  /\ \A i \in 2..Len(seqs) : F[i] = F[i - 1] \o seqs[i]
                  /\ Joined(seqs) = F[Len(seqs)]
<1> DEFINE F == CHOOSE h : IsJoining(seqs, h)
<1>1. Len(seqs) \in Nat \ {0}
    OBVIOUS
<1>2. ~(Len(seqs) = 0)
    BY <1>1
<1>3. Joined(seqs) = F[Len(seqs)]
    BY <1>2, Zenon DEF Joined, FlattenSeq, IsJoining
<1>4. IsJoining(seqs, F)
    BY JoiningExists, Zenon
<1> HIDE DEF F
<1>5. F[1] = seqs[1] /\ \A i \in 2..Len(seqs) : F[i] = F[i - 1] \o seqs[i]
  <2>1. F[1] = seqs[1]
      BY <1>1, <1>4 DEF IsJoining
  <2>2. ASSUME NEW i \in 2..Len(seqs) PROVE F[i] = F[i - 1] \o seqs[i]
    <3>1. i \in 1..Len(seqs) /\ i # 1
        BY <1>1
    <3> QED
        BY <1>4, <3>1 DEF IsJoining
  <2> QED
      BY <2>1, <2>2
<1> QED
    BY <1>3, <1>5

\* Nothing joined is empty, and one sequence more is put at the end.
LEMMA JoinedAppend ==
    ASSUME NEW S
    PROVE  /\ Joined(<<>>) = <<>>
           /\ \A seqs \in Seq(Seq(S)), s \in Seq(S) : Joined(Append(seqs, s)) = Joined(seqs) \o s
<1>1. Joined(<<>>) = <<>>
    BY DEF Joined, FlattenSeq
<1>2. ASSUME NEW seqs \in Seq(Seq(S)), NEW s \in Seq(S)
      PROVE  Joined(Append(seqs, s)) = Joined(seqs) \o s
  <2> DEFINE n == Len(seqs)
             t == Append(seqs, s)
  <2>1. n \in Nat /\ t \in Seq(Seq(S)) /\ Len(t) = n + 1 /\ t[n + 1] = s /\ t # <<>>
        /\ \A k \in 1..n : t[k] = seqs[k]
    <3>1. n \in Nat
        BY LenProperties
    <3>2. Len(t) = n + 1 /\ t[n + 1] = s /\ t # <<>> /\ t \in Seq(Seq(S))
        BY AppendProperties
    <3>3. \A k \in 1..n : t[k] = seqs[k]
        BY AppendProperties
    <3> QED
        BY <3>1, <3>2, <3>3
  <2>2. PICK G : /\ G[1] = t[1]
                 /\ \A i \in 2..Len(t) : G[i] = G[i - 1] \o t[i]
                 /\ Joined(t) = G[Len(t)]
      BY <2>1, JoinedSteps, Zenon
  <2> HIDE DEF t
  <2>3. CASE seqs = <<>>
    <3>1. Joined(t) = s
        BY <2>1, <2>2, <2>3
    <3> QED
        BY <1>1, <2>3, <3>1 DEF t
  <2>4. CASE seqs # <<>>
    <3>1. PICK F : /\ F[1] = seqs[1]
                   /\ \A i \in 2..n : F[i] = F[i - 1] \o seqs[i]
                   /\ Joined(seqs) = F[n]
        BY <2>4, JoinedSteps, Zenon
    <3> DEFINE F1 == [k \in Nat |-> F[k + 1]]
               G1 == [k \in Nat |-> G[k + 1]]
    <3>2. n - 1 \in Nat /\ n >= 1
        BY <2>1, <2>4
    <3>3. F1[0] = G1[0]
        BY <2>1, <2>2, <3>1, <3>2
    <3>4. ASSUME NEW k \in 1..(n - 1), F1[k - 1] = G1[k - 1] PROVE F1[k] = G1[k]
      <4>1. k + 1 \in 2..n /\ k + 1 \in 2..Len(t) /\ (k + 1) - 1 = k /\ (k - 1) + 1 = k
            /\ k \in Nat /\ k - 1 \in Nat
          BY <2>1, <3>2
      <4>2. F[k] = G[k]
          BY <3>4, <4>1
      <4>3. F[k + 1] = F[k] \o seqs[k + 1] /\ G[k + 1] = G[k] \o t[k + 1]
          BY <2>2, <3>1, <4>1
      <4>4. F1[k] = F[k + 1] /\ G1[k] = G[k + 1]
          BY <4>1
      <4>5. t[k + 1] = seqs[k + 1]
          BY <2>1, <4>1
      <4> QED
          BY <4>2, <4>3, <4>4, <4>5
    <3>5. F1[n - 1] = G1[n - 1]
      <4> HIDE DEF F1, G1
      <4> QED
          BY <3>2, <3>3, <3>4, Agreement
    <3>6. F[n] = G[n]
        BY <2>1, <3>2, <3>5
    <3>7. G[n + 1] = G[n] \o s
      <4>1. n + 1 \in 2..Len(t) /\ (n + 1) - 1 = n
          BY <2>1, <3>2
      <4> QED
          BY <2>1, <2>2, <4>1
    <3> QED
        BY <2>1, <2>2, <3>1, <3>6, <3>7 DEF t
  <2> QED
      BY <2>3, <2>4
<1> QED
    BY <1>1, <1>2

\* What is joined is a sequence, whatever the order in which it is joined.
LEMMA JoinedType ==
    ASSUME NEW S, NEW seqs \in Seq(Seq(S))
    PROVE  Joined(seqs) \in Seq(S)
<1> DEFINE P == {q \in Seq(Seq(S)) : Joined(q) \in Seq(S)}
<1>1. <<>> \in P
  <2>1. Joined(<<>>) = <<>>
      BY JoinedAppend, Zenon
  <2>2. <<>> \in Seq(S) /\ <<>> \in Seq(Seq(S))
      OBVIOUS
  <2> QED
      BY <2>1, <2>2
<1>2. ASSUME NEW q \in P, NEW s \in Seq(S) PROVE Append(q, s) \in P
  <2>1. q \in Seq(Seq(S)) /\ Joined(q) \in Seq(S)
      OBVIOUS
  <2>2. Append(q, s) \in Seq(Seq(S)) /\ Joined(q) \o s \in Seq(S)
      BY <2>1, AppendProperties, ConcatProperties
  <2>3. Joined(Append(q, s)) = Joined(q) \o s
      BY <2>1, JoinedAppend
  <2> QED
      BY <2>2, <2>3
<1>3. P = Seq(Seq(S))
  <2> P \in SUBSET Seq(Seq(S))
      OBVIOUS
  <2> HIDE DEF P
  <2> QED
      BY <1>1, <1>2, SequenceInduction
<1> QED
    BY <1>3

\* Three sequences in a row may be joined in either order.
Grouped(s, t, u) == (s \o t) \o u = s \o (t \o u)

LEMMA GroupedAlways ==
    ASSUME NEW S, NEW s \in Seq(S), NEW t \in Seq(S), NEW u \in Seq(S)
    PROVE  Grouped(s, t, u)
BY ConcatAssociative DEF Grouped

\* Two joins in a row are a join of all.
LEMMA JoinedConcat ==
    ASSUME NEW S, NEW a \in Seq(Seq(S)), NEW b \in Seq(Seq(S))
    PROVE  Joined(a \o b) = Joined(a) \o Joined(b)
<1> DEFINE P == {q \in Seq(Seq(S)) : Joined(a \o q) = Joined(a) \o Joined(q)}
<1>1. <<>> \in P
  <2>1. Joined(a) \in Seq(S) /\ a \o <<>> = a
      BY JoinedType
  <2>2. Joined(a) \o <<>> = Joined(a) /\ Joined(<<>>) = <<>>
      BY <2>1, JoinedAppend
  <2> QED
      BY <2>1, <2>2
<1>2. ASSUME NEW q \in P, NEW s \in Seq(S) PROVE Append(q, s) \in P
  <2>1. q \in Seq(Seq(S)) /\ Append(q, s) \in Seq(Seq(S)) /\ a \o q \in Seq(Seq(S))
        /\ a \o Append(q, s) = Append(a \o q, s)
      OBVIOUS
  <2>2. Joined(a) \in Seq(S) /\ Joined(q) \in Seq(S)
      BY <2>1, JoinedType
  <2>3. Joined(a \o Append(q, s)) = (Joined(a) \o Joined(q)) \o s
    <3>1. Joined(a \o q) = Joined(a) \o Joined(q)
        OBVIOUS
    <3>2. PICK p \in Seq(Seq(S)) : p = a \o q
        BY <2>1
    <3> HIDE DEF P
    <3>3. Joined(Append(p, s)) = Joined(p) \o s
        BY JoinedAppend
    <3> QED
        BY <2>1, <3>1, <3>2, <3>3
  <2>4. Joined(Append(q, s)) = Joined(q) \o s
      BY <2>1, JoinedAppend
  <2>5. (Joined(a) \o Joined(q)) \o s = Joined(a) \o (Joined(q) \o s)
    <3>1. s \in Seq(S)
        OBVIOUS
    <3> HIDE DEF P
    <3>2. Grouped(Joined(a), Joined(q), s)
        BY <2>2, <3>1, GroupedAlways
    <3> QED
        BY <3>2 DEF Grouped
  <2> QED
      BY <2>1, <2>3, <2>4, <2>5
<1>3. P = Seq(Seq(S))
  <2> P \in SUBSET Seq(Seq(S))
      OBVIOUS
  <2> HIDE DEF P
  <2> QED
      BY <1>1, <1>2, SequenceInduction
<1> QED
    BY <1>3

\* A sequence of which one part is not empty is not empty when it is joined.
LEMMA JoinedNotEmpty ==
    ASSUME NEW S, NEW seqs \in Seq(Seq(S)), NEW i \in 1..Len(seqs), seqs[i] # <<>>
    PROVE  Joined(seqs) # <<>>
<1> DEFINE P == {q \in Seq(Seq(S)) : (\E j \in 1..Len(q) : q[j] # <<>>) => Joined(q) # <<>>}
<1>1. <<>> \in P
    OBVIOUS
<1>2. ASSUME NEW q \in P, NEW s \in Seq(S) PROVE Append(q, s) \in P
  <2>1. q \in Seq(Seq(S)) /\ Append(q, s) \in Seq(Seq(S)) /\ Joined(Append(q, s)) = Joined(q) \o s
    <3>1. q \in Seq(Seq(S)) /\ Append(q, s) \in Seq(Seq(S))
        OBVIOUS
    <3> HIDE DEF P
    <3> QED
        BY <3>1, JoinedAppend
  <2>2. SUFFICES ASSUME NEW j \in 1..Len(Append(q, s)), Append(q, s)[j] # <<>>
                 PROVE  Joined(q) \o s # <<>>
      BY <2>1
  <2>3. Joined(q) \in Seq(S)
      BY <2>1, JoinedType
  <2>4. s # <<>> \/ Joined(q) # <<>>
    <3>1. Len(q) \in Nat /\ Len(Append(q, s)) = Len(q) + 1 /\ Append(q, s)[Len(q) + 1] = s
        BY <2>1, AppendProperties, LenProperties
    <3>2. \A k \in 1..Len(q) : Append(q, s)[k] = q[k]
        BY <2>1, AppendProperties
    <3>3. CASE j \in 1..Len(q)
        BY <2>1, <2>2, <3>2, <3>3
    <3>4. CASE j \notin 1..Len(q)
      <4>1. j = Len(q) + 1
          BY <3>1, <3>4
      <4> QED
          BY <2>2, <3>1, <4>1
    <3> QED
        BY <3>3, <3>4
  <2> QED
      BY <2>3, <2>4, ConcatEqualIffEmpty
<1>3. P = Seq(Seq(S))
  <2> P \in SUBSET Seq(Seq(S))
      OBVIOUS
  <2> HIDE DEF P
  <2> QED
      BY <1>1, <1>2, SequenceInduction
<1> QED
    BY <1>3

\* Each part joined.
Inner(p) == [i \in DOMAIN p |-> Joined(p[i])]

\* One part more is joined.
LEMMA InnerAppend ==
    ASSUME NEW S, NEW p \in Seq(Seq(Seq(S))), NEW e \in Seq(Seq(S))
    PROVE  /\ Inner(p) \in Seq(Seq(S)) /\ Joined(e) \in Seq(S)
           /\ Inner(Append(p, e)) = Append(Inner(p), Joined(e))
<1> DEFINE n == Len(p)
           t == Append(p, e)
<1>1. n \in Nat /\ DOMAIN p = 1..n /\ \A i \in 1..n : p[i] \in Seq(Seq(S))
    BY LenProperties, ElementOfSeq
<1>2. t \in Seq(Seq(Seq(S))) /\ Len(t) = n + 1 /\ t[n + 1] = e
    BY AppendProperties
<1>3. \A i \in 1..n : t[i] = p[i]
    BY AppendProperties
<1>4. DOMAIN t = 1..(n + 1)
    BY <1>2, LenProperties
<1>5. (\A i \in 1..n : Joined(p[i]) \in Seq(S)) /\ Joined(e) \in Seq(S)
    BY <1>1, JoinedType
<1> HIDE DEF n, t
<1>6. Inner(p) = [i \in 1..n |-> Joined(p[i])] /\ Inner(p) \in Seq(Seq(S)) /\ Len(Inner(p)) = n
    BY <1>1, <1>5 DEF Inner
<1>7. Inner(t) = [i \in 1..(n + 1) |-> Joined(t[i])] /\ Inner(t) \in Seq(Seq(S)) /\ Len(Inner(t)) = n + 1
  <2>1. \A i \in 1..(n + 1) : i \in 1..n \/ i = n + 1
      BY <1>1
  <2>2. \A i \in 1..(n + 1) : Joined(t[i]) \in Seq(S)
      BY <1>2, <1>3, <1>5, <2>1
  <2>3. PICK m \in Nat : m = n + 1
      BY <1>1
  <2>4. Inner(t) = [i \in 1..m |-> Joined(t[i])]
      BY <1>4, <2>3 DEF Inner
  <2>5. \A i \in 1..m : Joined(t[i]) \in Seq(S)
      BY <2>2, <2>3
  <2>6. Inner(t) \in Seq(Seq(S)) /\ Len(Inner(t)) = m
      BY <2>4, <2>5
  <2> QED
      BY <2>3, <2>4, <2>6
<1>8. /\ Append(Inner(p), Joined(e)) \in Seq(Seq(S)) /\ Len(Append(Inner(p), Joined(e))) = n + 1
      /\ Append(Inner(p), Joined(e))[n + 1] = Joined(e)
  <2>1. PICK a : a = Inner(p)
      OBVIOUS
  <2>2. PICK b : b = Joined(e)
      OBVIOUS
  <2>3. a \in Seq(Seq(S)) /\ b \in Seq(S) /\ Len(a) = n
      BY <1>5, <1>6, <2>1, <2>2
  <2>4. Append(a, b) \in Seq(Seq(S)) /\ Len(Append(a, b)) = n + 1 /\ Append(a, b)[n + 1] = b
      BY <2>3, AppendProperties
  <2> QED
      BY <2>1, <2>2, <2>4
<1>9. \A i \in 1..n : Append(Inner(p), Joined(e))[i] = Inner(p)[i]
  <2>1. PICK a : a = Inner(p)
      OBVIOUS
  <2>2. PICK b : b = Joined(e)
      OBVIOUS
  <2>3. a \in Seq(Seq(S)) /\ b \in Seq(S) /\ Len(a) = n
      BY <1>5, <1>6, <2>1, <2>2
  <2>4. \A i \in 1..n : Append(a, b)[i] = a[i]
      BY <2>3, AppendProperties
  <2> QED
      BY <2>1, <2>2, <2>4
<1>10. ASSUME NEW i \in 1..(n + 1) PROVE Inner(t)[i] = Append(Inner(p), Joined(e))[i]
  <2>1. Inner(t)[i] = Joined(t[i])
      BY <1>7
  <2>2. CASE i \in 1..n
    <3>1. t[i] = p[i] /\ Append(Inner(p), Joined(e))[i] = Inner(p)[i]
        BY <1>3, <1>9, <2>2
    <3>2. Inner(p)[i] = Joined(p[i])
        BY <1>6, <2>2
    <3> QED
        BY <2>1, <3>1, <3>2
  <2>3. CASE i \notin 1..n
    <3>1. i = n + 1
        BY <1>1, <2>3
    <3> QED
        BY <1>2, <1>8, <2>1, <3>1
  <2> QED
      BY <2>2, <2>3
<1>11. Inner(t) = Append(Inner(p), Joined(e))
  <2> DEFINE u == Inner(t)
             v == Append(Inner(p), Joined(e))
  <2>1. u \in Seq(Seq(S)) /\ v \in Seq(Seq(S)) /\ Len(u) = Len(v) /\ \A i \in 1..Len(u) : u[i] = v[i]
      BY <1>7, <1>8, <1>10
  <2> HIDE DEF u, v
  <2>2. u = v
      BY <2>1, SeqEqual
  <2> QED
      BY <2>2 DEF u, v
<1> QED
    BY <1>5, <1>6, <1>11 DEF t

\* It does not matter whether the parts or the whole are joined first.
LEMMA JoinedTwice ==
    ASSUME NEW S, NEW p \in Seq(Seq(Seq(S)))
    PROVE  Joined(Joined(p)) = Joined(Inner(p))
<1> DEFINE P == {q \in Seq(Seq(Seq(S))) : Joined(Joined(q)) = Joined(Inner(q))}
<1>1. <<>> \in P
  <2>1. Joined(<<>>) = <<>>
      BY JoinedAppend, Zenon
  <2>2. Inner(<<>>) = <<>>
      BY DEF Inner
  <2> QED
      BY <2>1, <2>2
<1>2. ASSUME NEW q \in P, NEW e \in Seq(Seq(S)) PROVE Append(q, e) \in P
  <2>1. q \in Seq(Seq(Seq(S))) /\ Joined(Joined(q)) = Joined(Inner(q))
      OBVIOUS
  <2>2. Append(q, e) \in Seq(Seq(Seq(S)))
      BY <2>1, AppendProperties
  <2>3. Joined(Append(q, e)) = Joined(q) \o e /\ Joined(q) \in Seq(Seq(S))
      BY <2>1, JoinedAppend, JoinedType
  <2>4. Joined(Joined(q) \o e) = Joined(Joined(q)) \o Joined(e)
      BY <2>3, JoinedConcat
  <2>5. Inner(Append(q, e)) = Append(Inner(q), Joined(e)) /\ Inner(q) \in Seq(Seq(S)) /\ Joined(e) \in Seq(S)
      BY <2>1, InnerAppend
  <2>6. Joined(Append(Inner(q), Joined(e))) = Joined(Inner(q)) \o Joined(e)
      BY <2>5, JoinedAppend
  <2> QED
      BY <2>1, <2>2, <2>3, <2>4, <2>5, <2>6
<1>3. P = Seq(Seq(Seq(S)))
  <2> P \in SUBSET Seq(Seq(Seq(S)))
      OBVIOUS
  <2> HIDE DEF P
  <2> QED
      BY <1>1, <1>2, SequenceInduction
<1> QED
    BY <1>3

--------------------------------------------------------------------------------
(* Segments *)

\* What may be a segment.
Usable == {c \in Sentences : Len(c) = 1 \/ Chars(c) \in 1..HardLimit}

\* A sequence of words has at least as many characters as words.
LEMMA CharsOfWords ==
    ASSUME NEW words \in Seq(Words)
    PROVE  Chars(words) \in Nat /\ (words # <<>> => Chars(words) >= 1)
<1> DEFINE P == {s \in Seq(Words) : Sum(s) \in Nat /\ Sum(s) >= Len(s)}
<1>1. <<>> \in P
  <2>1. Sum(<<>>) = 0
      BY SumAppend
  <2> QED
      BY <2>1
<1>2. ASSUME NEW s \in P, NEW w \in Words PROVE Append(s, w) \in P
  <2>1. s \in Seq(Words) /\ w \in Nat /\ w >= 1 /\ Sum(s) \in Nat /\ Sum(s) >= Len(s) /\ Len(s) \in Nat
      BY DEF Words
  <2>2. s \in Seq(Nat)
      BY <2>1, SeqMonotonic DEF Words
  <2>3. Sum(Append(s, w)) = Sum(s) + w
      BY <2>1, <2>2, SumAppend DEF Adding
  <2>4. Append(s, w) \in Seq(Words) /\ Len(Append(s, w)) = Len(s) + 1
      BY <2>1, AppendProperties
  <2> QED
      BY <2>1, <2>3, <2>4
<1>3. P = Seq(Words)
  <2> P \in SUBSET Seq(Words)
      OBVIOUS
  <2> HIDE DEF P
  <2> QED
      BY <1>1, <1>2, SequenceInduction
<1>4. Sum(words) \in Nat /\ Sum(words) >= Len(words) /\ Len(words) \in Nat /\ (words # <<>> => Len(words) >= 1)
    BY <1>3
<1> QED
    BY <1>4 DEF Chars

\* Closing a chunk keeps its words.
LEMMA Closed ==
    ASSUME NEW st \in Chunkings
    PROVE  /\ Close(st) \in Seq(Seq(Words))
           /\ Joined(Close(st)) = Joined(st.chunks) \o st.current
           /\ st.current # <<>> => Close(st) # <<>>
           /\ \A C \in SUBSET Seq(Words) :
                st.chunks \in Seq(C) /\ st.current \in C \cup {<<>>} => Close(st) \in Seq(C)
<1>1. st.chunks \in Seq(Seq(Words)) /\ st.current \in Seq(Words) /\ Joined(st.chunks) \in Seq(Words)
    BY JoinedType DEF Chunkings
<1>2. CASE st.current = <<>>
  <2>1. Joined(st.chunks) \o <<>> = Joined(st.chunks)
      BY <1>1, ConcatEmptySeq
  <2> QED
      BY <1>1, <1>2, <2>1 DEF Close
<1>3. CASE st.current # <<>>
  <2>1. Close(st) = Append(st.chunks, st.current)
      BY <1>3 DEF Close
  <2>2. Close(st) \in Seq(Seq(Words)) /\ Close(st) # <<>>
      BY <1>1, <2>1, AppendProperties
  <2>3. Joined(Close(st)) = Joined(st.chunks) \o st.current
      BY <1>1, <2>1, JoinedAppend
  <2>4. ASSUME NEW C \in SUBSET Seq(Words), st.chunks \in Seq(C), st.current \in C \cup {<<>>}
        PROVE  Close(st) \in Seq(C)
      BY <1>3, <2>1, <2>4, AppendProperties
  <2> QED
      BY <2>2, <2>3, <2>4
<1> QED
    BY <1>2, <1>3

\* st holds the words s, in chunks that are usable.
Holds(st, s) ==
    /\ st \in Chunkings
    /\ st.chunks \in Seq(Usable)
    /\ st.current \in Usable \cup {<<>>}
    /\ Joined(st.chunks) \o st.current = s
    /\ s # <<>> => st.current # <<>>

\* Packing keeps the words in their order, and makes only usable chunks.
LEMMA PackedKept ==
    ASSUME NEW words \in Seq(Words)
    PROVE  Holds(Packed(words), words)
<1> DEFINE P == {s \in Seq(Words) : Holds(Packed(s), s)}
<1>1. <<>> \in P
  <2>1. Packed(<<>>) = Empty /\ Empty \in Chunkings
      BY PackedAppend, AddWordClosed
  <2>2. Joined(<<>>) = <<>>
      BY JoinedAppend, Zenon
  <2>3. Empty.chunks = <<>> /\ Empty.current = <<>>
      BY DEF Empty
  <2>4. <<>> \o <<>> = <<>> /\ <<>> \in Seq(Usable)
      OBVIOUS
  <2>5. Joined(Empty.chunks) \o Empty.current = <<>>
      BY <2>2, <2>3, <2>4
  <2>6. Holds(Empty, <<>>)
      BY <2>1, <2>3, <2>4, <2>5 DEF Holds
  <2> QED
      BY <2>1, <2>6
<1>2. ASSUME NEW s \in P, NEW w \in Words PROVE Append(s, w) \in P
  <2>1. PICK st : st = Packed(s)
      OBVIOUS
  <2>2. s \in Seq(Words) /\ Holds(st, s) /\ Append(s, w) \in Seq(Words) /\ Append(s, w) # <<>>
      BY <2>1, AppendProperties
  <2>3. Packed(Append(s, w)) = AddWord(st, w)
      BY <2>1, <2>2, PackedAppend
  <2>4. st.chunks \in Seq(Seq(Words)) /\ st.current \in Seq(Words) /\ Joined(st.chunks) \in Seq(Words)
      BY <2>2, JoinedType DEF Chunkings, Holds
  <2>5. <<w>> \in Seq(Words) /\ Len(<<w>>) = 1 /\ <<w>> # <<>>
      OBVIOUS
  <2>6. AddWord(st, w) \in Chunkings
      BY <2>2, AddWordClosed DEF Holds
  <2> HIDE DEF P
  <2>7. CASE Fits(st.current, <<w>>, HardLimit)
    <3> DEFINE c == Append(st.current, w)
    <3>1. c \in Seq(Words) /\ c # <<>> /\ c = st.current \o <<w>>
      <4>1. c \in Seq(Words) /\ c # <<>>
          BY <2>4, AppendProperties
      <4>2. c = st.current \o <<w>>
          BY <2>4, AppendIsConcat
      <4> QED
          BY <4>1, <4>2
    <3>2. Chars(c) \in 1..HardLimit
      <4>1. Chars(c) <= HardLimit
          BY <2>7, <3>1 DEF Fits
      <4>2. Chars(c) \in Nat /\ Chars(c) >= 1
          BY <3>1, CharsOfWords
      <4> QED
          BY <4>1, <4>2, LimitsAssumption
    <3>3. c \in Usable
        BY <3>1, <3>2 DEF Usable, Sentences
    <3>4. AddWord(st, w).chunks = st.chunks /\ AddWord(st, w).current = c
        BY <2>2, <2>7 DEF AddWord, Chunkings, Holds
    <3>5. Joined(st.chunks) \o c = Append(s, w)
      <4>1. Joined(st.chunks) \o (st.current \o <<w>>) = (Joined(st.chunks) \o st.current) \o <<w>>
        <5>1. \A a, b, d \in Seq(Words) : (a \o b) \o d = a \o (b \o d)
            BY ConcatAssociative
        <5> QED
            BY <2>4, <2>5, <5>1, Zenon
      <4>2. Append(s, w) = s \o <<w>>
          BY <2>2, AppendIsConcat
      <4> QED
          BY <2>2, <3>1, <4>1, <4>2 DEF Holds
    <3> HIDE DEF c
    <3>6. Holds(AddWord(st, w), Append(s, w))
      <4>1. Joined(AddWord(st, w).chunks) \o AddWord(st, w).current = Append(s, w)
          BY <3>4, <3>5
      <4>2. AddWord(st, w).chunks \in Seq(Usable)
          BY <2>2, <3>4 DEF Holds
      <4>3. AddWord(st, w).current \in Usable \cup {<<>>} /\ AddWord(st, w).current # <<>>
          BY <3>1, <3>3, <3>4
      <4> QED
          BY <2>6, <4>1, <4>2, <4>3 DEF Holds
    <3> QED
        BY <2>2, <2>3, <3>6 DEF P
  <2>8. CASE ~Fits(st.current, <<w>>, HardLimit)
    <3>1. AddWord(st, w).chunks = Close(st) /\ AddWord(st, w).current = <<w>>
        BY <2>8 DEF AddWord
    <3>2. Usable \subseteq Seq(Words)
        BY DEF Usable, Sentences
    <3>3. Close(st) \in Seq(Usable)
        BY <2>2, <3>2, Closed DEF Holds
    <3>4. <<w>> \in Usable
        BY <2>5 DEF Usable, Sentences
    <3>5. Joined(Close(st)) = s
        BY <2>2, Closed DEF Holds
    <3>6. Append(s, w) = s \o <<w>>
        BY <2>2, AppendIsConcat
    <3>7. Holds(AddWord(st, w), Append(s, w))
      <4>1. Joined(AddWord(st, w).chunks) \o AddWord(st, w).current = Append(s, w)
          BY <3>1, <3>5, <3>6
      <4>2. AddWord(st, w).chunks \in Seq(Usable)
          BY <3>1, <3>3
      <4>3. AddWord(st, w).current \in Usable \cup {<<>>} /\ AddWord(st, w).current # <<>>
          BY <2>5, <3>1, <3>4
      <4> QED
          BY <2>6, <4>1, <4>2, <4>3 DEF Holds
    <3> QED
        BY <2>2, <2>3, <3>7 DEF P
  <2> QED
      BY <2>7, <2>8
<1>3. P = Seq(Words)
  <2> P \in SUBSET Seq(Words)
      OBVIOUS
  <2> HIDE DEF P
  <2> QED
      BY <1>1, <1>2, SequenceInduction
<1> QED
    BY <1>3

\* A sentence is split into usable chunks, which hold its words in their order.
LEMMA SplitKept ==
    ASSUME NEW words \in Sentences
    PROVE  /\ SplitWords(words) \in Seq(Usable)
           /\ SplitWords(words) # <<>>
           /\ Joined(SplitWords(words)) = words
<1>1. words \in Seq(Words) /\ words # <<>>
    BY DEF Sentences
<1>2. Usable \subseteq Seq(Words)
    BY DEF Usable, Sentences
<1>3. CASE Chars(words) <= HardLimit
  <2>1. SplitWords(words) = <<words>>
      BY <1>3 DEF SplitWords
  <2>2. words \in Usable
      BY <1>1, <1>3, CharsOfWords, LimitsAssumption DEF Usable
  <2>3. Joined(<<words>>) = words
    <3>1. Joined(<<>>) = <<>> /\ Joined(Append(<<>>, words)) = Joined(<<>>) \o words
      <4>1. <<>> \in Seq(Seq(Words))
          OBVIOUS
      <4> QED
          BY <1>1, <4>1, JoinedAppend
    <3>2. Append(<<>>, words) = <<words>> /\ <<>> \o words = words
        BY <1>1, ConcatEmptySeq
    <3> QED
        BY <3>1, <3>2
  <2> QED
      BY <2>1, <2>2, <2>3
<1>4. CASE ~(Chars(words) <= HardLimit)
  <2>1. SplitWords(words) = Close(Packed(words))
      BY <1>4, Zenon DEF SplitWords, Packed
  <2>2. PICK st : st = Packed(words)
      OBVIOUS
  <2>3. /\ st \in Chunkings /\ st.chunks \in Seq(Usable) /\ st.current \in Usable \cup {<<>>}
        /\ Joined(st.chunks) \o st.current = words /\ st.current # <<>>
      BY <1>1, <2>2, PackedKept DEF Holds
  <2>4. Close(st) \in Seq(Usable) /\ Close(st) # <<>> /\ Joined(Close(st)) = words
      BY <1>2, <2>3, Closed
  <2> QED
      BY <2>1, <2>2, <2>4
<1> QED
    BY <1>3, <1>4

\* What AddSentence has made of the first sentences.
Gathered(text) == FoldLeft(AddSentence, Empty, text)

\* Usable chunks and sentences are sequences of words.
LEMMA UsableAreSequences ==
    /\ Usable \subseteq Seq(Words) /\ Usable \subseteq Sentences
    /\ Sentences \subseteq Seq(Words) /\ Seq(Sentences) \subseteq Seq(Seq(Words))
    /\ Seq(Usable) \subseteq Seq(Seq(Words)) /\ Seq(Usable) \subseteq Seq(Sentences)
BY SeqMonotonic DEF Usable, Sentences

\* A sentence more is put in chunks.
LEMMA AddSentenceClosed ==
    Empty \in Chunkings /\ \A st \in Chunkings, s \in Sentences : AddSentence(st, s) \in Chunkings
<1>1. ASSUME NEW st \in Chunkings, NEW s \in Sentences PROVE AddSentence(st, s) \in Chunkings
  <2>1. st.chunks \in Seq(Seq(Words)) /\ st.current \in Seq(Words) /\ s \in Seq(Words)
        /\ st.current \o s \in Seq(Words)
      BY UsableAreSequences, ConcatProperties DEF Chunkings
  <2>2. Close(st) \in Seq(Seq(Words)) /\ SplitWords(s) \in Seq(Seq(Words))
      BY Closed, SplitKept, UsableAreSequences
  <2>3. Close(st) \o SplitWords(s) \in Seq(Seq(Words))
      BY <2>2, ConcatProperties
  <2>4. [st EXCEPT !.current = st.current \o s] \in Chunkings
      BY <2>1 DEF Chunkings
  <2>5. [chunks |-> Close(st), current |-> s] \in Chunkings
      BY <2>1, <2>2 DEF Chunkings
  <2>6. [chunks |-> Close(st) \o SplitWords(s), current |-> <<>>] \in Chunkings
      BY <2>3 DEF Chunkings
  <2> QED
      BY <2>4, <2>5, <2>6 DEF AddSentence
<1> QED
    BY <1>1, AddWordClosed

\* What Gathered(seq) has made of the elements up to each place.
LEMMA GatheredSteps ==
    ASSUME NEW s \in Seq(Sentences)
    PROVE  \E F : Steps(AddSentence, Empty, s, F) /\ Gathered(s) = F[Len(s)]
<1> DEFINE n == Len(s)
           H == CHOOSE h : IsFold(AddSentence, Empty, s, h)
           F == [k \in 0..n |-> H[1..k]]
<1>1. Gathered(s) = H[DOMAIN s]
    BY Zenon DEF Gathered, FoldLeft, MapThenFoldSet, IsFold
<1>2. DOMAIN s = 1..n /\ n \in Nat /\ \A k \in 1..n : s[k] \in Sentences
    OBVIOUS
<1>3. IsFold(AddSentence, Empty, s, H)
  <2> DEFINE step == [a \in Chunkings |-> [k \in 1..n |-> AddSentence(a, s[k])]]
  <2> HIDE DEF n
  <2>1. \A a \in Chunkings, k \in 1..n : step[a][k] = AddSentence(a, s[k]) /\ step[a][k] \in Chunkings
      BY <1>2, AddSentenceClosed
  <2>2. PICK h \in FoldFunctions(n, Chunkings, Empty, step) : TRUE
    <3> HIDE DEF step, H, F
    <3>1. n \in Nat /\ Empty \in Chunkings
        BY <1>2, AddSentenceClosed
    <3> QED
        BY <2>1, <3>1, FoldExists
  <2>3. \A t \in SUBSET (1..n) : t # {} => h[t] = AddSentence(h[t \ {Max(t)}], s[Max(t)])
      BY <1>2, <2>1, GreatestNumber DEF FoldFunctions, Folded
  <2>4. IsFold(AddSentence, Empty, s, h)
      BY <1>2, <2>3 DEF IsFold, FoldFunctions, Folded
  <2> QED
      BY <2>4, Zenon
<1> HIDE DEF H, n
<1>4. F[0] = Empty
    BY <1>2, <1>3 DEF IsFold
<1>5. ASSUME NEW k \in 1..n PROVE F[k] = AddSentence(F[k - 1], s[k])
  <2>1. 1..k \in SUBSET DOMAIN s /\ k - 1 \in 0..n /\ k \in Nat \ {0}
      BY <1>2
  <2>2. H[1..k] = AddSentence(H[1..(k - 1)], s[k])
      BY <1>3, <2>1, GreatestOfPrefix DEF IsFold
  <2> QED
      BY <2>1, <2>2
<1>6. Gathered(s) = F[n]
    BY <1>1, <1>2
<1> HIDE DEF F
<1>7. Steps(AddSentence, Empty, s, F)
    BY <1>4, <1>5 DEF Steps, n
<1> QED
    BY <1>6, <1>7 DEF n

\* One sentence more.
LEMMA GatheredAppend ==
    /\ Gathered(<<>>) = Empty
    /\ \A s \in Seq(Sentences), x \in Sentences : Gathered(Append(s, x)) = AddSentence(Gathered(s), x)
<1>1. Gathered(<<>>) = Empty
  <2>1. <<>> \in Seq(Sentences) /\ Len(<<>>) = 0
      OBVIOUS
  <2>2. PICK F : Steps(AddSentence, Empty, <<>>, F) /\ Gathered(<<>>) = F[Len(<<>>)]
      BY <2>1, GatheredSteps, Zenon
  <2> QED
      BY <2>1, <2>2 DEF Steps
<1>2. ASSUME NEW s \in Seq(Sentences), NEW x \in Sentences
      PROVE  Gathered(Append(s, x)) = AddSentence(Gathered(s), x)
  <2> DEFINE n == Len(s)
             t == Append(s, x)
  <2>1. n \in Nat /\ t \in Seq(Sentences) /\ Len(t) = n + 1 /\ t[n + 1] = x /\ \A k \in 1..n : t[k] = s[k]
      OBVIOUS
  <2>2. PICK F : Steps(AddSentence, Empty, s, F) /\ Gathered(s) = F[n]
      BY GatheredSteps, Zenon
  <2>3. PICK G : Steps(AddSentence, Empty, t, G) /\ Gathered(t) = G[Len(t)]
      BY <2>1, GatheredSteps, Zenon
  <2> HIDE DEF t
  <2>4. F[0] = G[0] /\ \A k \in 1..n : F[k - 1] = G[k - 1] => F[k] = G[k]
      BY <2>1, <2>2, <2>3 DEF Steps
  <2>5. F[n] = G[n]
      BY <2>1, <2>4, Agreement
  <2>6. G[n + 1] = AddSentence(G[n], x)
    <3>1. n + 1 \in 1..Len(t) /\ (n + 1) - 1 = n
        BY <2>1
    <3> QED
        BY <2>1, <2>3, <3>1 DEF Steps
  <2> QED
      BY <2>1, <2>2, <2>3, <2>5, <2>6 DEF t
<1> QED
    BY <1>1, <1>2

\* Gathering sentences keeps their words in their order; no chunk is empty.
LEMMA GatheredKept ==
    ASSUME NEW text \in Texts
    PROVE  /\ Gathered(text) \in Chunkings
           /\ Gathered(text).chunks \in Seq(Sentences)
           /\ Joined(Gathered(text).chunks) \o Gathered(text).current = Joined(text)
<1> DEFINE P == {t \in Seq(Sentences) :
                   /\ Gathered(t) \in Chunkings
                   /\ Gathered(t).chunks \in Seq(Sentences)
                   /\ Joined(Gathered(t).chunks) \o Gathered(t).current = Joined(t)}
<1>1. <<>> \in P
  <2>1. Gathered(<<>>) = Empty /\ Empty \in Chunkings
      BY GatheredAppend, AddSentenceClosed
  <2>2. Joined(<<>>) = <<>>
      BY JoinedAppend, Zenon
  <2>3. Empty.chunks = <<>> /\ Empty.current = <<>>
      BY DEF Empty
  <2>4. <<>> \o <<>> = <<>> /\ <<>> \in Seq(Sentences)
      OBVIOUS
  <2> QED
      BY <2>1, <2>2, <2>3, <2>4
<1>2. ASSUME NEW t \in P, NEW s \in Sentences PROVE Append(t, s) \in P
  <2>1. PICK st : st = Gathered(t)
      OBVIOUS
  <2>2. /\ t \in Seq(Sentences) /\ st \in Chunkings /\ st.chunks \in Seq(Sentences)
        /\ Joined(st.chunks) \o st.current = Joined(t)
      BY <2>1
  <2>3. PICK next : next = AddSentence(st, s)
      OBVIOUS
  <2>4. next = Gathered(Append(t, s)) /\ next \in Chunkings
      BY <2>1, <2>2, <2>3, GatheredAppend, AddSentenceClosed
  <2>5. /\ st.chunks \in Seq(Seq(Words)) /\ st.current \in Seq(Words)
        /\ s \in Seq(Words) /\ t \in Seq(Seq(Words))
      BY <2>2, UsableAreSequences DEF Chunkings
  <2>6. Joined(st.chunks) \in Seq(Words)
      BY <2>5, JoinedType
  <2>7. Joined(Append(t, s)) = Joined(t) \o s
      BY <2>5, JoinedAppend
  <2>8. \A a, b, d \in Seq(Words) : (a \o b) \o d = a \o (b \o d)
      BY ConcatAssociative
  <2>9. Close(st) \in Seq(Sentences)
    <3>1. Sentences \in SUBSET Seq(Words) /\ st.current \in Sentences \cup {<<>>}
        BY <2>5, UsableAreSequences DEF Sentences
    <3> QED
        BY <2>2, <3>1, Closed
  <2>10. Joined(Close(st)) = Joined(t) /\ Close(st) \in Seq(Seq(Words)) /\ Joined(t) \in Seq(Words)
      BY <2>2, <2>5, Closed, JoinedType
  <2>11. next.chunks \in Seq(Sentences) /\ Joined(next.chunks) \o next.current = Joined(t) \o s
    <3>1. CASE Fits(st.current, s, Target)
      <4>1. next.chunks = st.chunks /\ next.current = st.current \o s
          BY <2>2, <2>3, <3>1 DEF AddSentence, Chunkings
      <4>2. Joined(st.chunks) \o (st.current \o s) = (Joined(st.chunks) \o st.current) \o s
          BY <2>5, <2>6, <2>8, Zenon
      <4> QED
          BY <2>2, <4>1, <4>2
    <3>2. CASE ~Fits(st.current, s, Target) /\ Chars(s) <= HardLimit
      <4>1. next.chunks = Close(st) /\ next.current = s
          BY <2>3, <3>2 DEF AddSentence
      <4> QED
          BY <2>9, <2>10, <4>1
    <3>3. CASE ~Fits(st.current, s, Target) /\ ~(Chars(s) <= HardLimit)
      <4>1. next.chunks = Close(st) \o SplitWords(s) /\ next.current = <<>>
          BY <2>3, <3>3 DEF AddSentence
      <4>2. SplitWords(s) \in Seq(Sentences) /\ SplitWords(s) \in Seq(Seq(Words)) /\ Joined(SplitWords(s)) = s
          BY SplitKept, UsableAreSequences
      <4>3. Close(st) \o SplitWords(s) \in Seq(Sentences)
          BY <2>9, <4>2, ConcatProperties
      <4>4. Joined(Close(st) \o SplitWords(s)) = Joined(t) \o s
        <5>1. PICK a \in Seq(Seq(Words)) : a = Close(st)
            BY <2>10
        <5>2. PICK b \in Seq(Seq(Words)) : b = SplitWords(s)
            BY <4>2
        <5>3. Joined(a \o b) = Joined(a) \o Joined(b)
            BY JoinedConcat
        <5> QED
            BY <2>10, <4>2, <5>1, <5>2, <5>3
      <4>5. Joined(t) \o s \in Seq(Words)
          BY <2>5, <2>10, ConcatProperties
      <4>6. (Joined(t) \o s) \o <<>> = Joined(t) \o s
          BY <4>5, ConcatEmptySeq
      <4> QED
          BY <4>1, <4>3, <4>4, <4>6
    <3> QED
        BY <3>1, <3>2, <3>3
  <2>12. Append(t, s) \in Seq(Sentences)
      BY <2>2, AppendProperties
  <2> QED
      BY <2>4, <2>7, <2>11, <2>12
<1>3. P = Seq(Sentences)
  <2> P \in SUBSET Seq(Sentences)
      OBVIOUS
  <2> HIDE DEF P
  <2> QED
      BY <1>1, <1>2, SequenceInduction
<1> QED
    BY <1>3 DEF Texts

\* What the parts make is usable, not empty, and holds what the parts hold.
LEMMA PartsKept ==
    ASSUME NEW n \in Nat, NEW p \in [1..n -> Seq(Usable)],
           \A i \in 1..n : p[i] # <<>>
    PROVE  /\ Joined(p) \in Seq(Usable)
           /\ n # 0 => Joined(p) # <<>>
           /\ Joined(Joined(p)) = Joined([i \in 1..n |-> Joined(p[i])])
<1>1. p \in Seq(Seq(Usable)) /\ Len(p) = n /\ DOMAIN p = 1..n
    OBVIOUS
<1>2. p \in Seq(Seq(Seq(Words)))
    BY <1>1, SeqMonotonic, UsableAreSequences
<1>3. Joined(p) \in Seq(Usable)
    BY <1>1, JoinedType
<1>4. n # 0 => Joined(p) # <<>>
  <2> SUFFICES ASSUME n # 0 PROVE Joined(p) # <<>>
      OBVIOUS
  <2>1. 1 \in 1..Len(p) /\ p[1] # <<>>
      BY <1>1
  <2> QED
      BY <1>1, <2>1, JoinedNotEmpty
<1>5. Joined(Joined(p)) = Joined(Inner(p))
    BY <1>2, JoinedTwice
<1> QED
    BY <1>1, <1>3, <1>4, <1>5 DEF Inner

\* The segments of a paragraph are usable and hold its words in their order.
LEMMA ParagraphKept ==
    ASSUME NEW text \in Texts \ {<<>>}
    PROVE  /\ SegmentParagraph(text) \in Seq(Usable)
           /\ SegmentParagraph(text) # <<>>
           /\ Joined(SegmentParagraph(text)) = WordsOf(text)
<1>1. text \in Seq(Sentences) /\ text \in Seq(Seq(Words)) /\ text # <<>>
    BY UsableAreSequences DEF Texts
<1>2. WordsOf(text) \in Sentences
  <2>1. Len(text) \in Nat \ {0} /\ text[1] \in Sentences /\ 1 \in 1..Len(text)
      BY <1>1
  <2>2. text[1] # <<>>
      BY <2>1 DEF Sentences
  <2>3. Joined(text) \in Seq(Words)
      BY <1>1, JoinedType
  <2>4. Joined(text) # <<>>
      BY <1>1, <2>1, <2>2, JoinedNotEmpty
  <2> QED
      BY <2>3, <2>4 DEF WordsOf, Sentences
<1>3. CASE Chars(WordsOf(text)) <= Target
    BY <1>2, <1>3, SplitKept DEF SegmentParagraph
<1>4. CASE ~(Chars(WordsOf(text)) <= Target)
  <2>1. PICK st : st = Gathered(text)
      OBVIOUS
  <2>2. st \in Chunkings /\ st.chunks \in Seq(Sentences) /\ Joined(st.chunks) \o st.current = WordsOf(text)
      BY <1>1, <2>1, GatheredKept DEF WordsOf, Texts
  <2>3. PICK chunks : chunks = Close(st)
      OBVIOUS
  <2>4. chunks \in Seq(Sentences) /\ Joined(chunks) = WordsOf(text)
    <3>1. Sentences \in SUBSET Seq(Words) /\ st.current \in Sentences \cup {<<>>}
        BY <2>2, UsableAreSequences DEF Sentences, Chunkings
    <3> QED
        BY <2>2, <2>3, <3>1, Closed
  <2>5. chunks # <<>>
    <3>1. Joined(<<>>) = <<>>
        BY JoinedAppend, Zenon
    <3> QED
        BY <1>2, <2>4, <3>1 DEF Sentences
  <2>6. PICK n \in Nat : n = Len(chunks) /\ DOMAIN chunks = 1..n /\ n # 0 /\ chunks \in [1..n -> Sentences]
      BY <2>4, <2>5
  <2> DEFINE p == [i \in 1..n |-> SplitWords(chunks[i])]
  <2>7. SegmentParagraph(text) = Joined(p)
    <3>1. SegmentParagraph(text) = Joined([i \in DOMAIN Close(Gathered(text)) |-> SplitWords(Close(Gathered(text))[i])])
        BY <1>4, Zenon DEF SegmentParagraph, Gathered
    <3>2. chunks = Close(Gathered(text))
        BY <2>1, <2>3
    <3> QED
        BY <2>6, <3>1, <3>2
  <2>8. \A i \in 1..n : /\ SplitWords(chunks[i]) \in Seq(Usable) /\ SplitWords(chunks[i]) # <<>>
                        /\ Joined(SplitWords(chunks[i])) = chunks[i]
      BY <2>6, SplitKept
  <2>9. p \in [1..n -> Seq(Usable)] /\ \A i \in 1..n : p[i] # <<>> /\ Joined(p[i]) = chunks[i]
      BY <2>8
  <2> HIDE DEF p
  <2>10. [i \in 1..n |-> Joined(p[i])] = chunks
      BY <2>6, <2>9
  <2>11. Joined(p) \in Seq(Usable) /\ Joined(p) # <<>> /\ Joined(Joined(p)) = Joined([i \in 1..n |-> Joined(p[i])])
      BY <2>6, <2>9, PartsKept
  <2> QED
      BY <2>4, <2>7, <2>10, <2>11
<1> QED
    BY <1>3, <1>4

\* So are the segments of a chapter.
LEMMA SegmentsKept ==
    ASSUME NEW n \in Nat, NEW content \in [1..n -> [text : Texts \ {<<>>}] \cup (Paragraphs \cap {p \in Paragraphs : p.text # <<>>})]
    PROVE  /\ Segments(content) \in Seq(Usable)
           /\ n # 0 => Segments(content) # <<>>
           /\ Joined(Segments(content)) = Joined([j \in 1..n |-> WordsOf(content[j].text)])
<1>1. \A i \in 1..n : content[i].text \in Texts \ {<<>>}
    BY DEF Paragraphs
<1> DEFINE p == [i \in 1..n |-> SegmentParagraph(content[i].text)]
<1>2. \A i \in 1..n : /\ SegmentParagraph(content[i].text) \in Seq(Usable) /\ SegmentParagraph(content[i].text) # <<>>
                      /\ Joined(SegmentParagraph(content[i].text)) = WordsOf(content[i].text)
    BY <1>1, ParagraphKept
<1>3. Segments(content) = Joined(p)
    BY DEF Segments
<1>4. p \in [1..n -> Seq(Usable)] /\ \A i \in 1..n : p[i] # <<>> /\ Joined(p[i]) = WordsOf(content[i].text)
    BY <1>2
<1> HIDE DEF p
<1>5. [i \in 1..n |-> Joined(p[i])] = [j \in 1..n |-> WordsOf(content[j].text)]
    BY <1>4
<1>6. /\ Joined(p) \in Seq(Usable) /\ (n # 0 => Joined(p) # <<>>)
      /\ Joined(Joined(p)) = Joined([i \in 1..n |-> Joined(p[i])])
    BY <1>4, PartsKept
<1> QED
    BY <1>3, <1>5, <1>6

--------------------------------------------------------------------------------
(* Selections *)

\* One step of a selection.
Keeping(kept, s, x) == IF x \in kept THEN Append(s, x) ELSE s

\* A selection has elements of what it selects from.
LEMMA KeepingClosed ==
    ASSUME NEW E, NEW kept
    PROVE  <<>> \in Seq(E) /\ \A s \in Seq(E), x \in E : Keeping(kept, s, x) \in Seq(E)
BY AppendProperties DEF Keeping

\* What Only(kept, seq) has made of the elements up to each place.
LEMMA OnlySteps ==
    ASSUME NEW E, NEW kept, NEW s \in Seq(E)
    PROVE  \E F : Steps(LAMBDA a, b : Keeping(kept, a, b), <<>>, s, F) /\ Only(kept, s) = F[Len(s)]
<1> DEFINE n == Len(s)
           H == CHOOSE h : IsFold(LAMBDA a, b : Keeping(kept, a, b), <<>>, s, h)
           F == [k \in 0..n |-> H[1..k]]
<1>1. Only(kept, s) = H[DOMAIN s]
    BY Zenon DEF Only, Keeping, FoldLeft, MapThenFoldSet, IsFold
<1>2. DOMAIN s = 1..n /\ n \in Nat /\ \A k \in 1..n : s[k] \in E
    OBVIOUS
<1>3. IsFold(LAMBDA a, b : Keeping(kept, a, b), <<>>, s, H)
  <2> DEFINE step == [a \in Seq(E) |-> [k \in 1..n |-> Keeping(kept, a, s[k])]]
  <2> HIDE DEF n
  <2>1. \A a \in Seq(E), k \in 1..n : step[a][k] = Keeping(kept, a, s[k]) /\ step[a][k] \in Seq(E)
      BY <1>2, KeepingClosed
  <2>2. PICK h \in FoldFunctions(n, Seq(E), <<>>, step) : TRUE
    <3> HIDE DEF step, H, F
    <3>1. n \in Nat /\ <<>> \in Seq(E)
        BY <1>2, KeepingClosed
    <3> QED
        BY <2>1, <3>1, FoldExists
  <2>3. \A t \in SUBSET (1..n) : t # {} => h[t] = Keeping(kept, h[t \ {Max(t)}], s[Max(t)])
      BY <1>2, <2>1, GreatestNumber DEF FoldFunctions, Folded
  <2>4. IsFold(LAMBDA a, b : Keeping(kept, a, b), <<>>, s, h)
      BY <1>2, <2>3 DEF IsFold, FoldFunctions, Folded
  <2> QED
      BY <2>4, Zenon
<1> HIDE DEF H, n
<1>4. F[0] = <<>>
    BY <1>2, <1>3 DEF IsFold
<1>5. ASSUME NEW k \in 1..n PROVE F[k] = Keeping(kept, F[k - 1], s[k])
  <2>1. 1..k \in SUBSET DOMAIN s /\ k - 1 \in 0..n /\ k \in Nat \ {0}
      BY <1>2
  <2>2. H[1..k] = Keeping(kept, H[1..(k - 1)], s[k])
      BY <1>3, <2>1, GreatestOfPrefix DEF IsFold
  <2> QED
      BY <2>1, <2>2
<1>6. Only(kept, s) = F[n]
    BY <1>1, <1>2
<1> HIDE DEF F
<1>7. Steps(LAMBDA a, b : Keeping(kept, a, b), <<>>, s, F)
    BY <1>4, <1>5 DEF Steps, n
<1> QED
    BY <1>6, <1>7 DEF n

\* Nothing is selected from nothing.
LEMMA OnlyNothing ==
    ASSUME NEW kept
    PROVE  Only(kept, <<>>) = <<>>
<1>1. <<>> \in Seq(Nat) /\ Len(<<>>) = 0
    OBVIOUS
<1>2. PICK F : Steps(LAMBDA a, b : Keeping(kept, a, b), <<>>, <<>>, F) /\ Only(kept, <<>>) = F[Len(<<>>)]
    BY <1>1, OnlySteps, Zenon
<1> QED
    BY <1>1, <1>2 DEF Steps

\* One element more.
LEMMA OnlyAppend ==
    ASSUME NEW E, NEW kept, NEW s \in Seq(E), NEW x \in E
    PROVE  Only(kept, Append(s, x)) = Keeping(kept, Only(kept, s), x)
<1> DEFINE n == Len(s)
           t == Append(s, x)
<1>1. n \in Nat /\ t \in Seq(E) /\ Len(t) = n + 1 /\ t[n + 1] = x /\ \A k \in 1..n : t[k] = s[k]
    OBVIOUS
<1>2. PICK F : Steps(LAMBDA a, b : Keeping(kept, a, b), <<>>, s, F) /\ Only(kept, s) = F[n]
    BY OnlySteps, Zenon
<1>3. PICK G : Steps(LAMBDA a, b : Keeping(kept, a, b), <<>>, t, G) /\ Only(kept, t) = G[Len(t)]
    BY <1>1, OnlySteps, Zenon
<1> HIDE DEF t
<1>4. F[0] = G[0] /\ \A k \in 1..n : F[k - 1] = G[k - 1] => F[k] = G[k]
    BY <1>1, <1>2, <1>3 DEF Steps
<1>5. F[n] = G[n]
    BY <1>1, <1>4, Agreement
<1>6. G[n + 1] = Keeping(kept, G[n], x)
  <2>1. n + 1 \in 1..Len(t) /\ (n + 1) - 1 = n
      BY <1>1
  <2> QED
      BY <1>1, <1>3, <2>1 DEF Steps
<1> QED
    BY <1>1, <1>2, <1>3, <1>5, <1>6 DEF t

\* A selection has elements of what it selects from, however long.
LEMMA OnlyType ==
    ASSUME NEW E, NEW kept, NEW seq \in Seq(E)
    PROVE  Only(kept, seq) \in Seq(E)
<1> DEFINE P == {q \in Seq(E) : Only(kept, q) \in Seq(E)}
<1>1. <<>> \in P
  <2>1. <<>> \in Seq(E) /\ Only(kept, <<>>) = <<>>
      BY OnlyNothing
  <2> QED
      BY <2>1
<1>2. ASSUME NEW q \in P, NEW x \in E PROVE Append(q, x) \in P
  <2>1. Append(q, x) \in Seq(E) /\ Only(kept, Append(q, x)) = Keeping(kept, Only(kept, q), x)
      BY OnlyAppend, AppendProperties
  <2> QED
      BY <2>1, KeepingClosed
<1>3. P = Seq(E)
  <2> P \in SUBSET Seq(E)
      OBVIOUS
  <2> HIDE DEF P
  <2> QED
      BY <1>1, <1>2, SequenceInduction
<1> QED
    BY <1>3

\* What is selected from a whole is what is selected from its parts.
SelectedApart(kept, s, t) == Only(kept, s \o t) = Only(kept, s) \o Only(kept, t)

LEMMA OnlyConcat ==
    ASSUME NEW E, NEW kept, NEW s \in Seq(E), NEW t \in Seq(E)
    PROVE  SelectedApart(kept, s, t)
<1> SUFFICES Only(kept, s \o t) = Only(kept, s) \o Only(kept, t)
    BY DEF SelectedApart
<1> DEFINE P == {q \in Seq(E) : Only(kept, s \o q) = Only(kept, s) \o Only(kept, q)}
<1>0. Only(kept, s) \in Seq(E)
    BY OnlyType
<1>1. <<>> \in P
  <2>1. <<>> \in Seq(E) /\ Only(kept, <<>>) = <<>>
      BY OnlyNothing
  <2>2. s \o <<>> = s /\ Only(kept, s) \o <<>> = Only(kept, s)
      BY <1>0, ConcatEmptySeq
  <2> QED
      BY <2>1, <2>2
<1>2. ASSUME NEW q \in P, NEW x \in E PROVE Append(q, x) \in P
  <2>1. q \in Seq(E) /\ s \o q \in Seq(E) /\ s \o Append(q, x) = Append(s \o q, x) /\ Append(q, x) \in Seq(E)
      OBVIOUS
  <2>2. /\ Only(kept, Append(s \o q, x)) = Keeping(kept, Only(kept, s \o q), x)
        /\ Only(kept, Append(q, x)) = Keeping(kept, Only(kept, q), x)
    <3>1. PICK r \in Seq(E) : r = s \o q
        BY <2>1
    <3>2. Only(kept, Append(r, x)) = Keeping(kept, Only(kept, r), x)
        BY OnlyAppend
    <3>3. Only(kept, Append(q, x)) = Keeping(kept, Only(kept, q), x)
        BY <2>1, OnlyAppend
    <3> QED
        BY <3>1, <3>2, <3>3
  <2>3. PICK a \in Seq(E) : a = Only(kept, s)
      BY <1>0
  <2>4. PICK b \in Seq(E) : b = Only(kept, q)
      BY <2>1, OnlyType
  <2>5. Only(kept, s \o q) = a \o b
      BY <2>3, <2>4
  <2>6. a \o Append(b, x) = Append(a \o b, x)
      OBVIOUS
  <2> HIDE DEF P
  <2>7. Keeping(kept, a \o b, x) = a \o Keeping(kept, b, x)
      BY <2>6 DEF Keeping
  <2>8. Only(kept, s \o Append(q, x)) = Only(kept, s) \o Only(kept, Append(q, x))
      BY <2>1, <2>2, <2>3, <2>4, <2>5, <2>7
  <2> QED
      BY <2>1, <2>8 DEF P
<1>3. P = Seq(E)
  <2> P \in SUBSET Seq(E)
      OBVIOUS
  <2> HIDE DEF P
  <2> QED
      BY <1>1, <1>2, SequenceInduction
<1> QED
    BY <1>3

\* A selection depends on what is kept of the elements there are.
LEMMA OnlySame ==
    ASSUME NEW E, NEW K, NEW L, NEW seq \in Seq(E),
           \A i \in 1..Len(seq) : seq[i] \in K <=> seq[i] \in L
    PROVE  Only(K, seq) = Only(L, seq)
<1> DEFINE P == {q \in Seq(E) : (\A i \in 1..Len(q) : q[i] \in K <=> q[i] \in L) => Only(K, q) = Only(L, q)}
<1>1. <<>> \in P
  <2>1. <<>> \in Seq(E) /\ Only(K, <<>>) = <<>> /\ Only(L, <<>>) = <<>>
      BY OnlyNothing
  <2> QED
      BY <2>1
<1>2. ASSUME NEW q \in P, NEW x \in E PROVE Append(q, x) \in P
  <2>1. q \in Seq(E) /\ Append(q, x) \in Seq(E) /\ Len(q) \in Nat /\ Len(Append(q, x)) = Len(q) + 1
        /\ Append(q, x)[Len(q) + 1] = x
      BY AppendProperties, LenProperties
  <2>2. \A i \in 1..Len(q) : Append(q, x)[i] = q[i]
      BY AppendProperties
  <2>3. /\ Only(K, Append(q, x)) = Keeping(K, Only(K, q), x)
        /\ Only(L, Append(q, x)) = Keeping(L, Only(L, q), x)
      BY <2>1, OnlyAppend
  <2>4. ASSUME \A i \in 1..Len(Append(q, x)) : Append(q, x)[i] \in K <=> Append(q, x)[i] \in L
        PROVE  Only(K, Append(q, x)) = Only(L, Append(q, x))
    <3>1. x \in K <=> x \in L
      <4>1. Len(q) + 1 \in 1..Len(Append(q, x))
          BY <2>1
      <4> QED
          BY <2>1, <2>4, <4>1
    <3>2. ASSUME NEW i \in 1..Len(q) PROVE q[i] \in K <=> q[i] \in L
      <4>1. i \in 1..Len(Append(q, x))
          BY <2>1
      <4> QED
          BY <2>2, <2>4, <4>1
    <3>3. Only(K, q) = Only(L, q)
        BY <3>2
    <3> QED
        BY <2>3, <3>1, <3>3 DEF Keeping
  <2> QED
      BY <2>1, <2>4
<1>3. P = Seq(E)
  <2> P \in SUBSET Seq(E)
      OBVIOUS
  <2> HIDE DEF P
  <2> QED
      BY <1>1, <1>2, SequenceInduction
<1> QED
    BY <1>3

\* A selection is empty exactly when nothing is kept, and has nothing else.
LEMMA OnlyEmpty ==
    ASSUME NEW E, NEW kept, NEW seq \in Seq(E)
    PROVE  /\ Only(kept, seq) = <<>> <=> \A i \in 1..Len(seq) : seq[i] \notin kept
           /\ Only(kept, seq) \in Seq(kept)
<1> DEFINE P == {q \in Seq(E) : /\ Only(kept, q) = <<>> <=> \A i \in 1..Len(q) : q[i] \notin kept
                                /\ Only(kept, q) \in Seq(kept)}
<1>1. <<>> \in P
  <2>1. <<>> \in Seq(E) /\ Only(kept, <<>>) = <<>>
      BY OnlyNothing
  <2>2. <<>> \in Seq(kept) /\ \A k \in 1..Len(<<>>) : <<>>[k] \notin kept
      OBVIOUS
  <2> QED
      BY <2>1, <2>2
<1>2. ASSUME NEW q \in P, NEW x \in E PROVE Append(q, x) \in P
  <2>1. q \in Seq(E) /\ Append(q, x) \in Seq(E) /\ Len(q) \in Nat /\ Len(Append(q, x)) = Len(q) + 1
        /\ Append(q, x)[Len(q) + 1] = x
      BY AppendProperties, LenProperties
  <2>2. \A i \in 1..Len(q) : Append(q, x)[i] = q[i]
      BY AppendProperties
  <2>3. Only(kept, Append(q, x)) = Keeping(kept, Only(kept, q), x) /\ Only(kept, q) \in Seq(kept)
      BY <2>1, OnlyAppend
  <2>4. CASE x \in kept
    <3>1. Only(kept, Append(q, x)) = Append(Only(kept, q), x)
        BY <2>3, <2>4 DEF Keeping
    <3>2. Only(kept, Append(q, x)) # <<>> /\ Only(kept, Append(q, x)) \in Seq(kept)
        BY <2>3, <2>4, <3>1, AppendProperties
    <3>3. Len(q) + 1 \in 1..Len(Append(q, x))
        BY <2>1
    <3> QED
        BY <2>1, <2>4, <3>2, <3>3
  <2>5. CASE x \notin kept
    <3>1. Only(kept, Append(q, x)) = Only(kept, q)
        BY <2>3, <2>5 DEF Keeping
    <3>2. (\A i \in 1..Len(Append(q, x)) : Append(q, x)[i] \notin kept) <=> \A i \in 1..Len(q) : q[i] \notin kept
      <4>1. \A i : i \in 1..Len(Append(q, x)) <=> i \in 1..Len(q) \/ i = Len(q) + 1
          BY <2>1
      <4> QED
          BY <2>1, <2>2, <2>5, <4>1
    <3> QED
        BY <2>1, <2>3, <3>1, <3>2
  <2> QED
      BY <2>4, <2>5
<1>3. P = Seq(E)
  <2> P \in SUBSET Seq(E)
      OBVIOUS
  <2> HIDE DEF P
  <2> QED
      BY <1>1, <1>2, SequenceInduction
<1> QED
    BY <1>3

\* A selection from a selection that has left out nothing it keeps.
LEMMA OnlyTwice ==
    ASSUME NEW E, NEW K, NEW R, NEW seq \in Seq(E), K \cap E \subseteq R
    PROVE  Only(K, Only(R, seq)) = Only(K, seq)
<1> DEFINE P == {q \in Seq(E) : Only(K, Only(R, q)) = Only(K, q)}
<1>1. <<>> \in P
  <2>1. <<>> \in Seq(E) /\ Only(K, <<>>) = <<>> /\ Only(R, <<>>) = <<>>
      BY OnlyNothing
  <2> QED
      BY <2>1
<1>2. ASSUME NEW q \in P, NEW x \in E PROVE Append(q, x) \in P
  <2>1. q \in Seq(E) /\ Append(q, x) \in Seq(E) /\ Only(R, q) \in Seq(E)
      BY AppendProperties, OnlyType
  <2>2. /\ Only(K, Append(q, x)) = Keeping(K, Only(K, q), x)
        /\ Only(R, Append(q, x)) = Keeping(R, Only(R, q), x)
        /\ Only(K, Append(Only(R, q), x)) = Keeping(K, Only(K, Only(R, q)), x)
      BY <2>1, OnlyAppend
  <2>3. Only(K, Only(R, q)) = Only(K, q)
      OBVIOUS
  <2>4. Only(K, Only(R, Append(q, x))) = Only(K, Append(q, x))
    <3>1. CASE x \in R
        BY <2>2, <2>3, <3>1 DEF Keeping
    <3>2. CASE x \notin R
        BY <2>2, <2>3, <3>2 DEF Keeping
    <3> QED
        BY <3>1, <3>2
  <2> QED
      BY <2>1, <2>4
<1>3. P = Seq(E)
  <2> P \in SUBSET Seq(E)
      OBVIOUS
  <2> HIDE DEF P
  <2> QED
      BY <1>1, <1>2, SequenceInduction
<1> QED
    BY <1>3

--------------------------------------------------------------------------------
(* The DOCX parser *)

\* Chapters with titles in T and contents of elements of E.
Chapters(T, E) == [title : T, content : Seq(E)]

\* The contents of chapters.
Contents(chapters) == [i \in DOMAIN chapters |-> chapters[i].content]

\* A function on a prefix of the numbers is a sequence.
LEMMA SequenceOf ==
    ASSUME NEW R, NEW m \in Nat, NEW b \in [1..m -> R]
    PROVE  b \in Seq(R) /\ Len(b) = m
OBVIOUS

\* Records whose content is a sequence of elements of E.
HaveContents(C, E) == \A c \in C : c.content \in Seq(E)

\* One record more.
LEMMA RecordsAppend ==
    ASSUME NEW E, NEW C, HaveContents(C, E),
           NEW records \in Seq(C), NEW record \in C
    PROVE  /\ Contents(records) \in Seq(Seq(E)) /\ Len(Contents(records)) = Len(records)
           /\ Append(records, record) \in Seq(C)
           /\ Contents(Append(records, record)) = Append(Contents(records), record.content)
<1> DEFINE n == Len(records)
           t == Append(records, record)
<1>1. n \in Nat /\ DOMAIN records = 1..n /\ \A i \in 1..n : records[i] \in C
    BY LenProperties, ElementOfSeq
<1>2. t \in Seq(C) /\ Len(t) = n + 1 /\ DOMAIN t = 1..(n + 1) /\ t[n + 1] = record /\ \A i \in 1..n : t[i] = records[i]
    BY AppendProperties, LenProperties
<1>3. \A c \in C : c.content \in Seq(E)
    BY DEF HaveContents
<1>4. record.content \in Seq(E) /\ \A i \in 1..n : records[i].content \in Seq(E)
    BY <1>1, <1>3
<1> HIDE DEF n, t
<1>5. Contents(records) \in Seq(Seq(E)) /\ Len(Contents(records)) = n
    BY <1>1, <1>4 DEF Contents
<1>6. \A i \in 1..n : Contents(records)[i] = records[i].content
    BY <1>1 DEF Contents
<1>7. Contents(t) = [i \in 1..(n + 1) |-> t[i].content]
    BY <1>2 DEF Contents
<1>8. PICK a \in Seq(Seq(E)) : a = Contents(records)
    BY <1>5
<1>9. PICK x \in Seq(E) : x = record.content
    BY <1>4
<1>10. Append(a, x) \in Seq(Seq(E)) /\ Len(Append(a, x)) = n + 1 /\ Append(a, x)[n + 1] = x
       /\ \A i \in 1..n : Append(a, x)[i] = a[i]
    BY <1>5, <1>8, AppendProperties
<1>11. PICK m \in Nat : m = n + 1
    BY <1>1
<1>12. \A i \in 1..m : t[i].content \in Seq(E) /\ t[i].content = Append(a, x)[i]
  <2>1. \A i \in 1..m : i \in 1..n \/ i = n + 1
      BY <1>1, <1>11
  <2> QED
      BY <1>2, <1>4, <1>6, <1>8, <1>9, <1>10, <2>1
<1>13. PICK b : b = [i \in 1..m |-> t[i].content]
    OBVIOUS
<1>14. b \in Seq(Seq(E)) /\ Len(b) = m /\ \A i \in 1..m : b[i] = Append(a, x)[i]
  <2>1. b \in [1..m -> Seq(E)] /\ \A i \in 1..m : b[i] = Append(a, x)[i]
      BY <1>12, <1>13
  <2> QED
      BY <2>1, SequenceOf
<1>15. b = Append(a, x)
  <2>1. PICK c \in Seq(Seq(E)) : c = Append(a, x)
      BY <1>10
  <2> QED
      BY <1>10, <1>11, <1>14, <2>1, SeqEqual
<1>16. Contents(t) = Append(Contents(records), record.content)
    BY <1>7, <1>8, <1>9, <1>11, <1>13, <1>15
<1> QED
    BY <1>2, <1>5, <1>16 DEF n, t

\* One chapter more.
LEMMA ContentsAppend ==
    ASSUME NEW E, NEW T, NEW chapters \in Seq(Chapters(T, E)), NEW chapter \in Chapters(T, E)
    PROVE  /\ Contents(chapters) \in Seq(Seq(E)) /\ Len(Contents(chapters)) = Len(chapters)
           /\ Append(chapters, chapter) \in Seq(Chapters(T, E))
           /\ Contents(Append(chapters, chapter)) = Append(Contents(chapters), chapter.content)
<1>1. HaveContents(Chapters(T, E), E)
    BY DEF Chapters, HaveContents
<1> QED
    BY <1>1, RecordsAppend

\* One item more.
LEMMA ItemsAppend ==
    ASSUME NEW items \in Seq(Items), NEW item \in Items
    PROVE  /\ Contents(items) \in Seq(Seq([text : Texts \ {<<>>}]))
           /\ Contents(Append(items, item)) = Append(Contents(items), item.content)
<1>1. HaveContents(Items, [text : Texts \ {<<>>}])
    BY DEF Items, HaveContents
<1> QED
    BY <1>1, RecordsAppend

\* A sequence is its first element and the rest.
LEMMA FirstAndRest ==
    ASSUME NEW R, NEW seqs \in Seq(R), seqs # <<>>, NEW y \in R
    PROVE  /\ seqs[1] \in R
           /\ Tail(seqs) \in Seq(R)
           /\ seqs = <<seqs[1]>> \o Tail(seqs)
           /\ [seqs EXCEPT ![1] = y] = <<y>> \o Tail(seqs)
           /\ Append(<<>>, y) = <<y>> /\ <<y>> \in Seq(R)
BY HeadTailProperties

\* What goes to the front of the first sequence goes to the front of all.
LEMMA JoinedFront ==
    ASSUME NEW S, NEW seqs \in Seq(Seq(S)), seqs # <<>>, NEW a \in Seq(S)
    PROVE  Joined([seqs EXCEPT ![1] = a \o @]) = a \o Joined(seqs)
<1>1. seqs[1] \in Seq(S) /\ Tail(seqs) \in Seq(Seq(S))
  <2>1. a \in Seq(S)
      OBVIOUS
  <2> QED
      BY <2>1, FirstAndRest
<1>a. PICK x \in Seq(S) : x = seqs[1]
    BY <1>1
<1>b. PICK t \in Seq(Seq(S)) : t = Tail(seqs)
    BY <1>1
<1>2. PICK y \in Seq(S) : y = a \o x
    BY ConcatProperties
<1>3. <<x>> \in Seq(Seq(S)) /\ <<y>> \in Seq(Seq(S))
    BY FirstAndRest
<1>4. seqs = <<x>> \o t
    BY <1>a, <1>b, FirstAndRest
<1>5. [seqs EXCEPT ![1] = a \o @] = <<y>> \o t
  <2>1. [seqs EXCEPT ![1] = y] = <<y>> \o t
      BY <1>b, FirstAndRest
  <2>2. [seqs EXCEPT ![1] = a \o @] = [seqs EXCEPT ![1] = y]
      BY <1>a, <1>2
  <2> QED
      BY <2>1, <2>2
<1>6. ASSUME NEW z \in Seq(S) PROVE Joined(<<z>>) = z
  <2>1. Joined(<<>>) = <<>>
      BY JoinedAppend, Zenon
  <2>2. <<>> \in Seq(Seq(S)) /\ Append(<<>>, z) = <<z>> /\ <<>> \o z = z
      BY FirstAndRest, ConcatEmptySeq
  <2>3. Joined(Append(<<>>, z)) = Joined(<<>>) \o z
      BY <2>2, JoinedAppend
  <2> QED
      BY <2>1, <2>2, <2>3
<1>7. Joined(<<x>> \o t) = Joined(<<x>>) \o Joined(t) /\ Joined(<<y>> \o t) = Joined(<<y>>) \o Joined(t)
    BY <1>3, JoinedConcat
<1>8. PICK r \in Seq(S) : r = Joined(t)
    BY JoinedType
<1>9. (a \o x) \o r = a \o (x \o r)
  <2>1. Grouped(a, x, r)
      BY GroupedAlways
  <2> QED
      BY <2>1 DEF Grouped
<1> HIDE DEF Joined
<1>10. Joined(seqs) = x \o r
    BY <1>4, <1>6, <1>7, <1>8
<1>11. Joined([seqs EXCEPT ![1] = a \o @]) = y \o r
    BY <1>5, <1>6, <1>7, <1>8
<1> QED
    BY <1>2, <1>9, <1>10, <1>11

\* Paragraphs with a text, titles, and the states of the DOCX parser.
Readable == {p \in Paragraphs : p.text # <<>>}
Titles   == Texts \cup {Introduction}
Readings == [chapters : Seq(Chapters(Titles, Readable)), intro : Seq(Readable),
             title : Titles, content : Seq(Readable)]

\* The parser begins with the introduction.
Start == [chapters |-> <<>>, intro |-> <<>>, title |-> Introduction, content |-> <<>>]

\* What DocxStep has made of the first paragraphs.
Reading(paragraphs) == FoldLeft(DocxStep, Start, paragraphs)

\* A heading level is a number.
LEMMA Levels == \A p \in Paragraphs : HeadingLevel(p) \in Nat
BY DEF Paragraphs, HeadingLevel

\* The four things a paragraph can do.
LEMMA DocxCases ==
    ASSUME NEW st \in Readings, NEW p \in Paragraphs
    PROVE  \/ p.text = <<>> /\ DocxStep(st, p) = st
           \/ p.text # <<>> /\ HeadingLevel(p) # 0 /\ DocxStep(st, p) = NextChapter(st, p.text)
           \/ /\ p.text # <<>> /\ (HeadingLevel(p) = 0 => st.chapters = <<>> /\ st.title = Introduction)
              /\ DocxStep(st, p) = [st EXCEPT !.intro = Append(@, p)]
           \/ /\ p.text # <<>> /\ ~(st.chapters = <<>> /\ st.title = Introduction)
              /\ DocxStep(st, p) = [st EXCEPT !.content = Append(@, p)]
<1>1. HeadingLevel(p) \in Nat
    BY Levels
<1> QED
    BY <1>1 DEF DocxStep

\* A record with the fields of a reading.
LEMMA ReadingFields ==
    ASSUME NEW C, NEW I, NEW T, NEW B,
           NEW st \in [chapters : C, intro : I, title : T, content : B],
           NEW c \in C, NEW i \in I, NEW t \in T, NEW b \in B
    PROVE  /\ st.chapters \in C /\ st.intro \in I /\ st.title \in T /\ st.content \in B
           /\ [st EXCEPT !.chapters = c, !.title = t, !.content = b]
                = [chapters |-> c, intro |-> st.intro, title |-> t, content |-> b]
           /\ [st EXCEPT !.intro = i] = [chapters |-> st.chapters, intro |-> i, title |-> st.title, content |-> st.content]
           /\ [st EXCEPT !.content = b] = [chapters |-> st.chapters, intro |-> st.intro, title |-> st.title, content |-> b]
<1>1. st.chapters \in C /\ st.intro \in I /\ st.title \in T /\ st.content \in B
    OBVIOUS
<1>2. PICK u, v, w, z : st = [chapters |-> u, intro |-> v, title |-> w, content |-> z]
    OBVIOUS
<1>3. st.chapters = u /\ st.intro = v /\ st.title = w /\ st.content = z
    BY <1>2
<1>4. [st EXCEPT !.chapters = c, !.title = t, !.content = b] = [chapters |-> c, intro |-> v, title |-> t, content |-> b]
  <2>1. PICK x : x = [st EXCEPT !.chapters = c]
      OBVIOUS
  <2>2. x = [chapters |-> c, intro |-> v, title |-> w, content |-> z]
      BY <1>2, <2>1
  <2>3. PICK y : y = [x EXCEPT !.title = t]
      OBVIOUS
  <2>4. y = [chapters |-> c, intro |-> v, title |-> t, content |-> z]
      BY <2>2, <2>3
  <2>5. [y EXCEPT !.content = b] = [chapters |-> c, intro |-> v, title |-> t, content |-> b]
      BY <2>4
  <2>6. [st EXCEPT !.chapters = c, !.title = t, !.content = b] = [y EXCEPT !.content = b]
      BY <2>1, <2>3
  <2> QED
      BY <2>5, <2>6
<1>5. [st EXCEPT !.intro = i] = [chapters |-> u, intro |-> i, title |-> w, content |-> z]
    BY <1>2
<1>6. [st EXCEPT !.content = b] = [chapters |-> u, intro |-> v, title |-> w, content |-> b]
    BY <1>2
<1> QED
    BY <1>1, <1>3, <1>4, <1>5, <1>6

\* The same of readings.
LEMMA ReadingTypes ==
    ASSUME NEW st \in Readings
    PROVE  /\ st.chapters \in Seq(Chapters(Titles, Readable))
           /\ st.intro \in Seq(Readable) /\ st.title \in Titles /\ st.content \in Seq(Readable)
           /\ [title |-> st.title, content |-> st.content] \in Chapters(Titles, Readable)
<1>1. /\ st.chapters \in Seq(Chapters(Titles, Readable))
      /\ st.intro \in Seq(Readable) /\ st.title \in Titles /\ st.content \in Seq(Readable)
    BY DEF Readings
<1>2. \A t \in Titles, b \in Seq(Readable) : [title |-> t, content |-> b] \in Chapters(Titles, Readable)
    BY DEF Chapters
<1> QED
    BY <1>1, <1>2

\* The fields after the end of a chapter.
LEMMA NextChapterFields ==
    ASSUME NEW st \in Readings, NEW title \in Titles
    PROVE  /\ NextChapter(st, title) \in Readings
           /\ NextChapter(st, title).intro = st.intro
           /\ NextChapter(st, title).title = title
           /\ NextChapter(st, title).content = <<>>
           /\ st.content = <<>> => NextChapter(st, title).chapters = st.chapters
           /\ st.content # <<>> =>
                NextChapter(st, title).chapters = Append(st.chapters, [title |-> st.title, content |-> st.content])
<1> DEFINE K == Chapters(Titles, Readable)
           C == Seq(K)
           chapter == [title |-> st.title, content |-> st.content]
<1>1. st.chapters \in C /\ st.intro \in Seq(Readable) /\ Append(st.chapters, chapter) \in C /\ <<>> \in Seq(Readable)
  <2>1. st.chapters \in Seq(K) /\ chapter \in K /\ st.intro \in Seq(Readable)
      BY ReadingTypes
  <2> HIDE DEF K, chapter
  <2> QED
      BY <2>1, AppendProperties, EmptySeq
<1>2. PICK c \in C : c = IF st.content = <<>> THEN st.chapters ELSE Append(st.chapters, chapter)
    BY <1>1
<1>3. NextChapter(st, title) = [st EXCEPT !.chapters = c, !.title = title, !.content = <<>>]
    BY <1>2 DEF NextChapter
<1> HIDE DEF C, chapter
<1>4. Readings = [chapters : C, intro : Seq(Readable), title : Titles, content : Seq(Readable)]
    BY DEF Readings, C, K
<1>5. NextChapter(st, title) = [chapters |-> c, intro |-> st.intro, title |-> title, content |-> <<>>]
    BY <1>1, <1>3, <1>4, ReadingFields
<1> QED
    BY <1>1, <1>2, <1>4, <1>5 DEF chapter

\* A paragraph more is read.
LEMMA ReadingsClosed == Start \in Readings /\ \A st \in Readings, p \in Paragraphs : DocxStep(st, p) \in Readings
<1>1. Start \in Readings
    BY DEF Start, Readings, Titles
<1>2. ASSUME NEW st \in Readings, NEW p \in Paragraphs PROVE DocxStep(st, p) \in Readings
  <2>1. p.text \in Titles
      BY DEF Paragraphs, Titles
  <2>2. NextChapter(st, p.text) \in Readings
      BY <2>1, NextChapterFields
  <2>3. p.text # <<>> => p \in Readable
      BY DEF Readable
  <2>4. st.intro \in Seq(Readable) /\ st.content \in Seq(Readable)
      BY ReadingTypes
  <2>5. p.text # <<>> => Append(st.intro, p) \in Seq(Readable) /\ Append(st.content, p) \in Seq(Readable)
      BY <2>3, <2>4, AppendProperties
  <2>6. /\ \A s \in Seq(Readable) : [st EXCEPT !.intro = s] \in Readings
        /\ \A s \in Seq(Readable) : [st EXCEPT !.content = s] \in Readings
      BY DEF Readings
  <2> QED
      BY <2>2, <2>5, <2>6, DocxCases
<1> QED
    BY <1>1, <1>2

\* What Reading(seq) has made of the elements up to each place.
LEMMA ReadingSteps ==
    ASSUME NEW s \in Seq(Paragraphs)
    PROVE  \E F : Steps(DocxStep, Start, s, F) /\ Reading(s) = F[Len(s)]
<1> DEFINE n == Len(s)
           H == CHOOSE h : IsFold(DocxStep, Start, s, h)
           F == [k \in 0..n |-> H[1..k]]
<1>1. Reading(s) = H[DOMAIN s]
    BY Zenon DEF Reading, FoldLeft, MapThenFoldSet, IsFold
<1>2. DOMAIN s = 1..n /\ n \in Nat /\ \A k \in 1..n : s[k] \in Paragraphs
    OBVIOUS
<1>3. IsFold(DocxStep, Start, s, H)
  <2> DEFINE step == [a \in Readings |-> [k \in 1..n |-> DocxStep(a, s[k])]]
  <2> HIDE DEF n
  <2>1. \A a \in Readings, k \in 1..n : step[a][k] = DocxStep(a, s[k]) /\ step[a][k] \in Readings
      BY <1>2, ReadingsClosed
  <2>2. PICK h \in FoldFunctions(n, Readings, Start, step) : TRUE
    <3> HIDE DEF step, H, F
    <3>1. n \in Nat /\ Start \in Readings
        BY <1>2, ReadingsClosed
    <3> QED
        BY <2>1, <3>1, FoldExists
  <2>3. \A t \in SUBSET (1..n) : t # {} => h[t] = DocxStep(h[t \ {Max(t)}], s[Max(t)])
      BY <1>2, <2>1, GreatestNumber DEF FoldFunctions, Folded
  <2>4. IsFold(DocxStep, Start, s, h)
      BY <1>2, <2>3 DEF IsFold, FoldFunctions, Folded
  <2> QED
      BY <2>4, Zenon
<1> HIDE DEF H, n
<1>4. F[0] = Start
    BY <1>2, <1>3 DEF IsFold
<1>5. ASSUME NEW k \in 1..n PROVE F[k] = DocxStep(F[k - 1], s[k])
  <2>1. 1..k \in SUBSET DOMAIN s /\ k - 1 \in 0..n /\ k \in Nat \ {0}
      BY <1>2
  <2>2. H[1..k] = DocxStep(H[1..(k - 1)], s[k])
      BY <1>3, <2>1, GreatestOfPrefix DEF IsFold
  <2> QED
      BY <2>1, <2>2
<1>6. Reading(s) = F[n]
    BY <1>1, <1>2
<1> HIDE DEF F
<1>7. Steps(DocxStep, Start, s, F)
    BY <1>4, <1>5 DEF Steps, n
<1> QED
    BY <1>6, <1>7 DEF n

\* One paragraph more.
LEMMA ReadingAppend ==
    /\ Reading(<<>>) = Start
    /\ \A s \in Seq(Paragraphs), x \in Paragraphs : Reading(Append(s, x)) = DocxStep(Reading(s), x)
<1>1. Reading(<<>>) = Start
  <2>1. <<>> \in Seq(Paragraphs) /\ Len(<<>>) = 0
      OBVIOUS
  <2>2. PICK F : Steps(DocxStep, Start, <<>>, F) /\ Reading(<<>>) = F[Len(<<>>)]
      BY <2>1, ReadingSteps, Zenon
  <2> QED
      BY <2>1, <2>2 DEF Steps
<1>2. ASSUME NEW s \in Seq(Paragraphs), NEW x \in Paragraphs
      PROVE  Reading(Append(s, x)) = DocxStep(Reading(s), x)
  <2> DEFINE n == Len(s)
             t == Append(s, x)
  <2>1. n \in Nat /\ t \in Seq(Paragraphs) /\ Len(t) = n + 1 /\ t[n + 1] = x /\ \A k \in 1..n : t[k] = s[k]
      OBVIOUS
  <2>2. PICK F : Steps(DocxStep, Start, s, F) /\ Reading(s) = F[n]
      BY ReadingSteps, Zenon
  <2>3. PICK G : Steps(DocxStep, Start, t, G) /\ Reading(t) = G[Len(t)]
      BY <2>1, ReadingSteps, Zenon
  <2> HIDE DEF t
  <2>4. F[0] = G[0] /\ \A k \in 1..n : F[k - 1] = G[k - 1] => F[k] = G[k]
      BY <2>1, <2>2, <2>3 DEF Steps
  <2>5. F[n] = G[n]
      BY <2>1, <2>4, Agreement
  <2>6. G[n + 1] = DocxStep(G[n], x)
    <3>1. n + 1 \in 1..Len(t) /\ (n + 1) - 1 = n
        BY <2>1
    <3> QED
        BY <2>1, <2>3, <3>1 DEF Steps
  <2> QED
      BY <2>1, <2>2, <2>3, <2>5, <2>6 DEF t
<1> QED
    BY <1>1, <1>2

\* Every ended chapter has paragraphs, nothing but the introduction comes before the
\* first title, and what is read of kept stands in its order.
ReadInOrder(kept, st, paragraphs) ==
    /\ \A i \in DOMAIN st.chapters : st.chapters[i].content # <<>>
    /\ st.chapters = <<>> /\ st.title = Introduction => st.content = <<>>
    /\ (Only(kept, st.intro) \o Only(kept, Joined(Contents(st.chapters)))) \o Only(kept, st.content)
         = Only(kept, paragraphs)

\* Paragraphs of the body: no headings, and with a text.
BodyOnly(kept) == \A p \in kept : HeadingLevel(p) = 0 /\ p.text # <<>>

\* The contents of a reading's chapters, and what is selected from a reading.
LEMMA ReadingSelected ==
    ASSUME NEW st \in Readings, NEW kept
    PROVE  /\ Contents(st.chapters) \in Seq(Seq(Readable))
           /\ Joined(Contents(st.chapters)) \in Seq(Readable)
           /\ Only(kept, st.intro) \in Seq(Readable)
           /\ Only(kept, Joined(Contents(st.chapters))) \in Seq(Readable)
           /\ Only(kept, st.content) \in Seq(Readable)
<1>1. Contents(st.chapters) \in Seq(Seq(Readable))
  <2>1. PICK c \in Chapters(Titles, Readable) : TRUE
      BY ReadingTypes
  <2>2. PICK chapters \in Seq(Chapters(Titles, Readable)) : chapters = st.chapters
      BY ReadingTypes
  <2>3. Contents(chapters) \in Seq(Seq(Readable))
      BY ContentsAppend
  <2> QED
      BY <2>2, <2>3
<1>2. PICK a \in Seq(Seq(Readable)) : a = Contents(st.chapters)
    BY <1>1
<1>3. PICK b \in Seq(Readable) : b = Joined(a)
    BY JoinedType
<1>4. PICK i \in Seq(Readable) : i = st.intro
    BY ReadingTypes
<1>5. PICK c \in Seq(Readable) : c = st.content
    BY ReadingTypes
<1>6. Only(kept, b) \in Seq(Readable) /\ Only(kept, i) \in Seq(Readable) /\ Only(kept, c) \in Seq(Readable)
    BY OnlyType
<1> QED
    BY <1>2, <1>3, <1>4, <1>5, <1>6

\* An element after two sequences is one after the second.
LEMMA ConcatAppend ==
    ASSUME NEW S, NEW a \in Seq(S), NEW b \in Seq(S), NEW x \in S
    PROVE  a \o Append(b, x) = Append(a \o b, x)
OBVIOUS

\* Nothing after the second of two sequences is put before it.
LEMMA Regrouped ==
    ASSUME NEW S, NEW a \in Seq(S), NEW b \in Seq(S), NEW c \in Seq(S)
    PROVE  (a \o (b \o c)) \o <<>> = (a \o b) \o c
<1>1. PICK d \in Seq(S) : d = b \o c
    BY ConcatProperties
<1>2. PICK e \in Seq(S) : e = a \o d
    BY ConcatProperties
<1>3. e \o <<>> = e
    BY ConcatEmptySeq
<1>4. (a \o b) \o c = a \o (b \o c)
  <2>1. Grouped(a, b, c)
      BY GroupedAlways
  <2> QED
      BY <2>1 DEF Grouped
<1> QED
    BY <1>1, <1>2, <1>3, <1>4

\* The places of a sequence with one element more.
LEMMA Places ==
    ASSUME NEW S, NEW seq \in Seq(S), NEW x \in S
    PROVE  /\ Append(seq, x) # <<>>
           /\ \A i \in DOMAIN Append(seq, x) :
                \/ i \in DOMAIN seq /\ Append(seq, x)[i] = seq[i]
                \/ Append(seq, x)[i] = x
<1>1. Len(seq) \in Nat /\ DOMAIN seq = 1..Len(seq) /\ DOMAIN Append(seq, x) = 1..(Len(seq) + 1)
    BY AppendProperties, LenProperties
<1>2. \A i \in 1..(Len(seq) + 1) : i \in 1..Len(seq) \/ i = Len(seq) + 1
    BY <1>1
<1> QED
    BY <1>1, <1>2, AppendProperties

\* What is selected from chapters with one chapter more.
LEMMA ChapterSelected ==
    ASSUME NEW T, NEW E, NEW kept, NEW chapters \in Seq(Chapters(T, E)), NEW c \in Chapters(T, E)
    PROVE  Only(kept, Joined(Contents(Append(chapters, c)))) = Only(kept, Joined(Contents(chapters))) \o Only(kept, c.content)
<1>1. Contents(Append(chapters, c)) = Append(Contents(chapters), c.content)
    BY ContentsAppend
<1>2. PICK D \in Seq(Seq(E)) : D = Contents(chapters)
    BY ContentsAppend
<1>3. PICK b \in Seq(E) : b = c.content
    BY DEF Chapters
<1>4. Joined(Append(D, b)) = Joined(D) \o b
    BY JoinedAppend
<1>5. PICK J \in Seq(E) : J = Joined(D)
    BY JoinedType
<1>6. Only(kept, J \o b) = Only(kept, J) \o Only(kept, b)
  <2>1. SelectedApart(kept, J, b)
      BY OnlyConcat
  <2> QED
      BY <2>1 DEF SelectedApart
<1> QED
    BY <1>1, <1>2, <1>3, <1>4, <1>5, <1>6

\* The end of a chapter moves the content, in its order, to the chapters.
LEMMA ChapterEnds ==
    ASSUME NEW st \in Readings, NEW title \in Titles, NEW kept, NEW paragraphs,
           ReadInOrder(kept, st, paragraphs)
    PROVE  ReadInOrder(kept, NextChapter(st, title), paragraphs)
<1> DEFINE next == NextChapter(st, title)
<1>1. PICK I \in Seq(Readable) : I = Only(kept, st.intro)
    BY ReadingSelected
<1>2. PICK C \in Seq(Readable) : C = Only(kept, Joined(Contents(st.chapters)))
    BY ReadingSelected
<1>3. PICK B \in Seq(Readable) : B = Only(kept, st.content)
    BY ReadingSelected
<1>4. (I \o C) \o B = Only(kept, paragraphs)
    BY <1>1, <1>2, <1>3 DEF ReadInOrder
<1>5. Only(kept, <<>>) = <<>>
    BY OnlyNothing
<1>6. /\ next.intro = st.intro /\ next.content = <<>>
      /\ st.content = <<>> => next.chapters = st.chapters
      /\ st.content # <<>> => next.chapters = Append(st.chapters, [title |-> st.title, content |-> st.content])
    BY NextChapterFields
<1> HIDE DEF next
<1>7. CASE st.content = <<>>
  <2>1. B = <<>> /\ next.chapters = st.chapters
      BY <1>3, <1>5, <1>6, <1>7
  <2> QED
      BY <1>1, <1>2, <1>3, <1>4, <1>5, <1>6, <1>7, <2>1 DEF ReadInOrder, next
<1>8. CASE st.content # <<>>
  <2>1. PICK chapters \in Seq(Chapters(Titles, Readable)) : chapters = st.chapters
      BY ReadingTypes
  <2>2. PICK c \in Chapters(Titles, Readable) : c = [title |-> st.title, content |-> st.content]
      BY ReadingTypes
  <2>3. c.content = st.content
      BY <2>2
  <2>4. next.chapters = Append(chapters, c)
      BY <1>6, <1>8, <2>1, <2>2
  <2>5. Only(kept, Joined(Contents(Append(chapters, c)))) = Only(kept, Joined(Contents(chapters))) \o Only(kept, c.content)
      BY ChapterSelected
  <2>11. Only(kept, Joined(Contents(next.chapters))) = C \o B
      BY <1>2, <1>3, <2>1, <2>3, <2>4, <2>5
  <2>12. (I \o (C \o B)) \o <<>> = (I \o C) \o B
      BY Regrouped
  <2>13. next.chapters # <<>> /\ \A i \in DOMAIN next.chapters : next.chapters[i].content # <<>>
    <3>1. \A i \in DOMAIN chapters : chapters[i].content # <<>>
        BY <2>1 DEF ReadInOrder
    <3>2. /\ Append(chapters, c) # <<>>
          /\ \A i \in DOMAIN Append(chapters, c) :
               \/ i \in DOMAIN chapters /\ Append(chapters, c)[i] = chapters[i]
               \/ Append(chapters, c)[i] = c
        BY Places
    <3> QED
        BY <1>8, <2>3, <2>4, <3>1, <3>2
  <2> QED
      BY <1>1, <1>4, <1>5, <1>6, <2>11, <2>12, <2>13 DEF ReadInOrder, next
<1> QED
    BY <1>7, <1>8

\* One paragraph more is read in its order.
LEMMA StepInOrder ==
    ASSUME NEW kept, BodyOnly(kept), NEW st \in Readings, NEW q \in Seq(Paragraphs), NEW p \in Paragraphs,
           ReadInOrder(kept, st, q)
    PROVE  ReadInOrder(kept, DocxStep(st, p), Append(q, p))
<1>1. PICK I \in Seq(Readable) : I = Only(kept, st.intro)
    BY ReadingSelected
<1>2. PICK C \in Seq(Readable) : C = Only(kept, Joined(Contents(st.chapters)))
    BY ReadingSelected
<1>3. PICK B \in Seq(Readable) : B = Only(kept, st.content)
    BY ReadingSelected
<1>4. (I \o C) \o B = Only(kept, q)
    BY <1>1, <1>2, <1>3 DEF ReadInOrder
<1>5. Only(kept, Append(q, p)) = Keeping(kept, Only(kept, q), p)
    BY OnlyAppend
<1>6. p \notin kept => Only(kept, Append(q, p)) = Only(kept, q)
    BY <1>5 DEF Keeping
<1>7. p \in kept => HeadingLevel(p) = 0 /\ p.text # <<>> /\ p \in Readable
    BY DEF BodyOnly, Readable
<1>8. CASE p.text = <<>> /\ DocxStep(st, p) = st
    BY <1>6, <1>7, <1>8 DEF ReadInOrder
<1>9. CASE p.text # <<>> /\ HeadingLevel(p) # 0 /\ DocxStep(st, p) = NextChapter(st, p.text)
  <2>1. p.text \in Titles
      BY DEF Paragraphs, Titles
  <2>2. ReadInOrder(kept, NextChapter(st, p.text), q)
      BY <2>1, ChapterEnds
  <2> QED
      BY <1>6, <1>7, <1>9, <2>2 DEF ReadInOrder
<1>10. CASE /\ p.text # <<>> /\ (HeadingLevel(p) = 0 => st.chapters = <<>> /\ st.title = Introduction)
            /\ DocxStep(st, p) = [st EXCEPT !.intro = Append(@, p)]
  <2>1. p \in Readable
      BY <1>10 DEF Readable
  <2>2. PICK i \in Seq(Readable) : i = st.intro
      BY ReadingTypes
  <2>3. PICK next : next = DocxStep(st, p)
      OBVIOUS
  <2>4. next.intro = Append(i, p) /\ next.chapters = st.chapters /\ next.title = st.title /\ next.content = st.content
      BY <1>10, <2>2, <2>3 DEF Readings
  <2>5. Only(kept, next.intro) = Keeping(kept, I, p)
      BY <1>1, <2>1, <2>2, <2>4, OnlyAppend
  <2>6. (Keeping(kept, I, p) \o C) \o B = Only(kept, Append(q, p))
    <3>1. CASE p \notin kept
        BY <1>4, <1>6, <3>1 DEF Keeping
    <3>2. CASE p \in kept
      <4>1. st.chapters = <<>> /\ st.content = <<>>
          BY <1>7, <1>10, <3>2 DEF ReadInOrder
      <4>2. Joined(<<>>) = <<>>
          BY JoinedAppend, Zenon
      <4>3. Contents(<<>>) = <<>>
          BY DEF Contents
      <4>4. C = <<>> /\ B = <<>>
          BY <1>2, <1>3, <4>1, <4>2, <4>3, OnlyNothing
      <4>5. (I \o C) \o B = I
          BY <4>4, ConcatEmptySeq
      <4>6. PICK s \in Seq(Readable) : s = Append(I, p)
          BY <2>1, AppendProperties
      <4>7. (s \o C) \o B = s
          BY <4>4, ConcatEmptySeq
      <4> QED
          BY <1>4, <1>5, <3>2, <4>5, <4>6, <4>7 DEF Keeping
    <3> QED
        BY <3>1, <3>2
  <2> QED
      BY <1>2, <1>3, <2>3, <2>4, <2>5, <2>6 DEF ReadInOrder
<1>11. CASE /\ p.text # <<>> /\ ~(st.chapters = <<>> /\ st.title = Introduction)
            /\ DocxStep(st, p) = [st EXCEPT !.content = Append(@, p)]
  <2>1. p \in Readable
      BY <1>11 DEF Readable
  <2>2. PICK b \in Seq(Readable) : b = st.content
      BY ReadingTypes
  <2>3. PICK next : next = DocxStep(st, p)
      OBVIOUS
  <2>4. next.content = Append(b, p) /\ next.chapters = st.chapters /\ next.title = st.title /\ next.intro = st.intro
      BY <1>11, <2>2, <2>3 DEF Readings
  <2>5. Only(kept, next.content) = Keeping(kept, B, p)
      BY <1>3, <2>1, <2>2, <2>4, OnlyAppend
  <2>6. PICK s \in Seq(Readable) : s = I \o C
      BY ConcatProperties
  <2>7. s \o Append(B, p) = Append(s \o B, p)
      BY <2>1, ConcatAppend
  <2>8. s \o Keeping(kept, B, p) = Only(kept, Append(q, p))
      BY <1>4, <1>5, <2>6, <2>7 DEF Keeping
  <2> QED
      BY <1>1, <1>2, <1>11, <2>3, <2>4, <2>5, <2>6, <2>8 DEF ReadInOrder
<1> QED
    BY <1>8, <1>9, <1>10, <1>11, DocxCases

\* The paragraphs of the body are read in their order.
LEMMA ReadingInOrder ==
    ASSUME NEW kept, BodyOnly(kept), NEW paragraphs \in Seq(Paragraphs)
    PROVE  Reading(paragraphs) \in Readings /\ ReadInOrder(kept, Reading(paragraphs), paragraphs)
<1> DEFINE P == {q \in Seq(Paragraphs) : Reading(q) \in Readings /\ ReadInOrder(kept, Reading(q), q)}
<1>1. <<>> \in P
  <2>1. Reading(<<>>) = Start /\ Start \in Readings
      BY ReadingAppend, ReadingsClosed
  <2>2. Contents(<<>>) = <<>> /\ Joined(<<>>) = <<>>
    <3>1. Contents(<<>>) = <<>>
        BY DEF Contents
    <3>2. Joined(<<>>) = <<>>
        BY JoinedAppend, Zenon
    <3> QED
        BY <3>1, <3>2
  <2>3. Start.chapters = <<>> /\ Start.intro = <<>> /\ Start.content = <<>>
      BY DEF Start
  <2>4. <<>> \o <<>> = <<>> /\ <<>> \in Seq(Paragraphs) /\ DOMAIN <<>> = {}
      OBVIOUS
  <2>5. ReadInOrder(kept, Start, <<>>)
      BY <2>2, <2>3, <2>4, OnlyNothing DEF ReadInOrder
  <2> QED
      BY <2>1, <2>4, <2>5
<1>2. ASSUME NEW q \in P, NEW p \in Paragraphs PROVE Append(q, p) \in P
  <2>1. q \in Seq(Paragraphs) /\ Reading(q) \in Readings /\ ReadInOrder(kept, Reading(q), q)
      OBVIOUS
  <2>2. Append(q, p) \in Seq(Paragraphs) /\ Reading(Append(q, p)) = DocxStep(Reading(q), p)
      BY <2>1, ReadingAppend, AppendProperties
  <2>3. DocxStep(Reading(q), p) \in Readings
      BY <2>1, ReadingsClosed
  <2>4. ReadInOrder(kept, DocxStep(Reading(q), p), Append(q, p))
      BY <2>1, StepInOrder
  <2> QED
      BY <2>2, <2>3, <2>4
<1>3. P = Seq(Paragraphs)
  <2> P \in SUBSET Seq(Paragraphs)
      OBVIOUS
  <2> HIDE DEF P
  <2> QED
      BY <1>1, <1>2, SequenceInduction
<1> QED
    BY <1>3

\* The paragraphs that have a text.
LEMMA TextsRead ==
    ASSUME NEW paragraphs \in Seq(Paragraphs), NEW kept, BodyOnly(kept)
    PROVE  LET all == Only({p \in Range(paragraphs) : p.text # <<>>}, paragraphs)
           IN /\ all \in Seq(Readable)
              /\ Only(kept, all) = Only(kept, paragraphs)
              /\ DocxAccepted(paragraphs) => all # <<>>
<1> DEFINE R == {p \in Range(paragraphs) : p.text # <<>>}
           all == Only(R, paragraphs)
<1>1. paragraphs \in Seq(Range(paragraphs)) /\ Range(paragraphs) \subseteq Paragraphs
  <2>1. Len(paragraphs) \in Nat /\ DOMAIN paragraphs = 1..Len(paragraphs) /\ \A i \in 1..Len(paragraphs) : paragraphs[i] \in Paragraphs
      BY LenProperties, ElementOfSeq
  <2>2. Range(paragraphs) = {paragraphs[i] : i \in 1..Len(paragraphs)}
      BY <2>1 DEF Range
  <2>3. paragraphs \in [1..Len(paragraphs) -> Range(paragraphs)]
      BY <2>1, <2>2, LenProperties
  <2> QED
      BY <2>1, <2>2, <2>3, SequenceOf
<1>2. R \subseteq Readable
    BY <1>1 DEF Readable
<1>3. all \in Seq(R) /\ (all = <<>> <=> \A i \in 1..Len(paragraphs) : paragraphs[i] \notin R)
    BY OnlyEmpty
<1>4. all \in Seq(Readable)
  <2> HIDE DEF all, R
  <2> QED
      BY <1>2, <1>3, SeqMonotonic
<1>5. kept \cap Range(paragraphs) \subseteq R
    BY DEF BodyOnly
<1>6. Only(kept, all) = Only(kept, paragraphs)
  <2> HIDE DEF R
  <2> QED
      BY <1>1, <1>5, OnlyTwice
<1>7. ASSUME DocxAccepted(paragraphs) PROVE all # <<>>
  <2>1. PICK i \in 1..Len(paragraphs) : paragraphs[i].text # <<>>
      BY <1>7, LenProperties DEF DocxAccepted
  <2>2. paragraphs[i] \in R
      BY <2>1, LenProperties DEF Range
  <2> HIDE DEF R, all
  <2> QED
      BY <1>3, <2>2
<1> QED
    BY <1>4, <1>6, <1>7

\* The chapters with paragraphs in front of those of the first.
Fronted(chapters, front) == [chapters EXCEPT ![1].content = front \o @]

\* Paragraphs put in front of the first chapter is in front of all the contents.
LEMMA FrontOfChapters ==
    ASSUME NEW T, NEW E, NEW chapters \in Seq(Chapters(T, E)), chapters # <<>>, NEW front \in Seq(E)
    PROVE  /\ Fronted(chapters, front) \in Seq(Chapters(T, E)) /\ Fronted(chapters, front) # <<>>
           /\ Joined(Contents(Fronted(chapters, front))) = front \o Joined(Contents(chapters))
           /\ (\A i \in DOMAIN chapters : chapters[i].content # <<>>)
                => \A i \in DOMAIN Fronted(chapters, front) : Fronted(chapters, front)[i].content # <<>>
<1> DEFINE n == Len(chapters)
<1>1. n \in Nat \ {0} /\ DOMAIN chapters = 1..n /\ chapters \in [1..n -> Chapters(T, E)]
    BY LenProperties, EmptySeq
<1>2. 1 \in 1..n /\ chapters[1] \in Chapters(T, E)
    BY <1>1
<1>3. PICK t \in T, c \in Seq(E) : chapters[1] = [title |-> t, content |-> c]
    BY <1>2 DEF Chapters
<1>4. PICK d \in Seq(E) : d = front \o c
    BY ConcatProperties
<1>5. PICK new \in Chapters(T, E) : new = [title |-> t, content |-> d]
    BY DEF Chapters
<1>6. Fronted(chapters, front) = [i \in 1..n |-> IF i = 1 THEN new ELSE chapters[i]]
  <2>1. PICK old : old = chapters[1]
      OBVIOUS
  <2>2. old.content = c
      BY <1>3, <2>1
  <2>3. new = [old EXCEPT !.content = d]
      BY <1>3, <1>5, <2>1
  <2>4. Fronted(chapters, front) = [chapters EXCEPT ![1] = [old EXCEPT !.content = front \o old.content]]
      BY <2>1 DEF Fronted
  <2>5. Fronted(chapters, front) = [chapters EXCEPT ![1] = new]
      BY <1>4, <2>2, <2>3, <2>4
  <2> QED
      BY <1>1, <2>5
<1>7. Fronted(chapters, front) \in [1..n -> Chapters(T, E)]
    BY <1>1, <1>6
<1>8. Fronted(chapters, front) \in Seq(Chapters(T, E)) /\ Len(Fronted(chapters, front)) = n
  <2> HIDE DEF n
  <2> QED
      BY <1>1, <1>7, SequenceOf
<1>9. Contents(Fronted(chapters, front)) = [Contents(chapters) EXCEPT ![1] = front \o @]
  <2>1. Contents(chapters) = [i \in 1..n |-> chapters[i].content]
      BY <1>1 DEF Contents
  <2>2. Contents(Fronted(chapters, front)) = [i \in 1..n |-> Fronted(chapters, front)[i].content]
      BY <1>7 DEF Contents
  <2>3. PICK D : D = Contents(chapters)
      OBVIOUS
  <2>4. D[1] = c
      BY <1>2, <1>3, <2>1, <2>3
  <2>5. ASSUME NEW i \in 1..n PROVE Fronted(chapters, front)[i].content = IF i = 1 THEN d ELSE D[i]
    <3>1. CASE i = 1
      <4>1. Fronted(chapters, front)[i] = new /\ new.content = d
          BY <1>5, <1>6, <3>1
      <4> QED
          BY <3>1, <4>1
    <3>2. CASE i # 1
        BY <1>6, <2>1, <2>3, <3>2
    <3> QED
        BY <3>1, <3>2
  <2>6. Contents(Fronted(chapters, front)) = [i \in 1..n |-> IF i = 1 THEN d ELSE D[i]]
      BY <2>2, <2>5
  <2>7. [D EXCEPT ![1] = d] = [i \in 1..n |-> IF i = 1 THEN d ELSE D[i]]
      BY <2>1, <2>3
  <2>8. [D EXCEPT ![1] = front \o @] = [D EXCEPT ![1] = d]
      BY <1>4, <2>4
  <2> QED
      BY <2>3, <2>6, <2>7, <2>8
<1>10. PICK D \in Seq(Seq(E)) : D = Contents(chapters)
    BY <1>2, ContentsAppend
<1>11. D # <<>>
  <2>1. Len(D) = n
      BY <1>2, <1>10, ContentsAppend
  <2> QED
      BY <1>1, <2>1
<1>12. Joined([D EXCEPT ![1] = front \o @]) = front \o Joined(D)
    BY <1>11, JoinedFront
<1>13. Fronted(chapters, front) # <<>>
    BY <1>1, <1>8
<1>14. ASSUME \A i \in DOMAIN chapters : chapters[i].content # <<>>, NEW i \in DOMAIN Fronted(chapters, front)
       PROVE  Fronted(chapters, front)[i].content # <<>>
  <2>1. c # <<>> /\ d # <<>>
    <3>1. c # <<>>
      <4>1. chapters[1].content = c
          BY <1>3
      <4> QED
          BY <1>1, <1>2, <1>14, <4>1
    <3> QED
        BY <1>4, <3>1, ConcatEqualIffEmpty
  <2> QED
      BY <1>1, <1>5, <1>6, <1>7, <1>14, <2>1
<1>15. Joined(Contents(Fronted(chapters, front))) = front \o Joined(Contents(chapters))
    BY <1>9, <1>10, <1>12
<1> QED
    BY <1>8, <1>13, <1>14, <1>15

\* The contents of a single chapter.
LEMMA OneChapter ==
    ASSUME NEW T, NEW E, NEW c \in Chapters(T, E)
    PROVE  <<c>> \in Seq(Chapters(T, E)) /\ <<c>> # <<>> /\ Joined(Contents(<<c>>)) = c.content
<1>1. PICK b \in Seq(E) : b = c.content
    BY DEF Chapters
<1>2. <<b>> \in Seq(Seq(E)) /\ Append(<<>>, b) = <<b>> /\ <<>> \in Seq(Seq(E)) /\ <<>> \o b = b
    OBVIOUS
<1>3. Contents(<<c>>) = <<b>>
    BY <1>1 DEF Contents
<1>4. Joined(<<>>) = <<>>
    BY JoinedAppend, Zenon
<1>5. Joined(Append(<<>>, b)) = Joined(<<>>) \o b
    BY <1>2, JoinedAppend
<1>6. <<c>> \in Seq(Chapters(T, E)) /\ <<c>> # <<>>
    OBVIOUS
<1>7. Joined(<<b>>) = b
    BY <1>2, <1>4, <1>5
<1> QED
    BY <1>1, <1>3, <1>6, <1>7

\* The parser makes chapters of the paragraphs that have a text and keeps the order
\* of the body; where there is text, every chapter has some.
LEMMA DocxParsed ==
    ASSUME NEW paragraphs \in Seq(Paragraphs), NEW kept, BodyOnly(kept)
    PROVE  LET parsed == ParseDocx(paragraphs)
           IN /\ parsed \in Seq(Chapters(Titles, Readable)) /\ parsed # <<>>
              /\ Only(kept, Joined(Contents(parsed))) = Only(kept, paragraphs)
              /\ DocxAccepted(paragraphs) => \A i \in DOMAIN parsed : parsed[i].content # <<>>
<1> DEFINE end == Reading(paragraphs)
           chapters == NextChapter(end, Introduction).chapters
           all == Only({p \in Range(paragraphs) : p.text # <<>>}, paragraphs)
           rest == IF end.intro # <<>> THEN end.intro ELSE all
           parsed == ParseDocx(paragraphs)
<1>1. parsed = IF chapters = <<>> THEN <<[title |-> Introduction, content |-> rest]>>
               ELSE Fronted(chapters, end.intro)
    BY DEF ParseDocx, Reading, Start, Fronted
<1>2. end \in Readings /\ ReadInOrder(kept, end, paragraphs)
    BY ReadingInOrder
<1>3. Introduction \in Titles
    BY DEF Titles
<1>4. /\ NextChapter(end, Introduction) \in Readings
      /\ ReadInOrder(kept, NextChapter(end, Introduction), paragraphs)
      /\ NextChapter(end, Introduction).intro = end.intro
      /\ NextChapter(end, Introduction).content = <<>>
      /\ end.content = <<>> => chapters = end.chapters
      /\ end.content # <<>> => chapters = Append(end.chapters, [title |-> end.title, content |-> end.content])
    BY <1>2, <1>3, NextChapterFields, ChapterEnds
<1>5. all \in Seq(Readable) /\ Only(kept, all) = Only(kept, paragraphs) /\ (DocxAccepted(paragraphs) => all # <<>>)
    BY TextsRead
<1>6. chapters \in Seq(Chapters(Titles, Readable)) /\ end.intro \in Seq(Readable)
    BY <1>2, <1>4, ReadingTypes
<1>7. PICK I \in Seq(Readable) : I = Only(kept, end.intro)
    BY <1>2, ReadingSelected
<1>8. PICK C \in Seq(Readable) : C = Only(kept, Joined(Contents(chapters)))
    BY <1>4, ReadingSelected
<1>9. I \o C = Only(kept, paragraphs)
  <2>1. (I \o C) \o <<>> = Only(kept, paragraphs)
      BY <1>4, <1>7, <1>8, OnlyNothing DEF ReadInOrder
  <2>2. PICK s \in Seq(Readable) : s = I \o C
      BY ConcatProperties
  <2> QED
      BY <2>1, <2>2, ConcatEmptySeq
<1> HIDE DEF all, chapters, end, parsed
<1>10. CASE chapters = <<>>
  <2>1. PICK r \in Seq(Readable) : r = rest
      BY <1>5, <1>6
  <2>2. PICK c \in Chapters(Titles, Readable) : c = [title |-> Introduction, content |-> r]
      BY <1>3 DEF Chapters
  <2>3. parsed = <<c>> /\ c.content = r
      BY <1>1, <1>10, <2>1, <2>2
  <2>4. <<c>> \in Seq(Chapters(Titles, Readable)) /\ <<c>> # <<>> /\ Joined(Contents(<<c>>)) = c.content
      BY OneChapter
  <2>5. Only(kept, r) = Only(kept, paragraphs)
    <3>1. CASE end.intro = <<>>
        BY <1>5, <2>1, <3>1
    <3>2. CASE end.intro # <<>>
      <4>1. Contents(<<>>) = <<>>
          BY DEF Contents
      <4>2. Joined(<<>>) = <<>>
          BY JoinedAppend, Zenon
      <4>3. C = <<>>
          BY <1>8, <1>10, <4>1, <4>2, OnlyNothing
      <4>4. I \o C = I
          BY <4>3, ConcatEmptySeq
      <4> QED
          BY <1>7, <1>9, <2>1, <3>2, <4>4
    <3> QED
        BY <3>1, <3>2
  <2>6. DocxAccepted(paragraphs) => r # <<>>
      BY <1>5, <2>1
  <2>7. DOMAIN <<c>> = {1} /\ <<c>>[1] = c
      OBVIOUS
  <2> QED
      BY <2>3, <2>4, <2>5, <2>6, <2>7 DEF parsed
<1>11. CASE chapters # <<>>
  <2>1. PICK f \in Seq(Readable) : f = end.intro
      BY <1>6
  <2>2. parsed = Fronted(chapters, f)
      BY <1>1, <1>11, <2>1
  <2>3. /\ parsed \in Seq(Chapters(Titles, Readable)) /\ parsed # <<>>
        /\ Joined(Contents(parsed)) = f \o Joined(Contents(chapters))
        /\ (\A i \in DOMAIN chapters : chapters[i].content # <<>>)
             => \A i \in DOMAIN parsed : parsed[i].content # <<>>
    <3>1. PICK ended \in Seq(Chapters(Titles, Readable)) : ended = chapters
        BY <1>6
    <3>2. ended # <<>>
        BY <1>11, <3>1
    <3>3. /\ Fronted(ended, f) \in Seq(Chapters(Titles, Readable)) /\ Fronted(ended, f) # <<>>
          /\ Joined(Contents(Fronted(ended, f))) = f \o Joined(Contents(ended))
          /\ (\A i \in DOMAIN ended : ended[i].content # <<>>)
               => \A i \in DOMAIN Fronted(ended, f) : Fronted(ended, f)[i].content # <<>>
        BY <3>2, FrontOfChapters
    <3> QED
        BY <2>2, <3>1, <3>3
  <2>4. \A i \in DOMAIN chapters : chapters[i].content # <<>>
      BY <1>4 DEF ReadInOrder, chapters
  <2>5. PICK J \in Seq(Readable) : J = Joined(Contents(chapters))
      BY <1>4, ReadingSelected DEF chapters
  <2>6. Only(kept, f \o J) = Only(kept, f) \o Only(kept, J)
    <3>1. SelectedApart(kept, f, J)
        BY OnlyConcat
    <3> QED
        BY <3>1 DEF SelectedApart
  <2>7. Only(kept, Joined(Contents(parsed))) = Only(kept, paragraphs)
      BY <1>7, <1>8, <1>9, <2>1, <2>3, <2>5, <2>6
  <2> QED
      BY <2>3, <2>4, <2>7 DEF parsed
<1> QED
    BY <1>10, <1>11

--------------------------------------------------------------------------------
(* The EPUB parser *)

\* Blocks of an item, the titles of items, and the chapters of an EPUB.
Blocks == [text : Texts \ {<<>>}]
Keys   == {Key(item) : item \in Items}
Spines == Seq(Chapters(Keys, Blocks))

\* The first item of a title, and one that joins it.
Opening(item) == [title |-> Key(item), content |-> item.content]
Joining(chapters, item) ==
    [i \in DOMAIN chapters |->
       IF chapters[i].title = Key(item)
       THEN [chapters[i] EXCEPT !.content = @ \o item.content] ELSE chapters[i]]

\* The three things an item can do.
LEMMA EpubCases ==
    ASSUME NEW chapters, NEW item
    PROVE  \/ Skipped(item) /\ EpubStep(chapters, item) = chapters
           \/ /\ ~Skipped(item) /\ \E i \in DOMAIN chapters : chapters[i].title = Key(item)
              /\ EpubStep(chapters, item) = Joining(chapters, item)
           \/ /\ ~Skipped(item) /\ \A i \in DOMAIN chapters : chapters[i].title # Key(item)
              /\ EpubStep(chapters, item) = Append(chapters, Opening(item))
BY DEF EpubStep, Joining, Opening

\* An item has blocks and a title.
LEMMA ItemTypes ==
    ASSUME NEW item \in Items
    PROVE  item.content \in Seq(Blocks) /\ Key(item) \in Keys /\ Opening(item) \in Chapters(Keys, Blocks)
<1>1. item.content \in Seq(Blocks)
    BY DEF Items, Blocks
<1>2. Key(item) \in Keys
    BY DEF Keys
<1> QED
    BY <1>1, <1>2 DEF Opening, Chapters

\* A chapter that an item joins.
LEMMA JoiningFields ==
    ASSUME NEW chapters \in Spines, NEW item \in Items
    PROVE  /\ Joining(chapters, item) \in Spines
           /\ DOMAIN Joining(chapters, item) = DOMAIN chapters
           /\ \A i \in DOMAIN chapters :
                /\ chapters[i].content \in Seq(Blocks)
                /\ Joining(chapters, item)[i].title = chapters[i].title
                /\ Joining(chapters, item)[i].content =
                     IF chapters[i].title = Key(item) THEN chapters[i].content \o item.content ELSE chapters[i].content
<1> DEFINE n == Len(chapters)
           joined == Joining(chapters, item)
<1>1. n \in Nat /\ DOMAIN chapters = 1..n /\ \A i \in 1..n : chapters[i] \in Chapters(Keys, Blocks)
    BY LenProperties, ElementOfSeq DEF Spines
<1>2. item.content \in Seq(Blocks)
    BY ItemTypes
<1>3. joined = [i \in 1..n |-> IF chapters[i].title = Key(item)
                              THEN [chapters[i] EXCEPT !.content = @ \o item.content] ELSE chapters[i]]
    BY <1>1 DEF Joining
<1>4. ASSUME NEW i \in 1..n
      PROVE  /\ joined[i] \in Chapters(Keys, Blocks)
             /\ chapters[i].content \in Seq(Blocks)
             /\ joined[i].title = chapters[i].title
             /\ joined[i].content = IF chapters[i].title = Key(item) THEN chapters[i].content \o item.content
                                    ELSE chapters[i].content
  <2>1. PICK t \in Keys, c \in Seq(Blocks) : chapters[i] = [title |-> t, content |-> c]
      BY <1>1 DEF Chapters
  <2>2. PICK d \in Seq(Blocks) : d = c \o item.content
      BY <1>2, ConcatProperties
  <2>3. PICK new \in Chapters(Keys, Blocks) : new = [title |-> t, content |-> d]
      BY DEF Chapters
  <2>4. PICK old \in Chapters(Keys, Blocks) : old = chapters[i]
      BY <1>1
  <2>5. old.title = t /\ old.content = c /\ new.title = t /\ new.content = d
      BY <2>1, <2>3, <2>4
  <2>6. new = [old EXCEPT !.content = d]
      BY <2>1, <2>3, <2>4
  <2>7. [old EXCEPT !.content = @ \o item.content] = [old EXCEPT !.content = d]
      BY <2>2, <2>5
  <2>8. joined[i] = IF t = Key(item) THEN new ELSE old
    <3>1. joined[i] = IF old.title = Key(item) THEN [old EXCEPT !.content = @ \o item.content] ELSE old
        BY <1>3, <2>4
    <3> HIDE DEF joined
    <3> QED
        BY <2>5, <2>6, <2>7, <3>1
  <2> HIDE DEF joined
  <2> QED
      BY <2>2, <2>4, <2>5, <2>8
<1>5. joined \in [1..n -> Chapters(Keys, Blocks)]
  <2>1. DOMAIN joined = 1..n /\ joined = [i \in 1..n |-> joined[i]]
      BY <1>3
  <2> HIDE DEF joined
  <2> QED
      BY <1>4, <2>1
<1> HIDE DEF joined, n
<1>6. joined \in Spines
    BY <1>1, <1>5, SequenceOf DEF Spines
<1>7. DOMAIN joined = 1..n
    BY <1>5
<1> QED
    BY <1>1, <1>4, <1>6, <1>7 DEF joined

\* An item more is put in chapters.
LEMMA SpineClosed == <<>> \in Spines /\ \A chapters \in Spines, item \in Items : EpubStep(chapters, item) \in Spines
<1>1. <<>> \in Spines
    BY DEF Spines
<1>2. ASSUME NEW chapters \in Spines, NEW item \in Items PROVE EpubStep(chapters, item) \in Spines
  <2>1. Joining(chapters, item) \in Spines
      BY JoiningFields
  <2>2. Append(chapters, Opening(item)) \in Spines
    <3>1. Opening(item) \in Chapters(Keys, Blocks)
        BY ItemTypes
    <3> QED
        BY <3>1, AppendProperties DEF Spines
  <2> QED
      BY <2>1, <2>2, EpubCases
<1> QED
    BY <1>1, <1>2

\* What ParseEpub(seq) has made of the elements up to each place.
LEMMA SpineSteps ==
    ASSUME NEW s \in Seq(Items)
    PROVE  \E F : Steps(EpubStep, <<>>, s, F) /\ ParseEpub(s) = F[Len(s)]
<1> DEFINE n == Len(s)
           H == CHOOSE h : IsFold(EpubStep, <<>>, s, h)
           F == [k \in 0..n |-> H[1..k]]
<1>1. ParseEpub(s) = H[DOMAIN s]
    BY Zenon DEF ParseEpub, FoldLeft, MapThenFoldSet, IsFold
<1>2. DOMAIN s = 1..n /\ n \in Nat /\ \A k \in 1..n : s[k] \in Items
    OBVIOUS
<1>3. IsFold(EpubStep, <<>>, s, H)
  <2> DEFINE step == [a \in Spines |-> [k \in 1..n |-> EpubStep(a, s[k])]]
  <2> HIDE DEF n
  <2>1. \A a \in Spines, k \in 1..n : step[a][k] = EpubStep(a, s[k]) /\ step[a][k] \in Spines
      BY <1>2, SpineClosed
  <2>2. PICK h \in FoldFunctions(n, Spines, <<>>, step) : TRUE
    <3> HIDE DEF step, H, F
    <3>1. n \in Nat /\ <<>> \in Spines
        BY <1>2, SpineClosed
    <3> QED
        BY <2>1, <3>1, FoldExists
  <2>3. \A t \in SUBSET (1..n) : t # {} => h[t] = EpubStep(h[t \ {Max(t)}], s[Max(t)])
      BY <1>2, <2>1, GreatestNumber DEF FoldFunctions, Folded
  <2>4. IsFold(EpubStep, <<>>, s, h)
      BY <1>2, <2>3 DEF IsFold, FoldFunctions, Folded
  <2> QED
      BY <2>4, Zenon
<1> HIDE DEF H, n
<1>4. F[0] = <<>>
    BY <1>2, <1>3 DEF IsFold
<1>5. ASSUME NEW k \in 1..n PROVE F[k] = EpubStep(F[k - 1], s[k])
  <2>1. 1..k \in SUBSET DOMAIN s /\ k - 1 \in 0..n /\ k \in Nat \ {0}
      BY <1>2
  <2>2. H[1..k] = EpubStep(H[1..(k - 1)], s[k])
      BY <1>3, <2>1, GreatestOfPrefix DEF IsFold
  <2> QED
      BY <2>1, <2>2
<1>6. ParseEpub(s) = F[n]
    BY <1>1, <1>2
<1> HIDE DEF F
<1>7. Steps(EpubStep, <<>>, s, F)
    BY <1>4, <1>5 DEF Steps, n
<1> QED
    BY <1>6, <1>7 DEF n

\* One item more.
LEMMA SpineAppend ==
    /\ ParseEpub(<<>>) = <<>>
    /\ \A s \in Seq(Items), x \in Items : ParseEpub(Append(s, x)) = EpubStep(ParseEpub(s), x)
<1>1. ParseEpub(<<>>) = <<>>
  <2>1. <<>> \in Seq(Items) /\ Len(<<>>) = 0
      OBVIOUS
  <2>2. PICK F : Steps(EpubStep, <<>>, <<>>, F) /\ ParseEpub(<<>>) = F[Len(<<>>)]
      BY <2>1, SpineSteps, Zenon
  <2> QED
      BY <2>1, <2>2 DEF Steps
<1>2. ASSUME NEW s \in Seq(Items), NEW x \in Items
      PROVE  ParseEpub(Append(s, x)) = EpubStep(ParseEpub(s), x)
  <2> DEFINE n == Len(s)
             t == Append(s, x)
  <2>1. n \in Nat /\ t \in Seq(Items) /\ Len(t) = n + 1 /\ t[n + 1] = x /\ \A k \in 1..n : t[k] = s[k]
      OBVIOUS
  <2>2. PICK F : Steps(EpubStep, <<>>, s, F) /\ ParseEpub(s) = F[n]
      BY SpineSteps, Zenon
  <2>3. PICK G : Steps(EpubStep, <<>>, t, G) /\ ParseEpub(t) = G[Len(t)]
      BY <2>1, SpineSteps, Zenon
  <2> HIDE DEF t
  <2>4. F[0] = G[0] /\ \A k \in 1..n : F[k - 1] = G[k - 1] => F[k] = G[k]
      BY <2>1, <2>2, <2>3 DEF Steps
  <2>5. F[n] = G[n]
      BY <2>1, <2>4, Agreement
  <2>6. G[n + 1] = EpubStep(G[n], x)
    <3>1. n + 1 \in 1..Len(t) /\ (n + 1) - 1 = n
        BY <2>1
    <3> QED
        BY <2>1, <2>3, <3>1 DEF Steps
  <2> QED
      BY <2>1, <2>2, <2>3, <2>5, <2>6 DEF t
<1> QED
    BY <1>1, <1>2

\* The items of a title.
Titled(title) == {item \in Items : ~Skipped(item) /\ Key(item) = title}

\* The chapters of the items read so far.
SpineInOrder(chapters, items) ==
    /\ \A i \in DOMAIN items : ~Skipped(items[i]) => \E j \in DOMAIN chapters : chapters[j].title = Key(items[i])
    /\ \A j \in DOMAIN chapters : \E i \in DOMAIN items : ~Skipped(items[i]) /\ Key(items[i]) = chapters[j].title
    /\ \A i, j \in DOMAIN chapters : chapters[i].title = chapters[j].title => i = j
    /\ \A i \in DOMAIN chapters : chapters[i].content # <<>>
    /\ \A i \in DOMAIN chapters : chapters[i].content = Joined(Contents(Only(Titled(chapters[i].title), items)))

\* The contents of the items of a title with one item more.
LEMMA ItemSelected ==
    ASSUME NEW kept, NEW items \in Seq(Items), NEW item \in Items
    PROVE  Joined(Contents(Only(kept, Append(items, item))))
             = IF item \in kept THEN Joined(Contents(Only(kept, items))) \o item.content
               ELSE Joined(Contents(Only(kept, items)))
<1>1. Only(kept, Append(items, item)) = Keeping(kept, Only(kept, items), item)
    BY OnlyAppend
<1>2. PICK s \in Seq(Items) : s = Only(kept, items)
    BY OnlyType
<1>3. PICK D \in Seq(Seq(Blocks)) : D = Contents(s)
    BY ItemsAppend DEF Blocks
<1>4. PICK c \in Seq(Blocks) : c = item.content
    BY ItemTypes
<1>5. Contents(Append(s, item)) = Append(D, c)
    BY <1>3, <1>4, ItemsAppend
<1>6. Joined(Append(D, c)) = Joined(D) \o c
    BY JoinedAppend
<1> QED
    BY <1>1, <1>2, <1>3, <1>4, <1>5, <1>6 DEF Keeping

\* The places of items with one item more.
LEMMA LastItem ==
    ASSUME NEW items \in Seq(Items), NEW item \in Items
    PROVE  /\ \A i \in DOMAIN items : i \in DOMAIN Append(items, item) /\ Append(items, item)[i] = items[i]
           /\ Len(items) + 1 \in DOMAIN Append(items, item) /\ Append(items, item)[Len(items) + 1] = item
<1>1. Len(items) \in Nat /\ DOMAIN items = 1..Len(items) /\ DOMAIN Append(items, item) = 1..(Len(items) + 1)
    BY AppendProperties, LenProperties
<1> QED
    BY <1>1, AppendProperties

\* The same places as numbers.
LEMMA AppendedPlaces ==
    ASSUME NEW S, NEW seq \in Seq(S), NEW x \in S
    PROVE  /\ Len(seq) \in Nat /\ DOMAIN seq = 1..Len(seq) /\ DOMAIN Append(seq, x) = 1..(Len(seq) + 1)
           /\ Append(seq, x)[Len(seq) + 1] = x /\ \A i \in 1..Len(seq) : Append(seq, x)[i] = seq[i]
BY AppendProperties, LenProperties

\* One item more is put where its title is.
LEMMA ItemInOrder ==
    ASSUME NEW chapters \in Spines, NEW items \in Seq(Items), NEW item \in Items, SpineInOrder(chapters, items)
    PROVE  SpineInOrder(EpubStep(chapters, item), Append(items, item))
<1> DEFINE more == Append(items, item)
           next == EpubStep(chapters, item)
<1>1. \A i \in DOMAIN more : (i \in DOMAIN items /\ more[i] = items[i]) \/ more[i] = item
    BY Places
<1>2. \A i \in DOMAIN items : i \in DOMAIN more /\ more[i] = items[i]
    BY LastItem
<1>3. PICK last \in DOMAIN more : more[last] = item
    BY LastItem
<1>4. \A t : Joined(Contents(Only(Titled(t), more)))
               = IF ~Skipped(item) /\ Key(item) = t THEN Joined(Contents(Only(Titled(t), items))) \o item.content
                 ELSE Joined(Contents(Only(Titled(t), items)))
  <2>1. SUFFICES ASSUME NEW t
                 PROVE  Joined(Contents(Only(Titled(t), more)))
                          = IF ~Skipped(item) /\ Key(item) = t THEN Joined(Contents(Only(Titled(t), items))) \o item.content
                            ELSE Joined(Contents(Only(Titled(t), items)))
      OBVIOUS
  <2>2. item \in Titled(t) <=> ~Skipped(item) /\ Key(item) = t
      BY DEF Titled
  <2>3. Joined(Contents(Only(Titled(t), more)))
          = IF item \in Titled(t) THEN Joined(Contents(Only(Titled(t), items))) \o item.content
            ELSE Joined(Contents(Only(Titled(t), items)))
      BY ItemSelected
  <2> HIDE DEF more
  <2> QED
      BY <2>2, <2>3
<1> HIDE DEF more, next
<1>5. CASE Skipped(item) /\ next = chapters
  <2>1. /\ \A i \in DOMAIN more : ~Skipped(more[i]) => \E j \in DOMAIN chapters : chapters[j].title = Key(more[i])
        /\ \A j \in DOMAIN chapters : \E i \in DOMAIN more : ~Skipped(more[i]) /\ Key(more[i]) = chapters[j].title
      BY <1>1, <1>2, <1>5 DEF SpineInOrder
  <2>2. \A i \in DOMAIN chapters : chapters[i].content = Joined(Contents(Only(Titled(chapters[i].title), more)))
      BY <1>4, <1>5 DEF SpineInOrder
  <2>3. /\ \A i, j \in DOMAIN chapters : chapters[i].title = chapters[j].title => i = j
        /\ \A i \in DOMAIN chapters : chapters[i].content # <<>>
      BY Zenon DEF SpineInOrder
  <2>4. SpineInOrder(chapters, more)
      BY <2>1, <2>2, <2>3, Zenon DEF SpineInOrder
  <2> QED
      BY <1>5, <2>4 DEF more, next
<1>6. CASE /\ ~Skipped(item) /\ \E i \in DOMAIN chapters : chapters[i].title = Key(item)
           /\ next = Joining(chapters, item)
  <2>1. /\ DOMAIN next = DOMAIN chapters
        /\ \A i \in DOMAIN chapters :
             /\ chapters[i].content \in Seq(Blocks)
             /\ next[i].title = chapters[i].title
             /\ next[i].content = IF chapters[i].title = Key(item) THEN chapters[i].content \o item.content
                                  ELSE chapters[i].content
      BY <1>6, JoiningFields
  <2>2. /\ \A i \in DOMAIN more : ~Skipped(more[i]) => \E j \in DOMAIN chapters : chapters[j].title = Key(more[i])
        /\ \A j \in DOMAIN chapters : \E i \in DOMAIN more : ~Skipped(more[i]) /\ Key(more[i]) = chapters[j].title
      BY <1>1, <1>2, <1>6 DEF SpineInOrder
  <2>3. ASSUME NEW i \in DOMAIN chapters PROVE next[i].content # <<>>
    <3>1. chapters[i].content # <<>>
        BY DEF SpineInOrder
    <3>2. PICK c \in Seq(Blocks) : c = chapters[i].content
        BY <2>1
    <3>3. PICK d \in Seq(Blocks) : d = item.content
        BY ItemTypes
    <3>4. c \o d # <<>>
        BY <3>1, <3>2, ConcatEqualIffEmpty
    <3> QED
        BY <2>1, <3>1, <3>2, <3>3, <3>4
  <2>4. ASSUME NEW i \in DOMAIN chapters PROVE next[i].content = Joined(Contents(Only(Titled(next[i].title), more)))
    <3>1. chapters[i].content = Joined(Contents(Only(Titled(chapters[i].title), items)))
        BY DEF SpineInOrder
    <3> QED
        BY <1>4, <1>6, <2>1, <3>1
  <2>5. \A i, j \in DOMAIN chapters : chapters[i].title = chapters[j].title => i = j
      BY DEF SpineInOrder
  <2>6. SpineInOrder(next, more)
    <3>1. \A i \in DOMAIN more : ~Skipped(more[i]) => \E j \in DOMAIN next : next[j].title = Key(more[i])
        BY <2>1, <2>2
    <3>2. \A j \in DOMAIN next : \E i \in DOMAIN more : ~Skipped(more[i]) /\ Key(more[i]) = next[j].title
        BY <2>1, <2>2
    <3>3. \A i, j \in DOMAIN next : next[i].title = next[j].title => i = j
        BY <2>1, <2>5
    <3>4. /\ \A i \in DOMAIN next : next[i].content # <<>>
          /\ \A i \in DOMAIN next : next[i].content = Joined(Contents(Only(Titled(next[i].title), more)))
        BY <2>1, <2>3, <2>4
    <3> QED
        BY <3>1, <3>2, <3>3, <3>4 DEF SpineInOrder
  <2> QED
      BY <2>6 DEF more, next
<1>7. CASE /\ ~Skipped(item) /\ \A i \in DOMAIN chapters : chapters[i].title # Key(item)
           /\ next = Append(chapters, Opening(item))
  <2>1. chapters \in Seq(Chapters(Keys, Blocks)) /\ Opening(item) \in Chapters(Keys, Blocks)
      BY ItemTypes DEF Spines
  <2>2. \A i \in DOMAIN next : (i \in DOMAIN chapters /\ next[i] = chapters[i]) \/ next[i] = Opening(item)
      BY <1>7, <2>1, Places
  <2>3. Len(chapters) \in Nat /\ DOMAIN chapters = 1..Len(chapters) /\ DOMAIN next = 1..(Len(chapters) + 1)
        /\ next[Len(chapters) + 1] = Opening(item) /\ \A i \in 1..Len(chapters) : next[i] = chapters[i]
    <3>1. /\ Len(chapters) \in Nat /\ DOMAIN chapters = 1..Len(chapters)
          /\ DOMAIN Append(chapters, Opening(item)) = 1..(Len(chapters) + 1)
          /\ Append(chapters, Opening(item))[Len(chapters) + 1] = Opening(item)
          /\ \A i \in 1..Len(chapters) : Append(chapters, Opening(item))[i] = chapters[i]
        BY <2>1, AppendedPlaces
    <3> QED
        BY <1>7, <3>1
  <2>4. Opening(item).title = Key(item) /\ Opening(item).content = item.content /\ item.content # <<>>
      BY <1>7 DEF Opening, Skipped
  <2>5. \A i \in DOMAIN next : i \in DOMAIN chapters \/ i = Len(chapters) + 1
      BY <2>3
  <2>6. \A i \in DOMAIN chapters : i \in DOMAIN next /\ next[i] = chapters[i]
      BY <2>3
  <2>7. Len(chapters) + 1 \in DOMAIN next
      BY <2>3
  <2>8. ASSUME NEW i \in DOMAIN more, ~Skipped(more[i]) PROVE \E j \in DOMAIN next : next[j].title = Key(more[i])
    <3>1. CASE i \in DOMAIN items /\ more[i] = items[i]
      <4>1. PICK j \in DOMAIN chapters : chapters[j].title = Key(items[i])
          BY <2>8, <3>1 DEF SpineInOrder
      <4> QED
          BY <2>6, <3>1, <4>1
    <3>2. CASE more[i] = item
        BY <2>3, <2>4, <2>7, <3>2
    <3> QED
        BY <1>1, <3>1, <3>2
  <2>9. ASSUME NEW j \in DOMAIN next PROVE \E i \in DOMAIN more : ~Skipped(more[i]) /\ Key(more[i]) = next[j].title
    <3>1. CASE j \in DOMAIN chapters /\ next[j] = chapters[j]
      <4>1. PICK i \in DOMAIN items : ~Skipped(items[i]) /\ Key(items[i]) = chapters[j].title
          BY <3>1 DEF SpineInOrder
      <4> QED
          BY <1>2, <3>1, <4>1
    <3>2. CASE next[j] = Opening(item)
        BY <1>3, <1>7, <2>4, <3>2
    <3> QED
        BY <2>2, <3>1, <3>2
  <2>10. ASSUME NEW i \in DOMAIN next, NEW j \in DOMAIN next, next[i].title = next[j].title PROVE i = j
    <3>1. \A k \in DOMAIN chapters : next[k].title # Key(item)
        BY <1>7, <2>6
    <3>2. next[Len(chapters) + 1].title = Key(item)
        BY <2>3, <2>4
    <3>3. CASE i \in DOMAIN chapters /\ j \in DOMAIN chapters
      <4>1. chapters[i].title = chapters[j].title
          BY <2>6, <2>10, <3>3
      <4> QED
          BY <3>3, <4>1 DEF SpineInOrder
    <3> QED
        BY <2>5, <2>10, <3>1, <3>2, <3>3
  <2>11. ASSUME NEW i \in DOMAIN next PROVE next[i].content # <<>>
      BY <2>2, <2>4 DEF SpineInOrder
  <2>12. ASSUME NEW i \in DOMAIN next PROVE next[i].content = Joined(Contents(Only(Titled(next[i].title), more)))
    <3>1. CASE i \in DOMAIN chapters /\ next[i] = chapters[i]
      <4>1. chapters[i].content = Joined(Contents(Only(Titled(chapters[i].title), items)))
          BY <3>1 DEF SpineInOrder
      <4>2. chapters[i].title # Key(item)
          BY <1>7, <3>1
      <4> QED
          BY <1>4, <3>1, <4>1, <4>2
    <3>2. CASE next[i] = Opening(item)
      <4>1. \A k \in 1..Len(items) : items[k] \notin Titled(Key(item))
        <5>1. SUFFICES ASSUME NEW k \in 1..Len(items), items[k] \in Titled(Key(item)) PROVE FALSE
            OBVIOUS
        <5>2. k \in DOMAIN items /\ ~Skipped(items[k]) /\ Key(items[k]) = Key(item)
            BY <5>1, LenProperties DEF Titled
        <5> QED
            BY <1>7, <5>2 DEF SpineInOrder
      <4>2. Only(Titled(Key(item)), items) = <<>>
          BY <4>1, OnlyEmpty
      <4>3. Contents(<<>>) = <<>>
          BY DEF Contents
      <4>4. Joined(<<>>) = <<>>
          BY JoinedAppend, Zenon
      <4>5. <<>> \o item.content = item.content
          BY ItemTypes, ConcatEmptySeq
      <4> QED
          BY <1>4, <1>7, <2>4, <3>2, <4>2, <4>3, <4>4, <4>5
    <3> QED
        BY <2>2, <3>1, <3>2
  <2>13. SpineInOrder(next, more)
      BY <2>8, <2>9, <2>10, <2>11, <2>12 DEF SpineInOrder
  <2> QED
      BY <2>13 DEF more, next
<1> QED
    BY <1>5, <1>6, <1>7, EpubCases DEF next

\* The items are read in their order.
LEMMA EpubParsed ==
    ASSUME NEW items \in Seq(Items)
    PROVE  ParseEpub(items) \in Spines /\ SpineInOrder(ParseEpub(items), items)
<1> DEFINE P == {q \in Seq(Items) : ParseEpub(q) \in Spines /\ SpineInOrder(ParseEpub(q), q)}
<1>1. <<>> \in P
  <2>1. ParseEpub(<<>>) = <<>> /\ <<>> \in Spines
      BY SpineAppend, SpineClosed
  <2>2. DOMAIN <<>> = {} /\ <<>> \in Seq(Items)
      OBVIOUS
  <2>3. SpineInOrder(<<>>, <<>>)
      BY <2>2 DEF SpineInOrder
  <2> QED
      BY <2>1, <2>2, <2>3
<1>2. ASSUME NEW q \in P, NEW item \in Items PROVE Append(q, item) \in P
  <2>1. q \in Seq(Items) /\ ParseEpub(q) \in Spines /\ SpineInOrder(ParseEpub(q), q)
      OBVIOUS
  <2>2. Append(q, item) \in Seq(Items) /\ ParseEpub(Append(q, item)) = EpubStep(ParseEpub(q), item)
      BY <2>1, SpineAppend, AppendProperties
  <2>3. EpubStep(ParseEpub(q), item) \in Spines
      BY <2>1, SpineClosed
  <2>4. SpineInOrder(EpubStep(ParseEpub(q), item), Append(q, item))
      BY <2>1, ItemInOrder
  <2> QED
      BY <2>2, <2>3, <2>4
<1>3. P = Seq(Items)
  <2> P \in SUBSET Seq(Items)
      OBVIOUS
  <2> HIDE DEF P
  <2> QED
      BY <1>1, <1>2, SequenceInduction
<1> QED
    BY <1>3

--------------------------------------------------------------------------------
(* Files and books *)

\* An upload has its file from the store on, if it is not refused, and not before.
FileStored ==
    \A u \in Uploads :
        /\ pc[u] \in {"stored", "checked", "parsed", "written", "created"} => u \in files
        /\ pc[u] \in {"new", "saving"} => u \notin files

\* The inductive invariant of files and books.
Inv ==
    /\ TypeOK
    /\ input \in [Uploads -> Inputs]
    /\ FileStored
    /\ BookHasFile
    /\ FilesAccounted

\* The book of an upload names it.
LEMMA BookUpload == \A u \in Uploads : Book(u).upload = u
BY DEF Book

\* A step that stores no book and removes no file moves its upload on.
LEMMA Advance ==
    ASSUME Inv, NEW u \in Uploads, NEW next \in Statuses, Goto(u, next),
           input' = input, books' = books, unanswered' = unanswered,
           files \subseteq files', files' \subseteq files \cup {u}, parts' \subseteq parts \cup {u},
           pc[u] \notin {"created", "stopped"},
           next \in {"stored", "checked", "parsed", "written", "created"} => u \in files',
           u \in files' => next \in (Running \ {"saving"}) \cup {"created", "stopped"},
           next # "new",
           u \in parts' => next \in {"saving", "stopped"}
    PROVE  Inv'
<1> USE DEF Inv
<1>1. /\ pc' \in [Uploads -> Statuses]
      /\ pc'[u] = next
      /\ \A v \in Uploads \ {u} : pc'[v] = pc[v]
    BY DEF TypeOK, Goto
<1>2. \A v \in Uploads : Book(v)' = Book(v)
    BY DEF Book
<1>3. TypeOK'
    BY <1>1, <1>2 DEF TypeOK
<1>4. FileStored'
    BY <1>1 DEF FileStored
<1>5. BookHasFile'
  <2> SUFFICES ASSUME NEW b \in books, b.upload \notin unanswered
               PROVE  b.upload \in files' /\ pc'[b.upload] \in {"created", "stopped"}
      BY DEF BookHasFile
  <2>1. b.upload \in files /\ pc[b.upload] \in {"created", "stopped"}
      BY DEF BookHasFile
  <2>2. b.upload \in Uploads \ {u}
      BY <2>1 DEF TypeOK
  <2> QED
      BY <1>1, <2>1, <2>2
<1>6. FilesAccounted'
    BY <1>1 DEF FilesAccounted, TypeOK
<1> QED
    BY <1>3, <1>4, <1>5, <1>6

\* A failure removes the file and no book but one whose commit was not answered.
LEMMA Discarded ==
    ASSUME Inv, NEW u \in Uploads, Discard(u), pc[u] \in {"stored", "checked", "parsed", "written"},
           input' = input, parts' = parts,
           \/ books' = books /\ unanswered' = unanswered
           \/ books' = books \cup {Book(u)} /\ unanswered' = unanswered \cup {u}
    PROVE  Inv'
<1> USE DEF Inv
<1>1. /\ pc' \in [Uploads -> Statuses]
      /\ pc'[u] = "refused"
      /\ \A v \in Uploads \ {u} : pc'[v] = pc[v]
      /\ files' = files \ {u}
    BY DEF TypeOK, Discard, Goto, Statuses
<1>2. \A v \in Uploads : Book(v)' = Book(v)
    BY DEF Book
<1>3. TypeOK'
    BY <1>1, <1>2 DEF TypeOK
<1>4. FileStored'
    BY <1>1 DEF FileStored
<1>5. BookHasFile'
  <2> SUFFICES ASSUME NEW b \in books', b.upload \notin unanswered'
               PROVE  b.upload \in files' /\ pc'[b.upload] \in {"created", "stopped"}
      BY DEF BookHasFile
  <2>1. b \in books /\ b.upload \notin unanswered
      BY BookUpload
  <2>2. b.upload \in files /\ pc[b.upload] \in {"created", "stopped"}
      BY <2>1 DEF BookHasFile
  <2>3. b.upload \in Uploads \ {u}
      BY <2>2 DEF TypeOK
  <2> QED
      BY <1>1, <2>2, <2>3
<1>6. FilesAccounted'
    BY <1>1 DEF FilesAccounted, TypeOK
<1> QED
    BY <1>3, <1>4, <1>5, <1>6

\* A commit, a cancellation and a crash end uploads; the books they store are
\* those of uploads that were written, and these have their file.
LEMMA Stopped ==
    ASSUME Inv, NEW S \in SUBSET Uploads, NEW D \in SUBSET S,
           NEW last \in {"created", "stopped"},
           \A u \in S : pc[u] \in Running,
           \A u \in D : pc[u] = "written",
           last = "created" => D = S,
           pc' \in [Uploads -> Statuses],
           \A u \in Uploads : pc'[u] = IF u \in S THEN last ELSE pc[u],
           books' = books \cup {Book(u) : u \in D},
           UNCHANGED <<input, parts, files, unanswered>>,
           last = "created" => S \cap parts = {}
    PROVE  Inv'
<1> USE DEF Inv
<1>1. \A v \in Uploads : Book(v)' = Book(v)
    BY DEF Book
<1>2. TypeOK'
    BY <1>1 DEF TypeOK
<1>3. FileStored'
    BY DEF FileStored
<1>4. BookHasFile'
  <2> SUFFICES ASSUME NEW b \in books', b.upload \notin unanswered
               PROVE  b.upload \in files /\ pc'[b.upload] \in {"created", "stopped"}
      BY DEF BookHasFile
  <2>1. CASE b \in books
    <3>1. b.upload \in files /\ pc[b.upload] \in {"created", "stopped"}
        BY <2>1 DEF BookHasFile
    <3>2. b.upload \in Uploads
        BY <3>1 DEF TypeOK
    <3> QED
        BY <3>1, <3>2
  <2>2. CASE b \notin books
    <3>1. PICK u \in D : b = Book(u)
        BY <2>2
    <3>2. b.upload = u
        BY <3>1, BookUpload
    <3> QED
        BY <3>2 DEF FileStored
  <2> QED
      BY <2>1, <2>2
<1>5. FilesAccounted'
    BY DEF FilesAccounted, TypeOK
<1> QED
    BY <1>2, <1>3, <1>4, <1>5

\* It holds before the first upload.
LEMMA InitInv == Init => Inv
BY InputsAssumption DEF Init, Inv, TypeOK, Statuses, FileStored, BookHasFile, FilesAccounted

\* A step of an upload keeps it.
LEMMA HandleKeepsInv ==
    ASSUME Inv, NEW u \in Uploads, Handle(u)
    PROVE  Inv'
<1>1. /\ pc[u] \in {"stored", "checked", "parsed", "written", "created"} => u \in files
      /\ pc[u] \in {"new", "saving"} => u \notin files
      /\ u \in parts => pc[u] \in {"saving", "stopped"}
    BY DEF Inv, FileStored, FilesAccounted
<1>2. CASE Receive(u)
    BY <1>1, <1>2, Advance DEF Receive, Running, Statuses
<1>3. CASE Save(u)
    BY <1>1, <1>3, Advance DEF Save, Running, Statuses
<1>4. CASE SaveFails(u)
    BY <1>1, <1>4, Advance DEF SaveFails, Running, Statuses
<1>5. CASE Check(u)
  <2>1. CASE Accepted(input[u])
      BY <1>1, <1>5, <2>1, Advance DEF Check, Running, Statuses
  <2>2. CASE ~Accepted(input[u])
      BY <1>5, <2>2, Discarded DEF Check
  <2> QED
      BY <2>1, <2>2
<1>6. CASE Parse(u)
  <2>1. CASE ParsedChapters(input[u]) # <<>>
      BY <1>1, <1>6, <2>1, Advance DEF Parse, Running, Statuses
  <2>2. CASE ParsedChapters(input[u]) = <<>>
      BY <1>6, <2>2, Discarded DEF Parse
  <2> QED
      BY <2>1, <2>2
<1>7. CASE WriteRows(u)
    BY <1>1, <1>7, Advance DEF WriteRows, Running, Statuses
<1>8. CASE StepFails(u)
    BY <1>8, Discarded DEF StepFails
<1>9. CASE Commit(u)
  <2>1. /\ pc' \in [Uploads -> Statuses]
        /\ \A v \in Uploads : pc'[v] = IF v \in {u} THEN "created" ELSE pc[v]
      BY <1>9 DEF Commit, Goto, Inv, TypeOK, Statuses
  <2>2. books' = books \cup {Book(v) : v \in {u}}
      BY <1>9 DEF Commit
  <2>3. pc[u] = "written" /\ "written" \in Running /\ {u} \cap parts = {}
      BY <1>1, <1>9 DEF Commit, Running
  <2>4. /\ {u} \in SUBSET Uploads /\ {u} \in SUBSET {u}
        /\ \A v \in {u} : pc[v] \in Running /\ pc[v] = "written"
        /\ UNCHANGED <<input, parts, files, unanswered>>
      BY <1>9, <2>3 DEF Commit
  <2> QED
      BY <2>1, <2>2, <2>3, <2>4, Stopped
<1>10. CASE CommitUnanswered(u)
    BY <1>10, Discarded DEF CommitUnanswered
<1>11. CASE Cancel(u)
  <2>1. /\ pc' \in [Uploads -> Statuses]
        /\ \A v \in Uploads : pc'[v] = IF v \in {u} THEN "stopped" ELSE pc[v]
      BY <1>11 DEF Cancel, Goto, Inv, TypeOK, Statuses
  <2>2. PICK D \in SUBSET {u} : /\ \A v \in D : pc[v] = "written"
                                /\ books' = books \cup {Book(v) : v \in D}
    <3>1. CASE books' = books
      <4>1. books' = books \cup {Book(v) : v \in {}}
          BY <3>1
      <4> QED
          BY <4>1
    <3>2. CASE books' # books
      <4>1. pc[u] = "written" /\ books' = books \cup {Book(v) : v \in {u}}
          BY <1>11, <3>2 DEF Cancel
      <4> QED
          BY <4>1
    <3> QED
        BY <3>1, <3>2
  <2>3. /\ {u} \in SUBSET Uploads
        /\ \A v \in {u} : pc[v] \in Running
        /\ UNCHANGED <<input, parts, files, unanswered>>
    <3>1. pc[u] \in Running
        BY <1>11 DEF Cancel, Running
    <3>2. UNCHANGED <<input, parts, files, unanswered>>
        BY <1>11 DEF Cancel
    <3> QED
        BY <3>1, <3>2
  <2>4. "stopped" \in {"created", "stopped"} /\ "stopped" # "created"
      OBVIOUS
  <2> QED
      BY <2>1, <2>2, <2>3, <2>4, Stopped
<1> QED
    BY <1>2, <1>3, <1>4, <1>5, <1>6, <1>7, <1>8, <1>9, <1>10, <1>11 DEF Handle

\* Every step keeps it.
LEMMA NextInv == Inv /\ [Next]_vars => Inv'
<1> SUFFICES ASSUME Inv, [Next]_vars PROVE Inv'
    OBVIOUS
<1>1. ASSUME NEW u \in Uploads, Handle(u) PROVE Inv'
    BY <1>1, HandleKeepsInv
<1>2. CASE Crash
  <2> DEFINE S == {u \in Uploads : pc[u] \in Running}
  <2>1. /\ pc' \in [Uploads -> Statuses]
        /\ \A u \in Uploads : pc'[u] = IF u \in S THEN "stopped" ELSE pc[u]
      BY <1>2 DEF Crash, Inv, TypeOK, Statuses
  <2>2. PICK D \in SUBSET {u \in Uploads : pc[u] = "written"} :
            books' = books \cup {Book(u) : u \in D}
      BY <1>2 DEF Crash
  <2>3. D \in SUBSET S
      BY <2>2 DEF Running
  <2> QED
      BY <1>2, <2>1, <2>2, <2>3, Stopped DEF Crash
<1>3. ASSUME NEW b \in books, DeleteBook(b) PROVE Inv'
  <2>1. \A v \in Uploads : Book(v)' = Book(v)
      BY <1>3 DEF DeleteBook, Book
  <2> QED
      BY <1>3, <2>1 DEF DeleteBook, Inv, TypeOK, FileStored, BookHasFile, FilesAccounted
<1>4. CASE UNCHANGED vars
  <2>1. \A v \in Uploads : Book(v)' = Book(v)
      BY <1>4 DEF vars, Book
  <2> QED
      BY <1>4, <2>1 DEF vars, Inv, TypeOK, FileStored, BookHasFile, FilesAccounted
<1> QED
    BY <1>1, <1>2, <1>3, <1>4 DEF Next

\* It always holds.
LEMMA AlwaysInv == Spec => []Inv
BY InitInv, NextInv, PTL DEF Spec

--------------------------------------------------------------------------------
(* Chapters and segments of an upload *)

\* A DOCX keeps its body in order.
LEMMA BodyIsKept ==
    ASSUME NEW paragraphs \in Seq(Paragraphs)
    PROVE  BodyKept(paragraphs)
<1> DEFINE chapters == ParseDocx(paragraphs)
           parsed == Joined([i \in DOMAIN chapters |-> chapters[i].content])
           body == {p \in Range(paragraphs) \cup Range(parsed) : HeadingLevel(p) = 0 /\ p.text # <<>>}
<1>1. BodyOnly(body)
    BY DEF BodyOnly
<1>2. parsed = Joined(Contents(chapters))
    BY DEF Contents
<1> HIDE DEF body
<1>3. Only(body, Joined(Contents(chapters))) = Only(body, paragraphs)
    BY <1>1, DocxParsed
<1>4. Only(body, parsed) = Only(body, paragraphs)
    BY <1>2, <1>3
<1> QED
    BY <1>4 DEF BodyKept, body

\* An EPUB keeps the items of each title in order.
LEMMA SpineIsKept ==
    ASSUME NEW document \in Seq(Items)
    PROVE  SpineKept(document)
<1> DEFINE spine == {item \in Range(document) : ~Skipped(item)}
           chapters == ParseEpub(document)
           of(title) == Only({item \in spine : Key(item) = title}, document)
<1>1. SpineInOrder(chapters, document)
    BY EpubParsed
<1>2. /\ Len(document) \in Nat /\ DOMAIN document = 1..Len(document)
      /\ \A i \in 1..Len(document) : document[i] \in Items
    BY LenProperties, ElementOfSeq
<1>3. {Key(item) : item \in spine} = {chapters[i].title : i \in DOMAIN chapters}
  <2>1. ASSUME NEW item \in spine PROVE \E i \in DOMAIN chapters : chapters[i].title = Key(item)
    <3>1. PICK i \in DOMAIN document : document[i] = item /\ ~Skipped(document[i])
        BY <2>1 DEF Range
    <3> QED
        BY <1>1, <3>1 DEF SpineInOrder
  <2>2. ASSUME NEW i \in DOMAIN chapters PROVE \E item \in spine : Key(item) = chapters[i].title
    <3>1. PICK j \in DOMAIN document : ~Skipped(document[j]) /\ Key(document[j]) = chapters[i].title
        BY <1>1 DEF SpineInOrder
    <3>2. document[j] \in spine
        BY <3>1 DEF Range
    <3> QED
        BY <3>1, <3>2
  <2> HIDE DEF spine, chapters
  <2> QED
      BY <2>1, <2>2
<1>4. ASSUME NEW title PROVE of(title) = Only(Titled(title), document)
  <2> DEFINE K == {item \in spine : Key(item) = title}
  <2>1. \A i \in 1..Len(document) : document[i] \in K <=> document[i] \in Titled(title)
      BY <1>2 DEF Titled, Range
  <2> HIDE DEF K
  <2>2. Only(K, document) = Only(Titled(title), document)
      BY <2>1, OnlySame
  <2> QED
      BY <2>2 DEF K
<1>5. ASSUME NEW i \in DOMAIN chapters
      PROVE  LET items == of(chapters[i].title)
             IN chapters[i].content = Joined([j \in DOMAIN items |-> items[j].content])
  <2>1. chapters[i].content = Joined(Contents(Only(Titled(chapters[i].title), document)))
      BY <1>1 DEF SpineInOrder
  <2>2. of(chapters[i].title) = Only(Titled(chapters[i].title), document)
      BY <1>4
  <2> QED
      BY <2>1, <2>2 DEF Contents
<1>6. \A i, j \in DOMAIN chapters : chapters[i].title = chapters[j].title => i = j
    BY <1>1 DEF SpineInOrder
<1> QED
    BY <1>3, <1>5, <1>6 DEF SpineKept

\* The segments of one chapter hold its words, and each can be used.
LEMMA ChapterKept ==
    ASSUME NEW R \in SUBSET (Readable \cup Blocks), NEW content \in Seq(R)
    PROVE  /\ Segments(content) \in Seq(Usable)
           /\ content # <<>> => Segments(content) # <<>>
           /\ Joined(Segments(content)) = Joined([j \in DOMAIN content |-> WordsOf(content[j].text)])
<1> DEFINE n == Len(content)
<1>1. n \in Nat /\ DOMAIN content = 1..n /\ \A i \in 1..n : content[i] \in R
    BY LenProperties, ElementOfSeq
<1>2. content \in [1..n -> [text : Texts \ {<<>>}] \cup (Paragraphs \cap {p \in Paragraphs : p.text # <<>>})]
    BY <1>1, LenProperties DEF Readable, Blocks
<1>3. content # <<>> => n # 0
    BY <1>1, EmptySeq
<1> HIDE DEF n
<1> QED
    BY <1>1, <1>2, <1>3, SegmentsKept

\* The chapters of an upload that is accepted.
LEMMA ChaptersRead ==
    ASSUME NEW in \in Inputs, in.type # "other"
    PROVE  \E R \in SUBSET (Readable \cup Blocks) : \E T :
             /\ ParsedChapters(in) \in Seq(Chapters(T, R))
             /\ Accepted(in) => \A i \in DOMAIN ParsedChapters(in) : ParsedChapters(in)[i].content # <<>>
<1>1. CASE in.type = "docx" /\ in.document \in Seq(Paragraphs)
  <2>1. BodyOnly({})
      BY DEF BodyOnly
  <2>2. /\ ParseDocx(in.document) \in Seq(Chapters(Titles, Readable))
        /\ DocxAccepted(in.document) =>
             \A i \in DOMAIN ParseDocx(in.document) : ParseDocx(in.document)[i].content # <<>>
      BY <1>1, <2>1, DocxParsed
  <2>3. ParsedChapters(in) = ParseDocx(in.document) /\ (Accepted(in) => DocxAccepted(in.document))
      BY <1>1 DEF ParsedChapters, Accepted
  <2>4. Readable \in SUBSET (Readable \cup Blocks)
      OBVIOUS
  <2> QED
      BY <2>2, <2>3, <2>4
<1>2. CASE in.type = "epub" /\ in.document \in Seq(Items)
  <2>1. ParseEpub(in.document) \in Seq(Chapters(Keys, Blocks)) /\ SpineInOrder(ParseEpub(in.document), in.document)
      BY <1>2, EpubParsed DEF Spines
  <2>2. ParsedChapters(in) = ParseEpub(in.document)
      BY <1>2 DEF ParsedChapters
  <2>3. Blocks \in SUBSET (Readable \cup Blocks)
      OBVIOUS
  <2>4. \A i \in DOMAIN ParsedChapters(in) : ParsedChapters(in)[i].content # <<>>
      BY <2>1, <2>2 DEF SpineInOrder
  <2> QED
      BY <2>1, <2>2, <2>3, <2>4
<1> QED
    BY <1>1, <1>2, InputsAssumption

\* What the rows of an upload hold.
LEMMA RowsKept ==
    ASSUME NEW in \in Inputs, in.type # "other"
    PROVE  /\ DOMAIN Rows(in) = DOMAIN ParsedChapters(in)
           /\ \A i \in DOMAIN ParsedChapters(in) :
                LET content == ParsedChapters(in)[i].content
                IN /\ Rows(in)[i].segments \in Seq(Usable)
                   /\ Joined(Rows(in)[i].segments) = Joined([j \in DOMAIN content |-> WordsOf(content[j].text)])
                   /\ Accepted(in) => Rows(in)[i].segments # <<>>
<1>0. PICK R \in SUBSET (Readable \cup Blocks) :
         \E T : /\ ParsedChapters(in) \in Seq(Chapters(T, R))
                /\ Accepted(in) => \A i \in DOMAIN ParsedChapters(in) : ParsedChapters(in)[i].content # <<>>
    BY ChaptersRead
<1>1. PICK T : /\ ParsedChapters(in) \in Seq(Chapters(T, R))
               /\ Accepted(in) => \A i \in DOMAIN ParsedChapters(in) : ParsedChapters(in)[i].content # <<>>
    BY <1>0
<1>2. Rows(in) = [i \in DOMAIN ParsedChapters(in) |->
                    [title |-> ParsedChapters(in)[i].title, segments |-> Segments(ParsedChapters(in)[i].content)]]
    BY DEF Rows
<1>3. ASSUME NEW i \in DOMAIN ParsedChapters(in)
      PROVE  LET content == ParsedChapters(in)[i].content
             IN /\ Rows(in)[i].segments \in Seq(Usable)
                /\ Joined(Rows(in)[i].segments) = Joined([j \in DOMAIN content |-> WordsOf(content[j].text)])
                /\ Accepted(in) => Rows(in)[i].segments # <<>>
  <2>1. PICK content \in Seq(R) : content = ParsedChapters(in)[i].content
    <3>1. i \in 1..Len(ParsedChapters(in))
        BY <1>1, LenProperties
    <3>2. ParsedChapters(in)[i] \in Chapters(T, R)
        BY <1>1, <3>1, ElementOfSeq
    <3> QED
        BY <3>2 DEF Chapters
  <2>2. Rows(in)[i].segments = Segments(content)
      BY <1>2, <2>1
  <2>3. /\ Segments(content) \in Seq(Usable)
        /\ content # <<>> => Segments(content) # <<>>
        /\ Joined(Segments(content)) = Joined([j \in DOMAIN content |-> WordsOf(content[j].text)])
      BY ChapterKept
  <2> QED
      BY <1>1, <2>1, <2>2, <2>3
<1> QED
    BY <1>2, <1>3

--------------------------------------------------------------------------------
(* Uploads that are parsed *)

\* A document that is accepted and has chapters.
Sound(in) == in.type # "other" /\ Accepted(in) /\ ParsedChapters(in) # <<>>

\* What is known of an upload from its type, its check and its parser, and of books.
Parsed ==
    /\ \A u \in Uploads :
         /\ pc[u] \in Running \cup {"created"} => input[u].type # "other"
         /\ pc[u] \in {"checked", "parsed", "written"} => Accepted(input[u])
         /\ pc[u] \in {"parsed", "written"} => ParsedChapters(input[u]) # <<>>
    /\ \A b \in books : \E u \in Uploads : b = Book(u) /\ Sound(input[u])

\* A step moves one upload on, and stores no other book than that of a written one.
LEMMA ParsedMoves ==
    ASSUME Parsed, TypeOK, input' = input, NEW u \in Uploads, NEW next \in Statuses, Goto(u, next),
           books' = books \/ (pc[u] = "written" /\ books' = books \cup {Book(u)}),
           next \in Running \cup {"created"} => input[u].type # "other",
           next \in {"checked", "parsed", "written"} => Accepted(input[u]),
           next \in {"parsed", "written"} => ParsedChapters(input[u]) # <<>>
    PROVE  Parsed'
<1>1. /\ pc'[u] = next
      /\ \A v \in Uploads \ {u} : pc'[v] = pc[v]
    BY DEF TypeOK, Goto
<1>2. \A v \in Uploads : Book(v)' = Book(v) /\ Sound(input[v])' = Sound(input[v])
    BY DEF Book
<1>3. pc[u] = "written" => Sound(input[u])
    BY DEF Parsed, Sound, Running
<1>4. \A b \in books : \E v \in Uploads : b = Book(v) /\ Sound(input[v])
    BY DEF Parsed
<1>5. \A b \in books' : \E v \in Uploads : b = Book(v) /\ Sound(input[v])
    BY <1>3, <1>4
<1>6. \A b \in books' : \E v \in Uploads : b = Book(v)' /\ Sound(input[v])'
    BY <1>2, <1>5
<1>7. ASSUME NEW v \in Uploads
      PROVE  /\ pc'[v] \in Running \cup {"created"} => input'[v].type # "other"
             /\ pc'[v] \in {"checked", "parsed", "written"} => Accepted(input'[v])
             /\ pc'[v] \in {"parsed", "written"} => ParsedChapters(input'[v]) # <<>>
    BY <1>1 DEF Parsed
<1> QED
    BY <1>6, <1>7 DEF Parsed

\* The same of all the steps of an upload.
LEMMA HandleKeepsParsed ==
    ASSUME Parsed, TypeOK, NEW u \in Uploads, Handle(u)
    PROVE  Parsed'
<1>1. /\ pc[u] \in Running \cup {"created"} => input[u].type # "other"
      /\ pc[u] \in {"checked", "parsed", "written"} => Accepted(input[u])
      /\ pc[u] \in {"parsed", "written"} => ParsedChapters(input[u]) # <<>>
    BY DEF Parsed
<1>2. CASE Receive(u)
    BY <1>1, <1>2, ParsedMoves DEF Receive, Running, Statuses
<1>3. CASE Save(u)
    BY <1>1, <1>3, ParsedMoves DEF Save, Running, Statuses
<1>4. CASE SaveFails(u)
    BY <1>1, <1>4, ParsedMoves DEF SaveFails, Running, Statuses
<1>5. CASE Check(u)
    BY <1>1, <1>5, ParsedMoves DEF Check, Discard, Running, Statuses
<1>6. CASE Parse(u)
    BY <1>1, <1>6, ParsedMoves DEF Parse, Discard, Running, Statuses
<1>7. CASE WriteRows(u)
    BY <1>1, <1>7, ParsedMoves DEF WriteRows, Running, Statuses
<1>8. CASE StepFails(u)
    BY <1>1, <1>8, ParsedMoves DEF StepFails, Discard, Running, Statuses
<1>9. CASE Commit(u)
    BY <1>1, <1>9, ParsedMoves DEF Commit, Running, Statuses
<1>10. CASE CommitUnanswered(u)
    BY <1>1, <1>10, ParsedMoves DEF CommitUnanswered, Discard, Running, Statuses
<1>11. CASE Cancel(u)
  <2>1. books' = books \/ (pc[u] = "written" /\ books' = books \cup {Book(u)})
      BY <1>11 DEF Cancel
  <2> QED
      BY <1>1, <1>11, <2>1, ParsedMoves DEF Cancel, Running, Statuses
<1> QED
    BY <1>2, <1>3, <1>4, <1>5, <1>6, <1>7, <1>8, <1>9, <1>10, <1>11 DEF Handle

\* Every step keeps what is known of uploads.
LEMMA NextParsed == Parsed /\ TypeOK /\ [Next]_vars => Parsed'
<1> SUFFICES ASSUME Parsed, TypeOK, [Next]_vars PROVE Parsed'
    OBVIOUS
<1>1. ASSUME NEW u \in Uploads, Handle(u) PROVE Parsed'
    BY <1>1, HandleKeepsParsed
<1>2. CASE Crash
  <2>1. \A v \in Uploads : Book(v)' = Book(v) /\ Sound(input[v])' = Sound(input[v])
      BY <1>2 DEF Crash, Book
  <2>2. \A v \in Uploads : pc'[v] = pc[v] \/ pc'[v] = "stopped"
      BY <1>2 DEF Crash
  <2>3. \A v \in Uploads : pc[v] = "written" => Sound(input[v])
      BY DEF Parsed, Sound, Running
  <2>4. \A b \in books : \E v \in Uploads : b = Book(v) /\ Sound(input[v])
      BY DEF Parsed
  <2>5. PICK done \in SUBSET {v \in Uploads : pc[v] = "written"} : books' = books \cup {Book(v) : v \in done}
      BY <1>2 DEF Crash
  <2>6. \A b \in books' : \E v \in Uploads : b = Book(v) /\ Sound(input[v])
      BY <2>3, <2>4, <2>5
  <2>7. \A b \in books' : \E v \in Uploads : b = Book(v)' /\ Sound(input[v])'
      BY <2>1, <2>6
  <2>8. ASSUME NEW v \in Uploads
        PROVE  /\ pc'[v] \in Running \cup {"created"} => input'[v].type # "other"
               /\ pc'[v] \in {"checked", "parsed", "written"} => Accepted(input'[v])
               /\ pc'[v] \in {"parsed", "written"} => ParsedChapters(input'[v]) # <<>>
      BY <1>2, <2>2 DEF Crash, Parsed, Running
  <2> QED
      BY <2>7, <2>8 DEF Parsed
<1>3. ASSUME NEW b \in books, DeleteBook(b) PROVE Parsed'
  <2>1. \A v \in Uploads : Book(v)' = Book(v) /\ Sound(input[v])' = Sound(input[v])
      BY <1>3 DEF DeleteBook, Book
  <2> QED
      BY <1>3, <2>1 DEF DeleteBook, Parsed
<1>4. CASE UNCHANGED vars
  <2>1. \A v \in Uploads : Book(v)' = Book(v) /\ Sound(input[v])' = Sound(input[v])
      BY <1>4 DEF vars, Book
  <2> QED
      BY <1>4, <2>1 DEF vars, Parsed
<1> QED
    BY <1>1, <1>2, <1>3, <1>4 DEF Next

\* So it always holds, with the invariant of files and books.
LEMMA AlwaysParsed == Spec => [](Inv /\ Parsed)
<1>1. Init => Parsed
    BY DEF Init, Parsed, Running
<1>2. Inv => TypeOK
    BY DEF Inv
<1> QED
    BY <1>1, <1>2, InitInv, NextInv, NextParsed, PTL DEF Spec

\* A book is the rows of an upload that was accepted.
LEMMA BookRows ==
    ASSUME Inv, Parsed, NEW b \in books
    PROVE  /\ input[b.upload] \in Inputs /\ Sound(input[b.upload]) /\ b.chapters = Rows(input[b.upload])
<1>1. PICK u \in Uploads : b = Book(u) /\ Sound(input[u])
    BY DEF Parsed
<1>2. b.upload = u /\ b.chapters = Rows(input[u])
    BY <1>1 DEF Book
<1> QED
    BY <1>1, <1>2 DEF Inv

--------------------------------------------------------------------------------
(* What always holds *)

\* Every variable has its type, and every book is the book of one upload.
THEOREM TypeCorrect == Spec => []TypeOK
<1>1. Inv => TypeOK
    BY DEF Inv
<1> QED
    BY <1>1, AlwaysInv, PTL

\* However uploads fail, are cancelled, crash and overlap, a book in the database
\* has its file, unless the reply to its commit was lost.
THEOREM BookHasFileCorrect == Spec => []BookHasFile
<1>1. Inv => BookHasFile
    BY DEF Inv
<1> QED
    BY <1>1, AlwaysInv, PTL

\* A refused upload leaves neither its file nor a temporary one.
THEOREM FilesAccountedCorrect == Spec => []FilesAccounted
<1>1. Inv => FilesAccounted
    BY DEF Inv
<1> QED
    BY <1>1, AlwaysInv, PTL

\* Whatever the documents, and wherever sentences and words are cut, the segments
\* of a book hold the words of its chapters in their order, each once.
THEOREM WordsKeptCorrect == Spec => []WordsKept
<1>1. ASSUME Inv, Parsed PROVE WordsKept
  <2>1. SUFFICES ASSUME NEW b \in books, NEW i \in DOMAIN ParsedChapters(input[b.upload])
                 PROVE  Joined(b.chapters[i].segments)
                          = Joined([j \in DOMAIN ParsedChapters(input[b.upload])[i].content |->
                                      WordsOf(ParsedChapters(input[b.upload])[i].content[j].text)])
      BY DEF WordsKept
  <2>2. PICK in \in Inputs : in = input[b.upload] /\ in.type # "other" /\ b.chapters = Rows(in)
      BY <1>1, BookRows DEF Sound
  <2> QED
      BY <2>2, RowsKept
<1> QED
    BY <1>1, AlwaysParsed, PTL

\* A book has a segment, and every segment has words and keeps the hard limit
\* unless it is a single word.
THEOREM SegmentsUsableCorrect == Spec => []SegmentsUsable
<1>1. ASSUME Inv, Parsed PROVE SegmentsUsable
  <2>1. SUFFICES ASSUME NEW b \in books
                 PROVE  /\ \E i \in DOMAIN b.chapters : b.chapters[i].segments # <<>>
                        /\ \A i \in DOMAIN b.chapters : \A j \in DOMAIN b.chapters[i].segments :
                             \/ Len(b.chapters[i].segments[j]) = 1
                             \/ Chars(b.chapters[i].segments[j]) \in 1..HardLimit
      BY DEF SegmentsUsable
  <2>2. PICK in \in Inputs : in = input[b.upload] /\ Sound(in) /\ b.chapters = Rows(in)
      BY <1>1, BookRows
  <2>3. /\ DOMAIN Rows(in) = DOMAIN ParsedChapters(in)
        /\ \A i \in DOMAIN Rows(in) : Rows(in)[i].segments \in Seq(Usable) /\ Rows(in)[i].segments # <<>>
      BY <2>2, RowsKept DEF Sound
  <2>4. \E i : i \in DOMAIN Rows(in)
    <3>1. PICK R, T : ParsedChapters(in) \in Seq(Chapters(T, R))
        BY <2>2, ChaptersRead DEF Sound
    <3>2. ParsedChapters(in) # <<>>
        BY <2>2 DEF Sound
    <3>3. 1 \in DOMAIN ParsedChapters(in)
        BY <3>1, <3>2, EmptySeq, LenProperties
    <3> QED
        BY <2>3, <3>3
  <2>5. ASSUME NEW i \in DOMAIN Rows(in), NEW j \in DOMAIN Rows(in)[i].segments
        PROVE  \/ Len(Rows(in)[i].segments[j]) = 1
               \/ Chars(Rows(in)[i].segments[j]) \in 1..HardLimit
    <3>1. PICK s \in Seq(Usable) : s = Rows(in)[i].segments
        BY <2>3
    <3>2. j \in 1..Len(s)
        BY <3>1, LenProperties
    <3>3. s[j] \in Usable
        BY <3>2, ElementOfSeq
    <3> QED
        BY <3>1, <3>3 DEF Usable
  <2> QED
      BY <2>2, <2>3, <2>4, <2>5
<1> QED
    BY <1>1, AlwaysParsed, PTL

\* The parsers keep the order of what they read: the body of a DOCX, and the items
\* of each title of an EPUB.
THEOREM ParsedInOrderCorrect == Spec => []ParsedInOrder
<1>1. ASSUME Inv, Parsed PROVE ParsedInOrder
  <2>1. SUFFICES ASSUME NEW u \in Uploads, pc[u] = "created"
                 PROVE  IF input[u].type = "docx" THEN BodyKept(input[u].document)
                        ELSE SpineKept(input[u].document)
      BY DEF ParsedInOrder
  <2>2. PICK in \in Inputs : in = input[u] /\ in.type # "other"
      BY <1>1, <2>1 DEF Inv, Parsed
  <2> QED
      BY <2>2, InputsAssumption, BodyIsKept, SpineIsKept
<1> QED
    BY <1>1, AlwaysParsed, PTL
================================================================================
