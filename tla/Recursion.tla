------------------------------ MODULE Recursion ------------------------------
(***************************************************************************)
(* Induction, and what recursive functions are: the facts that proofs      *)
(* about a fold over a finite set or along a sequence need.  The theorems  *)
(* on induction of the library take a predicate as a parameter; here a set *)
(* stands in its place.                                                    *)
(***************************************************************************)
EXTENDS FiniteSetTheorems, SequenceTheorems, SequencesExt, TLAPS

-----------------------------------------------------------------------------
\* Every non-empty set of naturals has a least element.
LEMMA LeastNat ==
  ASSUME NEW T \in SUBSET Nat, T # {}
  PROVE  \E x \in T : \A y \in T : x <= y
<1> DEFINE R == OpToRel(<, Nat)
<1>1. IsWellFoundedOn(R, Nat)
  BY Zenon, NatLessThanWellFounded
<1>2. \A x, y \in Nat : x < y => <<x, y>> \in R
  BY DEF OpToRel
<1> HIDE DEF R
<1>3. PICK x \in T : \A y \in T : ~ (<<y, x>> \in R)
  BY <1>1, WFMin
<1>4. \A y \in T : x \in Nat /\ y \in Nat /\ ~ (y < x)
  BY <1>2, <1>3
<1>5. \A y \in T : x <= y
  BY <1>4
<1> QED
  BY <1>5

\* Induction on the naturals: a set with 0 that is closed under successor.
LEMMA NatInSet ==
  ASSUME NEW S, 0 \in S, \A i \in Nat : i \in S => i + 1 \in S
  PROVE  Nat \subseteq S
<1> DEFINE T == Nat \ S
<1> SUFFICES ASSUME T # {} PROVE FALSE
  OBVIOUS
<1>1. PICK x \in T : \A y \in T : x <= y
  BY LeastNat
<1>2. x \in Nat /\ x \notin S /\ x # 0
  OBVIOUS
<1>3. x - 1 \in Nat /\ x - 1 \notin T
  BY <1>1, <1>2
<1> QED
  BY <1>2, <1>3
-----------------------------------------------------------------------------
(* Along a sequence.                                                       *)

\* A function starts at v, and its value at i is that of the i-th step G[i] at
\* the value before.
HasRun(n, S, v, G) ==
  \E f \in [0 .. n -> S] : f[0] = v /\ \A i \in 1 .. n : f[i] = G[i][f[i - 1]]

\* There is such a function.
LEMMA SeqRecursion ==
  ASSUME NEW n \in Nat, NEW S, NEW v \in S, NEW G \in [1 .. n -> [S -> S]]
  PROVE  HasRun(n, S, v, G)
<1> DEFINE
     Steps(f, m) == f[0] = v /\ \A i \in 1 .. m : f[i] = G[i][f[i - 1]]
     Has(m) == \E f \in [0 .. n -> S] : Steps(f, m)
     K == {m \in Nat : m <= n => Has(m)}
<1>1. 0 \in K
  <2>1. [i \in 0 .. n |-> v] \in [0 .. n -> S] /\ Steps([i \in 0 .. n |-> v], 0)
    OBVIOUS
  <2> QED
    BY <2>1
<1>2. \A m \in Nat : m \in K => m + 1 \in K
  <2> HIDE DEF Has
  <2> SUFFICES ASSUME NEW m \in Nat, Has(m), m + 1 <= n
               PROVE  Has(m + 1)
    OBVIOUS
  <2>1. PICK f \in [0 .. n -> S] : Steps(f, m)
    BY DEF Has
  <2>2. m + 1 \in 1 .. n /\ m \in 0 .. n /\ m + 1 \in 0 .. n
    OBVIOUS
  <2> DEFINE w == G[m + 1][f[m]]
             g == [f EXCEPT ![m + 1] = w]
  <2>3. w \in S
    BY <2>2
  <2> HIDE DEF w
  <2>4. g \in [0 .. n -> S] /\ g[m + 1] = w /\ \A j \in 0 .. m : g[j] = f[j]
    BY <2>2, <2>3
  <2> HIDE DEF g
  <2>5. g[0] = v
    BY <2>1, <2>4
  <2>6. ASSUME NEW i \in 1 .. m + 1 PROVE g[i] = G[i][g[i - 1]]
    <3>1. CASE i = m + 1
      <4>1. g[i - 1] = f[m]
        BY <3>1, <2>4
      <4> QED
        BY <4>1, <3>1, <2>4 DEF w
    <3>2. CASE i # m + 1
      <4>1. i \in 1 .. m /\ i \in 0 .. m /\ i - 1 \in 0 .. m
        BY <3>2
      <4> QED
        BY <4>1, <2>1, <2>4
    <3> QED
      BY <3>1, <3>2
  <2> QED
    BY <2>4, <2>5, <2>6 DEF Has
<1>3. n \in K
  <2> HIDE DEF K
  <2> QED
    BY <1>1, <1>2, NatInSet
<1> QED
  BY <1>3 DEF HasRun

\* What appending an element gives.
LEMMA AppendTypes ==
  ASSUME NEW S, NEW a \in Seq(S), NEW x \in S
  PROVE  /\ Append(a, x) \in Seq(S) /\ Len(Append(a, x)) = Len(a) + 1
         /\ \A i \in 1 .. Len(a) : Append(a, x)[i] = a[i]
         /\ Append(a, x)[Len(a) + 1] = x
OBVIOUS

\* f[i] is the concatenation of the first i sequences of seqs.
Joins(f, seqs) ==
  f[0] = <<>> /\ \A i \in 1 .. Len(seqs) : f[i] = f[i - 1] \o seqs[i]

\* A concatenation can be computed from the left.
LEMMA JoinsExist ==
  ASSUME NEW S, NEW seqs \in Seq(Seq(S))
  PROVE  \E f \in [0 .. Len(seqs) -> Seq(S)] : Joins(f, seqs)
<1> DEFINE n == Len(seqs)
           G == [i \in 1 .. n |-> [a \in Seq(S) |-> a \o seqs[i]]]
<1>1. n \in Nat /\ \A i \in 1 .. n : seqs[i] \in Seq(S)
  BY ElementOfSeq, LenProperties
<1>2. \A i \in 1 .. n : \A a \in Seq(S) : a \o seqs[i] \in Seq(S)
  BY <1>1, ConcatProperties
<1>3. G \in [1 .. n -> [Seq(S) -> Seq(S)]]
  BY <1>2
<1>4. <<>> \in Seq(S)
  BY EmptySeq
<1> DEFINE T == Seq(S)
<1> HIDE DEF G, T
<1>5. PICK f \in [0 .. n -> T] : f[0] = <<>> /\ \A i \in 1 .. n : f[i] = G[i][f[i - 1]]
  <2> DEFINE empty == <<>>
  <2>1. n \in Nat /\ empty \in T /\ G \in [1 .. n -> [T -> T]]
    BY <1>1, <1>3, <1>4 DEF T
  <2> HIDE DEF n, empty
  <2>2. HasRun(n, T, empty, G)
    BY ONLY <2>1, SeqRecursion
  <2> QED
    BY <2>2 DEF empty, HasRun
<1>6. ASSUME NEW i \in 1 .. n PROVE f[i] = f[i - 1] \o seqs[i]
  <2>1. f[i - 1] \in Seq(S)
    BY <1>1, <1>5 DEF T
  <2> QED
    BY <2>1, <1>5 DEF G
<1> QED
  BY <1>5, <1>6 DEF Joins, T

\* That is what FlattenSeq computes.
LEMMA FlattenIs ==
  ASSUME NEW S, NEW seqs \in Seq(Seq(S)),
         NEW f \in [0 .. Len(seqs) -> Seq(S)], Joins(f, seqs)
  PROVE  FlattenSeq(seqs) = f[Len(seqs)]
<1> DEFINE n == Len(seqs)
           Rec(g) == g = [i \in 1 .. n |-> IF i = 1 THEN seqs[i] ELSE g[i - 1] \o seqs[i]]
<1>1. n \in Nat /\ \A i \in 1 .. n : seqs[i] \in Seq(S)
  BY ElementOfSeq, LenProperties
<1>2. CASE n = 0
  <2>1. seqs = <<>>
    BY <1>2, EmptySeq
  <2> QED
    BY <2>1, <1>2 DEF FlattenSeq, Joins
<1>3. CASE n # 0
  <2> DEFINE g == CHOOSE k : Rec(k)
  <2>1. FlattenSeq(seqs) = g[n]
    BY <1>3 DEF FlattenSeq
  <2>2. f[1] = seqs[1]
    <3>1. 1 \in 1 .. n /\ seqs[1] \in Seq(S)
      BY <1>1, <1>3
    <3>2. f[1 - 1] = <<>>
      BY DEF Joins
    <3> DEFINE next(i) == f[i - 1] \o seqs[i]
    <3>3. \A i \in 1 .. n : f[i] = next(i)
      BY DEF Joins
    <3>4. next(1) = seqs[1]
      BY <3>1, <3>2, ConcatEmptySeq
    <3> HIDE DEF next
    <3> QED
      BY <3>1, <3>3, <3>4
  <2>3. \E k : Rec(k)
    <3> DEFINE k == [i \in 1 .. n |-> f[i]]
    <3>1. ASSUME NEW i \in 1 .. n
          PROVE  f[i] = IF i = 1 THEN seqs[i] ELSE k[i - 1] \o seqs[i]
      <4>1. CASE i # 1
        <5>1. i - 1 \in 1 .. n
          BY <4>1, <1>1
        <5> QED
          BY <4>1, <5>1 DEF Joins
      <4> QED
        BY <4>1, <2>2
    <3>2. Rec(k)
      BY <3>1
    <3> HIDE DEF k, Rec
    <3> QED
      BY <3>2
  <2>4. Rec(g)
    <3> HIDE DEF Rec
    <3> QED
      BY <2>3
  <2> HIDE DEF g
  <2> DEFINE K == {i \in Nat : i + 1 \in 1 .. n => g[i + 1] = f[i + 1]}
  <2>5. 0 \in K
    <3>1. 0 + 1 = 1 /\ 1 \in 1 .. n
      BY <1>1, <1>3
    <3>2. g[1] = seqs[1]
      BY <3>1, <2>4
    <3> QED
      BY <3>1, <3>2, <2>2
  <2>6. \A i \in Nat : i \in K => i + 1 \in K
    <3> SUFFICES ASSUME NEW i \in Nat, i \in K, (i + 1) + 1 \in 1 .. n
                 PROVE  g[(i + 1) + 1] = f[(i + 1) + 1]
      OBVIOUS
    <3>1. i + 1 \in 1 .. n /\ (i + 1) + 1 # 1 /\ ((i + 1) + 1) - 1 = i + 1
      BY <1>1
    <3>2. g[i + 1] = f[i + 1]
      BY <3>1
    <3>3. g[(i + 1) + 1] = g[i + 1] \o seqs[(i + 1) + 1]
      BY <3>1, <2>4
    <3>4. f[(i + 1) + 1] = f[i + 1] \o seqs[(i + 1) + 1]
      BY <3>1 DEF Joins
    <3> QED
      BY <3>2, <3>3, <3>4
  <2> HIDE DEF K
  <2>7. Nat \subseteq K
    BY <2>5, <2>6, NatInSet
  <2>8. n - 1 \in K /\ (n - 1) + 1 = n /\ n \in 1 .. n
    BY <2>7, <1>1, <1>3
  <2>9. g[n] = f[n]
    BY <2>8 DEF K
  <2> QED
    BY <2>1, <2>9
<1> QED
  BY <1>2, <1>3

\* Concatenating one sequence more.
LEMMA FlattenAppend ==
  ASSUME NEW S, NEW seqs \in Seq(Seq(S)), NEW s \in Seq(S)
  PROVE  /\ FlattenSeq(seqs) \in Seq(S)
         /\ FlattenSeq(Append(seqs, s)) = FlattenSeq(seqs) \o s
<1> DEFINE n == Len(seqs)
           more == Append(seqs, s)
<1>1. /\ more \in Seq(Seq(S)) /\ Len(more) = n + 1 /\ more[n + 1] = s
      /\ n \in Nat /\ \A i \in 1 .. n : more[i] = seqs[i]
  BY AppendTypes, LenProperties
<1> HIDE DEF more
<1>2. PICK f \in [0 .. Len(more) -> Seq(S)] : Joins(f, more)
  BY <1>1, JoinsExist
<1> DEFINE g == [i \in 0 .. n |-> f[i]]
<1>3. g \in [0 .. n -> Seq(S)] /\ g[n] = f[n]
  BY <1>1
<1>4. g[0] = <<>>
  BY <1>1, <1>2 DEF Joins
<1>5. ASSUME NEW i \in 1 .. n PROVE g[i] = g[i - 1] \o seqs[i]
  <2>1. i \in 1 .. Len(more) /\ i \in 0 .. n /\ i - 1 \in 0 .. n
    BY <1>1
  <2>2. f[i] = f[i - 1] \o more[i]
    BY <2>1, <1>2 DEF Joins
  <2> QED
    BY <2>1, <2>2, <1>1
<1> HIDE DEF g
<1>6. FlattenSeq(seqs) = f[n]
  BY <1>3, <1>4, <1>5, FlattenIs DEF Joins
<1>7. FlattenSeq(more) = f[n + 1]
  BY <1>1, <1>2, FlattenIs
<1>8. f[n + 1] = f[n] \o s /\ f[n] \in Seq(S)
  <2>1. n + 1 \in 1 .. Len(more) /\ (n + 1) - 1 = n /\ n \in 0 .. Len(more)
    BY <1>1
  <2> QED
    BY <2>1, <1>1, <1>2 DEF Joins
<1> QED
  BY <1>6, <1>7, <1>8 DEF more
-----------------------------------------------------------------------------
(* Over a finite set: the sums of the community module Functions.          *)

\* The element a fold takes from a set.
Some(U) == CHOOSE x \in U : TRUE

\* h is the sum of f over each set of subsets of S.
IsSum(h, f, S) ==
  h = [U \in SUBSET S |-> IF U = {} THEN 0 ELSE f[Some(U)] + h[U \ {Some(U)}]]

\* What SumFunction computes.
LEMMA SumIsFold ==
  ASSUME NEW S, NEW f, DOMAIN f = S
  PROVE  SumFunction(f) = (CHOOSE h : IsSum(h, f, S))[S]
BY DEF SumFunction, SumFunctionOnSet, FoldFunctionOnSet, MapThenFoldSet, IsSum, Some

\* Taking an element from a finite set leaves one with one element fewer.
LEMMA OneFewer ==
  ASSUME NEW S, IsFiniteSet(S), NEW U \in SUBSET S, U # {}
  PROVE  /\ Some(U) \in U /\ Some(U) \in S
         /\ U \ {Some(U)} \in SUBSET S
         /\ Cardinality(U) \in Nat /\ Cardinality(U \ {Some(U)}) \in Nat
         /\ Cardinality(U \ {Some(U)}) < Cardinality(U)
<1>1. Some(U) \in U
  BY DEF Some
<1>2. IsFiniteSet(U) /\ IsFiniteSet(U \ {Some(U)})
  BY FS_Subset
<1>3. /\ Cardinality(U) \in Nat /\ Cardinality(U \ {Some(U)}) \in Nat
      /\ Cardinality(U \ {Some(U)}) = Cardinality(U) - 1
  BY <1>1, <1>2, FS_RemoveElement, FS_CardinalityType
<1> QED
  BY <1>1, <1>3

\* The sum over subsets exists, and its values are integers.
LEMMA SumExists ==
  ASSUME NEW S, IsFiniteSet(S), NEW f \in [S -> Int]
  PROVE  \E h : IsSum(h, f, S)
<1> DEFINE
     Value(h, U) == IF U = {} THEN 0 ELSE f[Some(U)] + h[U \ {Some(U)}]
     Upto(h, n) == \A U \in SUBSET S : Cardinality(U) <= n => h[U] = Value(h, U)
     K == {n \in Nat : \E h \in [SUBSET S -> Int] : Upto(h, n)}
<1>1. ASSUME NEW h \in [SUBSET S -> Int], NEW U \in SUBSET S
      PROVE  Value(h, U) \in Int
  <2>1. CASE U # {}
    BY <2>1, OneFewer
  <2> QED
    BY <2>1
<1>2. 0 \in K
  <2>1. [U \in SUBSET S |-> 0] \in [SUBSET S -> Int]
    OBVIOUS
  <2>2. ASSUME NEW U \in SUBSET S, Cardinality(U) <= 0
        PROVE  U = {}
    <3>1. IsFiniteSet(U) /\ Cardinality(U) \in Nat
      BY FS_Subset, FS_CardinalityType
    <3>2. Cardinality(U) = 0
      BY <3>1, <2>2
    <3> QED
      BY <3>1, <3>2, FS_EmptySet
  <2>3. \A U \in SUBSET S :
          Cardinality(U) <= 0 => [W \in SUBSET S |-> 0][U] = Value([W \in SUBSET S |-> 0], U)
    BY <2>2
  <2> QED
    BY <2>1, <2>3
<1>3. \A n \in Nat : n \in K => n + 1 \in K
  <2> SUFFICES ASSUME NEW n \in Nat, n \in K PROVE n + 1 \in K
    OBVIOUS
  <2>1. PICK h \in [SUBSET S -> Int] :
          \A U \in SUBSET S : Cardinality(U) <= n => h[U] = Value(h, U)
    OBVIOUS
  <2> DEFINE g == [U \in SUBSET S |-> Value(h, U)]
  <2>2. g \in [SUBSET S -> Int]
    BY <1>1
  <2>3. ASSUME NEW U \in SUBSET S, Cardinality(U) <= n + 1
        PROVE  g[U] = Value(g, U)
    <3>1. CASE U # {}
      <4> DEFINE W == U \ {Some(U)}
      <4>1. W \in SUBSET S /\ Cardinality(W) <= n
        BY <3>1, <2>3, OneFewer
      <4>2. g[W] = h[W]
        BY <4>1, <2>1
      <4> QED
        BY <4>2, <3>1
    <3> QED
      BY <3>1
  <2>4. \A U \in SUBSET S : Cardinality(U) <= n + 1 => g[U] = Value(g, U)
    BY <2>3
  <2>5. Upto(g, n + 1)
    BY <2>4
  <2> HIDE DEF g, Upto
  <2> QED
    BY <2>2, <2>5
<1>4. Cardinality(S) \in K
  <2> HIDE DEF K
  <2> QED
    BY <1>2, <1>3, NatInSet, FS_CardinalityType
<1>5. PICK h \in [SUBSET S -> Int] :
        \A U \in SUBSET S : Cardinality(U) <= Cardinality(S) => h[U] = Value(h, U)
  BY <1>4
<1>6. \A U \in SUBSET S : h[U] = Value(h, U)
  BY <1>5, FS_Subset
<1>7. h = [U \in SUBSET S |-> Value(h, U)]
  BY <1>6
<1> QED
  BY <1>7 DEF IsSum

\* The values of a sum are integers.
LEMMA SumType ==
  ASSUME NEW S, IsFiniteSet(S), NEW f \in [S -> Int], NEW h, IsSum(h, f, S)
  PROVE  h \in [SUBSET S -> Int]
<1> DEFINE K == {n \in Nat : \A U \in SUBSET S : Cardinality(U) <= n => h[U] \in Int}
<1>1. /\ \A U \in SUBSET S : U = {} => h[U] = 0
      /\ \A U \in SUBSET S : U # {} => h[U] = f[Some(U)] + h[U \ {Some(U)}]
  BY DEF IsSum
<1>2. 0 \in K
  <2> SUFFICES ASSUME NEW U \in SUBSET S, Cardinality(U) <= 0 PROVE h[U] \in Int
    OBVIOUS
  <2>1. IsFiniteSet(U) /\ Cardinality(U) \in Nat
    BY FS_Subset, FS_CardinalityType
  <2>2. U = {}
    BY <2>1, FS_EmptySet
  <2> QED
    BY <2>2, <1>1
<1>3. \A n \in Nat : n \in K => n + 1 \in K
  <2> SUFFICES ASSUME NEW n \in Nat, n \in K, NEW U \in SUBSET S, Cardinality(U) <= n + 1
               PROVE  h[U] \in Int
    OBVIOUS
  <2>1. CASE U # {}
    <3> DEFINE W == U \ {Some(U)}
    <3>1. W \in SUBSET S /\ Cardinality(W) <= n /\ f[Some(U)] \in Int
      BY <2>1, OneFewer
    <3>2. h[W] \in Int
      BY <3>1
    <3>3. h[U] = f[Some(U)] + h[W]
      BY <2>1, <1>1
    <3> QED
      BY ONLY <3>1, <3>2, <3>3
  <2> QED
    BY <2>1, <1>1
<1>4. Cardinality(S) \in K
  <2> HIDE DEF K
  <2> QED
    BY <1>2, <1>3, NatInSet, FS_CardinalityType
<1>5. \A U \in SUBSET S : h[U] \in Int
  BY <1>4, FS_Subset
<1> QED
  BY <1>5 DEF IsSum

\* The sum of zeros is zero.
LEMMA SumOfZeros ==
  ASSUME NEW S, IsFiniteSet(S)
  PROVE  SumFunction([x \in S |-> 0]) = 0
<1> DEFINE f == [x \in S |-> 0]
           h == CHOOSE k : IsSum(k, f, S)
<1>1. IsSum(h, f, S)
  BY SumExists
<1>2. SumFunction(f) = h[S]
  BY SumIsFold
<1> HIDE DEF h
<1>3. f \in [S -> Int] /\ h \in [SUBSET S -> Int]
  BY <1>1, SumType
<1> DEFINE K == {n \in Nat : \A U \in SUBSET S : Cardinality(U) <= n => h[U] = 0}
<1>4. /\ \A U \in SUBSET S : U = {} => h[U] = 0
      /\ \A U \in SUBSET S : U # {} => h[U] = f[Some(U)] + h[U \ {Some(U)}]
  BY <1>1 DEF IsSum
<1>5. 0 \in K
  <2> SUFFICES ASSUME NEW U \in SUBSET S, Cardinality(U) <= 0 PROVE h[U] = 0
    OBVIOUS
  <2>1. IsFiniteSet(U) /\ Cardinality(U) \in Nat
    BY FS_Subset, FS_CardinalityType
  <2>2. U = {}
    BY <2>1, FS_EmptySet
  <2> QED
    BY <2>2, <1>4
<1>6. \A n \in Nat : n \in K => n + 1 \in K
  <2> SUFFICES ASSUME NEW n \in Nat, n \in K, NEW U \in SUBSET S, Cardinality(U) <= n + 1
               PROVE  h[U] = 0
    OBVIOUS
  <2>1. CASE U # {}
    <3> DEFINE W == U \ {Some(U)}
    <3>1. W \in SUBSET S /\ Cardinality(W) <= n /\ f[Some(U)] = 0
      BY <2>1, OneFewer
    <3>2. h[W] = 0
      BY <3>1
    <3>3. h[U] = f[Some(U)] + h[W]
      BY <2>1, <1>4
    <3> QED
      BY ONLY <3>1, <3>2, <3>3
  <2> QED
    BY <2>1, <1>4
<1>7. Cardinality(S) \in K
  <2> HIDE DEF K
  <2> QED
    BY <1>5, <1>6, NatInSet, FS_CardinalityType
<1> QED
  BY <1>2, <1>7, FS_CardinalityType

\* Changing one value by c changes the sum by c.
LEMMA SumUpdate ==
  ASSUME NEW S, IsFiniteSet(S), NEW f \in [S -> Int], NEW g \in [S -> Int],
         NEW x \in S, NEW c \in Int, g[x] = f[x] + c,
         \A y \in S \ {x} : g[y] = f[y]
  PROVE  SumFunction(g) = SumFunction(f) + c
<1> DEFINE hf == CHOOSE k : IsSum(k, f, S)
           hg == CHOOSE k : IsSum(k, g, S)
           More(U) == IF x \in U THEN c ELSE 0
<1>1. IsSum(hf, f, S) /\ IsSum(hg, g, S)
  BY SumExists
<1>2. SumFunction(f) = hf[S] /\ SumFunction(g) = hg[S]
  BY SumIsFold
<1> HIDE DEF hf, hg
<1>3. hf \in [SUBSET S -> Int] /\ hg \in [SUBSET S -> Int]
  BY <1>1, SumType
<1>4. /\ \A U \in SUBSET S : U = {} => hf[U] = 0 /\ hg[U] = 0
      /\ \A U \in SUBSET S : U # {} =>
           /\ hf[U] = f[Some(U)] + hf[U \ {Some(U)}]
           /\ hg[U] = g[Some(U)] + hg[U \ {Some(U)}]
  BY <1>1 DEF IsSum
<1> DEFINE K == {n \in Nat : \A U \in SUBSET S :
                   Cardinality(U) <= n => hg[U] = hf[U] + More(U)}
<1>5. 0 \in K
  <2> SUFFICES ASSUME NEW U \in SUBSET S, Cardinality(U) <= 0
               PROVE  hg[U] = hf[U] + More(U)
    OBVIOUS
  <2>1. IsFiniteSet(U) /\ Cardinality(U) \in Nat
    BY FS_Subset, FS_CardinalityType
  <2>2. U = {}
    BY <2>1, FS_EmptySet
  <2> QED
    BY <2>2, <1>4
<1>6. \A n \in Nat : n \in K => n + 1 \in K
  <2> SUFFICES ASSUME NEW n \in Nat, n \in K, NEW U \in SUBSET S, Cardinality(U) <= n + 1
               PROVE  hg[U] = hf[U] + More(U)
    OBVIOUS
  <2>1. CASE U # {}
    <3> DEFINE y == Some(U)
               W == U \ {y}
    <3>1. W \in SUBSET S /\ Cardinality(W) <= n /\ y \in S /\ y \in U
      BY <2>1, OneFewer
    <3>2. hg[W] = hf[W] + More(W)
      BY <3>1
    <3>3. hf[U] = f[y] + hf[W] /\ hg[U] = g[y] + hg[W]
      BY <2>1, <1>4
    <3>4. hf[W] \in Int /\ hg[W] \in Int /\ f[y] \in Int /\ g[y] \in Int
      BY <3>1, <1>3
    <3>5. g[y] + More(W) = f[y] + More(U)
      <4>1. CASE y = x
        <5>1. More(W) = 0 /\ More(U) = c
          BY <4>1, <3>1
        <5> QED
          BY <5>1, <4>1, <3>4
      <4>2. CASE y # x
        <5>1. More(W) = More(U) /\ g[y] = f[y]
          BY <4>2, <3>1
        <5> QED
          BY <5>1
      <4> QED
        BY <4>1, <4>2
    <3>6. More(W) \in Int /\ More(U) \in Int
      OBVIOUS
    <3> HIDE DEF y, W, More
    <3> QED
      BY <3>2, <3>3, <3>4, <3>5, <3>6
  <2> QED
    BY <2>1, <1>4
<1>7. Cardinality(S) \in K
  <2> HIDE DEF K
  <2> QED
    BY <1>5, <1>6, NatInSet, FS_CardinalityType
<1> QED
  BY <1>2, <1>7, FS_CardinalityType
=============================================================================
