----------------------------- MODULE WireProofs -----------------------------
(***************************************************************************)
(* Proofs about the codec and the connection.  What Encode writes is what  *)
(* Decode reads, for any command, so a connection whose reads end between  *)
(* two commands executes what was sent.  A read that ends within a command *)
(* makes of it a spoilt one, or nothing, and of its rest nothing unless a  *)
(* read begins at a star there, so what is executed is what was sent but   *)
(* for the last command.                                                   *)
(* Java's decoder reads the same texts as Go's, never a part of one: every *)
(* reply is read by both, and no cut command is read as a whole one.       *)
(***************************************************************************)
EXTENDS Wire, Recursion

-----------------------------------------------------------------------------
(* Numbers.                                                                *)

\* f[i] is the number the first i bytes of s stand for.
Counts(f, s) ==
  f[0] = 0 /\ \A i \in 1 .. Len(s) : f[i] = f[i - 1] * 10 + ((s[i] - 48) % 256)

\* There is such a function.
LEMMA CountsExist ==
  ASSUME NEW s \in Seq(Nat)
  PROVE  \E f \in [0 .. Len(s) -> Nat] : Counts(f, s)
<1> DEFINE G == [i \in 1 .. Len(s) |-> [v \in Nat |-> v * 10 + ((s[i] - 48) % 256)]]
<1>1. \A i \in 1 .. Len(s) : (s[i] - 48) % 256 \in Nat
  OBVIOUS
<1>2. \A i \in 1 .. Len(s) : \A v \in Nat : v * 10 + ((s[i] - 48) % 256) \in Nat
  BY <1>1
<1>3. G \in [1 .. Len(s) -> [Nat -> Nat]] /\ Len(s) \in Nat /\ 0 \in Nat
  BY <1>2
<1> HIDE DEF G
<1>4. HasRun(Len(s), Nat, 0, G)
  BY <1>3, SeqRecursion
<1>5. PICK f \in [0 .. Len(s) -> Nat] : f[0] = 0 /\ \A i \in 1 .. Len(s) : f[i] = G[i][f[i - 1]]
  BY <1>4 DEF HasRun
<1>6. ASSUME NEW i \in 1 .. Len(s) PROVE f[i] = f[i - 1] * 10 + ((s[i] - 48) % 256)
  <2>1. f[i - 1] \in Nat
    BY SMTT(60)
  <2> QED
    BY <2>1, <1>5 DEF G
<1> QED
  BY <1>5, <1>6 DEF Counts

\* It is what Number computes.
LEMMA NumberIs ==
  ASSUME NEW s \in Seq(Nat), NEW f \in [0 .. Len(s) -> Nat], Counts(f, s)
  PROVE  Number(s) = f[Len(s)]
<1> DEFINE Rec(g) == g = [i \in 0 .. Len(s) |->
                            IF i = 0 THEN 0 ELSE g[i - 1] * 10 + ((s[i] - 48) % 256)]
           h == CHOOSE g : Rec(g)
<1>1. Len(s) \in Nat
  OBVIOUS
<1>2. Rec(f)
  BY DEF Counts
<1>3. Rec(h)
  <2> HIDE DEF Rec
  <2> QED
    BY <1>2
<1>4. Number(s) = h[Len(s)]
  BY DEF Number
<1> HIDE DEF h
<1> DEFINE K == {i \in Nat : i <= Len(s) => h[i] = f[i]}
<1>5. 0 \in K
  BY <1>1, <1>2, <1>3
<1>6. \A i \in Nat : i \in K => i + 1 \in K
  <2> SUFFICES ASSUME NEW i \in Nat, i \in K, i + 1 <= Len(s) PROVE h[i + 1] = f[i + 1]
    OBVIOUS
  <2>1. i + 1 \in 0 .. Len(s) /\ i + 1 # 0 /\ (i + 1) - 1 = i /\ h[i] = f[i]
    BY <1>1
  <2>2. h[i + 1] = h[i] * 10 + ((s[i + 1] - 48) % 256)
    BY <2>1, <1>3
  <2>3. f[i + 1] = f[i] * 10 + ((s[i + 1] - 48) % 256)
    BY <2>1, <1>2
  <2> QED
    BY <2>1, <2>2, <2>3
<1> HIDE DEF K
<1>7. Len(s) \in K
  BY <1>1, <1>5, <1>6, NatInSet
<1> QED
  BY <1>1, <1>4, <1>7 DEF K

\* One byte more is a digit more.
LEMMA NumberAppend ==
  ASSUME NEW s \in Seq(Nat), NEW c \in Nat
  PROVE  /\ Number(s) \in Nat
         /\ Number(Append(s, c)) = Number(s) * 10 + ((c - 48) % 256)
<1> DEFINE n == Len(s)
           t == Append(s, c)
<1>1. t \in Seq(Nat) /\ Len(t) = n + 1 /\ t[n + 1] = c /\ n \in Nat /\ \A i \in 1 .. n : t[i] = s[i]
  OBVIOUS
<1> HIDE DEF t
<1>2. PICK f \in [0 .. n + 1 -> Nat] : Counts(f, t)
  BY <1>1, CountsExist
<1>3. Number(t) = f[n + 1]
  BY <1>1, <1>2, NumberIs
<1> DEFINE g == [i \in 0 .. n |-> f[i]]
<1>4. g \in [0 .. n -> Nat] /\ g[n] = f[n] /\ f[n] \in Nat
  BY <1>1
<1>5. g[0] = 0
  BY <1>1, <1>2 DEF Counts
<1>6. ASSUME NEW i \in 1 .. n PROVE g[i] = g[i - 1] * 10 + ((s[i] - 48) % 256)
  <2>1. i \in 1 .. n + 1 /\ g[i] = f[i] /\ g[i - 1] = f[i - 1] /\ t[i] = s[i]
    BY <1>1
  <2> HIDE DEF g
  <2>2. f[i] = f[i - 1] * 10 + ((t[i] - 48) % 256)
    BY <2>1, <1>1, <1>2 DEF Counts
  <2> QED
    BY <2>1, <2>2
<1> HIDE DEF g
<1>7. Number(s) = f[n]
  BY <1>4, <1>5, <1>6, NumberIs DEF Counts
<1>8. n + 1 \in 1 .. n + 1 /\ (n + 1) - 1 = n
  BY <1>1
<1>9. f[n + 1] = f[n] * 10 + ((c - 48) % 256)
  BY <1>8, <1>1, <1>2, ZenonT(60) DEF Counts
<1> QED
  BY <1>3, <1>4, <1>7, <1>9 DEF t
-----------------------------------------------------------------------------
\* The decimal digits of i, given those of smaller numbers.
Written(f, i) == IF i < 10 THEN <<48 + i>> ELSE Append(f[i \div 10], 48 + (i % 10))
Writes(f, m) == \A i \in 0 .. m : f[i] = Written(f, i)

\* What a number of several digits begins with is a smaller number.
LEMMA Tenth ==
  ASSUME NEW i \in Nat, i >= 10
  PROVE  /\ i \div 10 \in 0 .. i - 1 /\ i \div 10 \in Nat /\ i % 10 \in 0 .. 9
         /\ i = (i \div 10) * 10 + (i % 10)
<1>1. i = (i \div 10) * 10 + (i % 10)
  BY SMTT(60)
<1>2. i \div 10 \in Nat /\ i % 10 \in 0 .. 9
  OBVIOUS
<1>3. i \div 10 <= i - 1
  OBVIOUS
<1> QED
  BY <1>1, <1>2, <1>3

\* Written makes digits of digits.
LEMMA WrittenType ==
  ASSUME NEW f, NEW i \in Nat, i >= 10 => f[i \div 10] \in Seq(Digits)
  PROVE  Written(f, i) \in Seq(Digits)
<1>1. CASE i < 10
  <2>1. 48 + i \in Digits
    BY <1>1 DEF Digits
  <2> QED
    BY <1>1, <2>1 DEF Written
<1>2. CASE i >= 10
  <2>1. 48 + (i % 10) \in Digits
    BY <1>2, Tenth DEF Digits
  <2> QED
    BY <1>2, <2>1, AppendTypes DEF Written
<1> QED
  BY <1>1, <1>2

\* The digits of all numbers up to m can be written.
LEMMA WritesExist ==
  ASSUME NEW n \in Nat
  PROVE  \E f \in [Nat -> Seq(Digits)] : Writes(f, n)
<1> DEFINE K == {m \in Nat : \E f \in [Nat -> Seq(Digits)] : Writes(f, m)}
<1>1. 0 \in K
  <2> DEFINE f == [i \in Nat |-> <<48>>]
  <2>1. f \in [Nat -> Seq(Digits)]
    BY DEF Digits
  <2>2. Writes(f, 0)
    BY DEF Writes, Written
  <2> QED
    BY <2>1, <2>2
<1>2. \A m \in Nat : m \in K => m + 1 \in K
  <2> SUFFICES ASSUME NEW m \in Nat, m \in K PROVE m + 1 \in K
    OBVIOUS
  <2>1. PICK f \in [Nat -> Seq(Digits)] : Writes(f, m)
    OBVIOUS
  <2> DEFINE w == Written(f, m + 1)
             g == [f EXCEPT ![m + 1] = w]
  <2>2. w \in Seq(Digits) /\ m + 1 \in Nat
    <3>1. m + 1 >= 10 => f[(m + 1) \div 10] \in Seq(Digits)
      BY Tenth
    <3> QED
      BY <3>1, WrittenType
  <2> HIDE DEF w
  <2>3. g \in [Nat -> Seq(Digits)] /\ g[m + 1] = w /\ \A i \in 0 .. m : g[i] = f[i]
    BY <2>2
  <2> HIDE DEF g
  <2>4. ASSUME NEW i \in 0 .. m + 1 PROVE g[i] = Written(g, i)
    <3>1. i >= 10 => g[i \div 10] = f[i \div 10]
      BY <2>3, Tenth
    <3>2. Written(g, i) = Written(f, i)
      BY <3>1 DEF Written
    <3>3. CASE i \in 0 .. m
      BY <3>2, <3>3, <2>1, <2>3 DEF Writes
    <3>4. CASE i = m + 1
      BY <3>2, <3>4, <2>3 DEF w
    <3> QED
      BY <3>3, <3>4
  <2> QED
    BY <2>2, <2>3, <2>4 DEF Writes
<1> HIDE DEF K
<1>3. n \in K
  BY <1>1, <1>2, NatInSet
<1> QED
  BY <1>3 DEF K

\* And in one way only.
LEMMA WritesOnce ==
  ASSUME NEW n \in Nat, NEW f, NEW g, Writes(f, n), Writes(g, n)
  PROVE  \A i \in 0 .. n : f[i] = g[i]
<1> DEFINE K == {m \in Nat : \A i \in 0 .. m : i <= n => f[i] = g[i]}
<1>1. ASSUME NEW i \in 0 .. n, \A j \in 0 .. i - 1 : f[j] = g[j] PROVE f[i] = g[i]
  <2>1. i >= 10 => f[i \div 10] = g[i \div 10]
    BY <1>1, Tenth
  <2>2. f[i] = Written(f, i) /\ g[i] = Written(g, i)
    BY DEF Writes
  <2>3. Written(f, i) = Written(g, i)
    BY <2>1 DEF Written
  <2> QED
    BY <2>2, <2>3
<1>2. 0 \in K
  BY <1>1
<1>3. \A m \in Nat : m \in K => m + 1 \in K
  <2> SUFFICES ASSUME NEW m \in Nat, m \in K, NEW i \in 0 .. m + 1, i <= n PROVE f[i] = g[i]
    OBVIOUS
  <2>1. \A j \in 0 .. m : j <= n => f[j] = g[j]
    OBVIOUS
  <2> HIDE DEF K
  <2>2. \A j \in 0 .. i - 1 : f[j] = g[j]
    BY <2>1
  <2> QED
    BY <2>2, <1>1
<1> HIDE DEF K
<1>4. n \in K
  BY <1>2, <1>3, NatInSet
<1> QED
  BY <1>4 DEF K

\* Decimal writes every number.
LEMMA DecimalIs == Decimal \in [Nat -> Seq(Digits)] /\ \A i \in Nat : Decimal[i] = Written(Decimal, i)
<1> DEFINE upto(i) == CHOOSE f \in [Nat -> Seq(Digits)] : Writes(f, i)
           Rec(g) == g = [i \in Nat |-> IF i < 10 THEN <<48 + i>>
                                        ELSE Append(g[i \div 10], 48 + (i % 10))]
           d == [i \in Nat |-> upto(i)[i]]
<1>1. \A i \in Nat : upto(i) \in [Nat -> Seq(Digits)] /\ Writes(upto(i), i)
  BY WritesExist
<1> HIDE DEF upto
<1>2. ASSUME NEW i \in Nat PROVE d[i] = Written(d, i)
  <2>1. upto(i)[i] = Written(upto(i), i)
    BY <1>1 DEF Writes
  <2>2. CASE i >= 10
    <3> DEFINE j == i \div 10
    <3>1. j \in Nat /\ j \in 0 .. i
      BY <2>2, Tenth
    <3> HIDE DEF j
    <3>2. Writes(upto(i), j) /\ Writes(upto(j), j)
      BY <3>1, <1>1 DEF Writes
    <3>3. upto(i)[j] = upto(j)[j]
      BY <3>1, <3>2, WritesOnce
    <3>4. d[j] = upto(i)[j]
      BY <3>1, <3>3
    <3> HIDE DEF d
    <3>5. Written(d, i) = Written(upto(i), i)
      BY <3>4, <2>2 DEF Written, j
    <3> QED
      BY <3>5, <2>1 DEF d
  <2> QED
    BY <2>1, <2>2 DEF Written
<1>3. Rec(d)
  BY <1>2 DEF Written
<1>4. Rec(Decimal)
  <2> HIDE DEF Rec, d
  <2>1. Decimal = CHOOSE g : Rec(g)
    BY DEF Decimal, Rec
  <2> QED
    BY <1>3, <2>1
<1>5. \A i \in Nat : Decimal[i] = Written(Decimal, i)
  BY <1>4 DEF Written
<1>6. Writes(Decimal, 0) /\ \A i \in Nat : Writes(Decimal, i)
  BY <1>5 DEF Writes
<1>7. ASSUME NEW i \in Nat PROVE Decimal[i] \in Seq(Digits)
  <2>1. Decimal[i] = upto(i)[i]
    BY <1>1, <1>6, WritesOnce
  <2> QED
    BY <2>1, <1>1
<1>8. Decimal = [i \in Nat |-> Written(Decimal, i)]
  BY <1>4 DEF Written
<1> QED
  BY <1>5, <1>7, <1>8

\* Digits are numbers.
LEMMA DigitsAreNat == \A t \in Seq(Digits) : t \in Seq(Nat)
BY DEF Digits

\* Written digits are read as the number again.
LEMMA DecimalReads ==
  ASSUME NEW n \in Nat
  PROVE  Number(Decimal[n]) = n /\ Len(Decimal[n]) \in Nat \ {0} /\ Decimal[n] \in Seq(Digits)
<1> DEFINE Good(i) == Number(Decimal[i]) = i /\ Len(Decimal[i]) # 0
           K == {m \in Nat : \A i \in 0 .. m : Good(i)}
<1>0. \A i \in Nat : Decimal[i] \in Seq(Digits) /\ Decimal[i] \in Seq(Nat)
  BY DecimalIs, DigitsAreNat
<1>1. ASSUME NEW i \in Nat, i >= 10 => Good(i \div 10) PROVE Good(i)
  <2>1. CASE i < 10
    <3>1. Decimal[i] = <<48 + i>> /\ <<48 + i>> = Append(<<>>, 48 + i)
      <4>1. Decimal[i] = Written(Decimal, i)
        BY DecimalIs
      <4> QED
        BY <4>1, <2>1 DEF Written
    <3>2. Number(<<>>) = 0
      <4>1. <<>> \in Seq(Nat) /\ Len(<<>>) = 0
        OBVIOUS
      <4>2. PICK f \in [0 .. Len(<<>>) -> Nat] : Counts(f, <<>>)
        BY <4>1, CountsExist
      <4> QED
        BY <4>1, <4>2, NumberIs DEF Counts
    <3>3. ((48 + i) - 48) % 256 = i /\ 48 + i \in Nat
      BY <2>1
    <3>4. Number(Append(<<>>, 48 + i)) = Number(<<>>) * 10 + (((48 + i) - 48) % 256)
      <4> DEFINE e == <<>>
      <4>1. e \in Seq(Nat)
        OBVIOUS
      <4> HIDE DEF e
      <4>2. Number(Append(e, 48 + i)) = Number(e) * 10 + (((48 + i) - 48) % 256)
        BY ONLY <4>1, <3>3, NumberAppend
      <4> QED
        BY <4>2 DEF e
    <3>5. Len(<<48 + i>>) # 0
      OBVIOUS
    <3> QED
      BY <3>1, <3>2, <3>3, <3>4, <3>5
  <2>2. CASE i >= 10
    <3> DEFINE j == i \div 10   r == i % 10   c == 48 + r
    <3>0. j \in Nat /\ r \in 0 .. 9 /\ i = j * 10 + r
      BY <2>2, Tenth
    <3>2. Decimal[i] = Append(Decimal[j], c)
      <4>1. Decimal[i] = Written(Decimal, i)
        BY DecimalIs
      <4> QED
        BY <4>1, <2>2 DEF Written
    <3> HIDE DEF j, r
    <3>1. c \in Nat /\ (c - 48) % 256 = r
      BY <3>0
    <3> HIDE DEF c
    <3>3. Number(Append(Decimal[j], c)) = Number(Decimal[j]) * 10 + ((c - 48) % 256)
      BY <3>0, <3>1, <1>0, NumberAppend
    <3>4. Number(Decimal[j]) = j
      BY <2>2, <1>1 DEF j
    <3>5. Len(Append(Decimal[j], c)) # 0
      BY <3>1, <1>0, AppendTypes
    <3> QED
      BY <3>0, <3>1, <3>2, <3>3, <3>4, <3>5
  <2> QED
    BY <2>1, <2>2
<1> HIDE DEF Good
<1>2. 0 \in K
  BY <1>1
<1>3. \A m \in Nat : m \in K => m + 1 \in K
  <2> SUFFICES ASSUME NEW m \in Nat, m \in K PROVE Good(m + 1)
    OBVIOUS
  <2>1. m + 1 >= 10 => Good((m + 1) \div 10)
    BY Tenth
  <2> QED
    BY <2>1, <1>1
<1>4. n \in K
  <2> HIDE DEF K
  <2> QED
    BY <1>2, <1>3, NatInSet
<1> QED
  BY <1>0, <1>4 DEF Good
-----------------------------------------------------------------------------
(* Positions.                                                              *)

\* The first byte from p on that is no digit, and the first CR.
DigitsEnd(b, p, n) == First(b, p, n, LAMBDA c : c \notin Digits)
CRAt(b, p, n) == First(b, p, n, LAMBDA c : c = CR)

\* Both are positions, or n.
LEMMA DigitsEndIs ==
  ASSUME NEW b, NEW n \in Nat, NEW p \in 0 .. n
  PROVE  LET e == DigitsEnd(b, p, n)
         IN /\ e \in p .. n /\ (e = n \/ b[e + 1] \notin Digits)
            /\ \A j \in p .. e - 1 : b[j + 1] \in Digits
<1> DEFINE T == {i \in p .. n : i = n \/ b[i + 1] \notin Digits}
           P(i) == (i = n \/ b[i + 1] \notin Digits) /\ \A j \in p .. i - 1 : ~(b[j + 1] \notin Digits)
<1>1. T \in SUBSET Nat /\ n \in T
  OBVIOUS
<1>2. PICK x \in T : \A y \in T : x <= y
  BY <1>1, LeastNat
<1>3. x \in p .. n /\ P(x)
  BY <1>2
<1>4. DigitsEnd(b, p, n) = CHOOSE i \in p .. n : P(i)
  BY DEF DigitsEnd, First
<1> DEFINE e == DigitsEnd(b, p, n)
<1>5. e \in p .. n /\ P(e)
  <2> HIDE DEF P
  <2> QED
    BY <1>3, <1>4
<1> QED
  BY <1>5

\* So is the end of a search for a CR.
LEMMA CRAtIs ==
  ASSUME NEW b, NEW n \in Nat, NEW p \in 0 .. n
  PROVE  LET e == CRAt(b, p, n)
         IN /\ e \in p .. n /\ (e = n \/ b[e + 1] = CR)
            /\ \A j \in p .. e - 1 : b[j + 1] # CR
<1> DEFINE T == {i \in p .. n : i = n \/ b[i + 1] = CR}
           P(i) == (i = n \/ b[i + 1] = CR) /\ \A j \in p .. i - 1 : ~(b[j + 1] = CR)
<1>1. T \in SUBSET Nat /\ n \in T
  OBVIOUS
<1>2. PICK x \in T : \A y \in T : x <= y
  BY <1>1, LeastNat
<1>3. x \in p .. n /\ P(x)
  BY <1>2
<1>4. CRAt(b, p, n) = CHOOSE i \in p .. n : P(i)
  BY DEF CRAt, First
<1> DEFINE e == CRAt(b, p, n)
<1>5. e \in p .. n /\ P(e)
  <2> HIDE DEF P
  <2> QED
    BY <1>3, <1>4
<1> QED
  BY <1>5

\* A slice within b.
LEMMA SliceType ==
  ASSUME NEW S, NEW b \in Seq(S), NEW p \in Nat, NEW e \in p .. Len(b)
  PROVE  /\ Slice(b, p, e) \in Seq(S) /\ Len(Slice(b, p, e)) = e - p
         /\ \A i \in 1 .. e - p : Slice(b, p, e)[i] = b[p + i]
<1>1. Len(b) \in Nat /\ p + 1 \in Int /\ e \in Int
  OBVIOUS
<1>2. \A i \in p + 1 .. e : b[i] \in S
  BY <1>1, ElementOfSeq
<1>3. /\ SubSeq(b, p + 1, e) \in Seq(S)
      /\ Len(SubSeq(b, p + 1, e)) = IF p + 1 <= e THEN e - (p + 1) + 1 ELSE 0
      /\ \A i \in 1 .. e - (p + 1) + 1 : SubSeq(b, p + 1, e)[i] = b[(p + 1) + i - 1]
  BY <1>1, <1>2, SubSeqProperties, SMTT(60)
<1>4. \A i \in 1 .. e - p : i \in 1 .. e - (p + 1) + 1 /\ (p + 1) + i - 1 = p + i
  BY <1>1
<1> QED
  BY <1>1, <1>3, <1>4 DEF Slice

\* A length and the position after it are numbers; the position is not before p.
LEMMA LengthType ==
  ASSUME NEW b \in Seq(Nat), NEW n \in 0 .. Len(b), NEW p \in 0 .. n
  PROVE  LET r == readLength(b, p, n) IN r.length \in Nat /\ r.next \in Nat /\ r.next >= p
<1> DEFINE e == DigitsEnd(b, p, n)
<1>1. n \in Nat /\ Len(b) \in Nat
  OBVIOUS
<1>2. e \in p .. n
  BY <1>1, DigitsEndIs
<1>3. readLength(b, p, n) = IF e < n THEN Length(b, p, e) ELSE [length |-> 0, next |-> p]
  BY DEF readLength, DigitsEnd
<1> HIDE DEF e
<1>4. ASSUME e < n PROVE Number(Slice(b, p, e)) \in Nat
  <2>1. Slice(b, p, e) \in Seq(Nat)
    BY <1>1, <1>2, <1>4, SliceType
  <2> QED
    BY <2>1, NumberAppend
<1> QED
  BY <1>1, <1>2, <1>3, <1>4 DEF Length
-----------------------------------------------------------------------------
(* What stands where.                                                      *)

\* The bytes of s stand in b from p on, before n.
Holds(b, p, n, s) ==
  p + Len(s) <= n /\ \A i \in 1 .. Len(s) : b[p + i] = s[i]

\* So do the two parts of a concatenation.
LEMMA HoldsParts ==
  ASSUME NEW b, NEW n \in Nat, NEW p \in Nat, NEW s \in Seq(Nat), NEW t \in Seq(Nat),
         Holds(b, p, n, s \o t)
  PROVE  Holds(b, p, n, s) /\ Holds(b, p + Len(s), n, t) /\ Len(s \o t) = Len(s) + Len(t)
<1> DEFINE u == s \o t
<1>1. /\ Len(u) = Len(s) + Len(t) /\ Len(s) \in Nat /\ Len(t) \in Nat
      /\ \A i \in 1 .. Len(s) : u[i] = s[i]
      /\ \A i \in 1 .. Len(t) : u[Len(s) + i] = t[i]
  OBVIOUS
<1>2. Holds(b, p, n, u)
  OBVIOUS
<1> HIDE DEF u
<1>3. \A i \in 1 .. Len(s) : b[p + i] = s[i]
  BY <1>1, <1>2 DEF Holds
<1>4. ASSUME NEW i \in 1 .. Len(t) PROVE b[(p + Len(s)) + i] = t[i]
  <2>1. Len(s) + i \in 1 .. Len(u) /\ (p + Len(s)) + i = p + (Len(s) + i)
    BY <1>1
  <2> QED
    BY <2>1, <1>1, <1>2 DEF Holds
<1>5. Holds(b, p, n, s) /\ Holds(b, p + Len(s), n, t)
  BY <1>1, <1>2, <1>3, <1>4 DEF Holds
<1> QED
  BY <1>1, <1>5 DEF u

\* A slice of b is what stands there.
LEMMA SliceIs ==
  ASSUME NEW b \in Seq(Nat), NEW n \in 0 .. Len(b), NEW p \in Nat, NEW s \in Seq(Nat),
         Holds(b, p, n, s)
  PROVE  Slice(b, p, p + Len(s)) = s
<1> DEFINE e == p + Len(s)
           t == Slice(b, p, e)
<1>1. Len(s) \in Nat /\ e \in p .. Len(b) /\ e - p = Len(s)
  BY DEF Holds
<1>2. \A i \in 1 .. Len(s) : b[p + i] = s[i]
  BY DEF Holds
<1> HIDE DEF e
<1>3. t \in Seq(Nat) /\ Len(t) = Len(s) /\ \A i \in 1 .. Len(s) : t[i] = b[p + i]
  BY <1>1, SliceType, ZenonT(60)
<1> HIDE DEF t
<1>4. t = s
  BY <1>1, <1>2, <1>3, SeqEqual
<1> QED
  BY <1>4 DEF t, e

\* A written length is read, with its terminator.
LEMMA LengthReads ==
  ASSUME NEW b \in Seq(Nat), NEW n \in 0 .. Len(b), NEW p \in Nat, NEW k \in Nat,
         Holds(b, p, n, Decimal[k]), Holds(b, p + Len(Decimal[k]), n, CRLF)
  PROVE  readLength(b, p, n) = [length |-> k, next |-> p + Len(Decimal[k]) + 2]
<1> DEFINE d == Decimal[k]
           e == DigitsEnd(b, p, n)
<1>1. /\ d \in Seq(Nat) /\ Len(d) \in Nat \ {0} /\ Number(d) = k
      /\ \A i \in 1 .. Len(d) : d[i] \in Digits
  BY DecimalReads, DigitsAreNat, ElementOfSeq
<1>2. CRLF \in Seq(Nat) /\ Len(CRLF) = 2 /\ CRLF[1] = CR /\ CR \notin Digits
  BY DEF CRLF, CR, LF, Digits
<1>3. Holds(b, p, n, d) /\ Holds(b, p + Len(d), n, CRLF)
  OBVIOUS
<1> HIDE DEF d
<1>4. n \in Nat /\ p + Len(d) + 2 <= n /\ p \in 0 .. n
  BY <1>1, <1>2, <1>3 DEF Holds
<1>5. \A i \in 1 .. Len(d) : b[p + i] \in Digits
  BY <1>1, <1>3 DEF Holds
<1>6. b[(p + Len(d)) + 1] = CR
  BY <1>2, <1>3 DEF Holds
<1>7. /\ e \in p .. n /\ (e = n \/ b[e + 1] \notin Digits)
      /\ \A j \in p .. e - 1 : b[j + 1] \in Digits
  BY <1>4, DigitsEndIs
<1>8. readLength(b, p, n) = IF e < n THEN Length(b, p, e) ELSE [length |-> 0, next |-> p]
  BY DEF readLength, DigitsEnd
<1> HIDE DEF e
<1>9. e = p + Len(d)
  <2>1. ASSUME e < p + Len(d) PROVE FALSE
    <3>1. (e + 1) - p \in 1 .. Len(d) /\ p + ((e + 1) - p) = e + 1 /\ e # n
      BY <2>1, <1>1, <1>4, <1>7
    <3> QED
      BY <3>1, <1>5, <1>7
  <2>2. ASSUME e > p + Len(d) PROVE FALSE
    <3>1. p + Len(d) \in p .. e - 1
      BY <2>2, <1>1, <1>7, SMTT(60)
    <3> QED
      BY <3>1, <1>2, <1>6, <1>7
  <2>3. e \in Int /\ p + Len(d) \in Int
    BY <1>1, <1>7
  <2> QED
    BY <2>1, <2>2, <2>3, SMTT(60)
<1>10. Slice(b, p, e) = d
  BY <1>1, <1>3, <1>9, SliceIs
<1> QED
  BY <1>1, <1>4, <1>8, <1>9, <1>10 DEF Length, d

\* An encoded string is read as it was.
LEMMA BulkReads ==
  ASSUME NEW b \in Seq(Nat), NEW n \in 0 .. Len(b), NEW q \in Nat, NEW t \in Seq(Nat),
         Holds(b, q, n, encodeString(t))
  PROVE  /\ encodeString(t) \in Seq(Nat) /\ Len(encodeString(t)) \in Nat \ {0}
         /\ q + Len(encodeString(t)) <= n /\ b[q + 1] = Dollar
         /\ readBulkString(b, q, n) = Value(Str(t), q + Len(encodeString(t)))
<1> DEFINE d == Decimal[Len(t)]
           u == <<Dollar>> \o d
           v == u \o CRLF
           w == v \o t
<1>1. d \in Seq(Nat) /\ Len(d) \in Nat \ {0} /\ Len(t) \in Nat /\ n \in Nat /\ Len(b) \in Nat
  BY DecimalReads, DigitsAreNat
<1>2. /\ <<Dollar>> \in Seq(Nat) /\ CRLF \in Seq(Nat) /\ Len(CRLF) = 2
      /\ Len(<<Dollar>>) = 1 /\ <<Dollar>>[1] = Dollar
  BY DEF Dollar, CRLF, CR, LF
<1>3. encodeString(t) = w \o CRLF
  BY DEF encodeString
<1>4. u \in Seq(Nat) /\ v \in Seq(Nat) /\ w \in Seq(Nat) /\ w \o CRLF \in Seq(Nat)
  <2> HIDE DEF d
  <2>1. u \in Seq(Nat)
    BY <1>1, <1>2
  <2> HIDE DEF u
  <2>2. v \in Seq(Nat)
    BY <2>1, <1>2
  <2> HIDE DEF v
  <2>3. w \in Seq(Nat)
    BY <2>2
  <2> HIDE DEF w
  <2> QED
    BY <2>1, <2>2, <2>3, <1>2
<1> HIDE DEF d
<1>5. /\ Holds(b, q, n, w) /\ Holds(b, q + Len(w), n, CRLF)
      /\ Len(encodeString(t)) = Len(w) + Len(CRLF)
  <2>1. w \in Seq(Nat) /\ CRLF \in Seq(Nat) /\ n \in Nat /\ q \in Nat
    BY <1>1, <1>2, <1>4
  <2> HIDE DEF w
  <2>2. Holds(b, q, n, w \o CRLF)
    BY <1>3
  <2>3. /\ Holds(b, q, n, w) /\ Holds(b, q + Len(w), n, CRLF)
        /\ Len(w \o CRLF) = Len(w) + Len(CRLF)
    BY ONLY <2>1, <2>2, HoldsParts
  <2> QED
    BY <2>3, <1>3
<1>6. Holds(b, q, n, v) /\ Holds(b, q + Len(v), n, t) /\ Len(w) = Len(v) + Len(t)
  <2>1. v \in Seq(Nat) /\ t \in Seq(Nat) /\ n \in Nat /\ q \in Nat
    BY <1>1, <1>4
  <2> HIDE DEF v
  <2> QED
    BY ONLY <2>1, <1>5, HoldsParts
<1>7. Holds(b, q, n, u) /\ Holds(b, q + Len(u), n, CRLF) /\ Len(v) = Len(u) + Len(CRLF)
  <2>1. u \in Seq(Nat) /\ CRLF \in Seq(Nat) /\ n \in Nat /\ q \in Nat
    BY <1>1, <1>2, <1>4
  <2> HIDE DEF u
  <2> QED
    BY ONLY <2>1, <1>6, HoldsParts
<1>8. Holds(b, q, n, <<Dollar>>) /\ Holds(b, q + 1, n, d) /\ Len(u) = 1 + Len(d)
  <2> DEFINE x == <<Dollar>>
  <2>0. Len(x) = 1
    OBVIOUS
  <2>1. x \in Seq(Nat) /\ d \in Seq(Nat) /\ n \in Nat /\ q \in Nat
    BY <1>1, <1>2
  <2>2. Holds(b, q, n, x \o d)
    BY <1>7
  <2> HIDE DEF x
  <2>3. Holds(b, q, n, x) /\ Holds(b, q + Len(x), n, d) /\ Len(x \o d) = Len(x) + Len(d)
    BY ONLY <2>1, <2>2, HoldsParts
  <2> QED
    BY <2>0, <2>3 DEF x
<1> HIDE DEF u, v, w
<1>9. readLength(b, q + 1, n) = [length |-> Len(t), next |-> (q + 1) + Len(d) + 2]
  <2>1. q + Len(u) = (q + 1) + Len(d) /\ q + 1 \in Nat
    BY <1>1, <1>8
  <2>2. Holds(b, q + 1, n, Decimal[Len(t)]) /\ Holds(b, (q + 1) + Len(Decimal[Len(t)]), n, CRLF)
    BY <2>1, <1>7, <1>8 DEF d
  <2> DEFINE p == q + 1   k == Len(t)
  <2>3. /\ b \in Seq(Nat) /\ n \in 0 .. Len(b) /\ p \in Nat /\ k \in Nat
        /\ Holds(b, p, n, Decimal[k]) /\ Holds(b, p + Len(Decimal[k]), n, CRLF)
    BY <2>1, <2>2, <1>1
  <2> HIDE DEF p, k
  <2>4. readLength(b, p, n) = [length |-> k, next |-> p + Len(Decimal[k]) + 2]
    BY ONLY <2>3, LengthReads
  <2> QED
    BY <2>4 DEF d, p, k
<1>10. /\ q + Len(v) = (q + 1) + Len(d) + 2 /\ q + Len(v) \in Nat
       /\ q + Len(encodeString(t)) = ((q + Len(v)) + Len(t)) + 2
       /\ q + Len(w) + 2 <= n /\ Len(encodeString(t)) = 1 + Len(d) + 2 + Len(t) + 2
  BY <1>1, <1>2, <1>5, <1>6, <1>7, <1>8 DEF Holds
<1>11. Slice(b, q + Len(v), (q + Len(v)) + Len(t)) = t
  BY <1>6, <1>10, SliceIs
<1>12. (q + Len(v)) + Len(t) <= Len(b)
  BY <1>1, <1>6, <1>10
<1>13. readBulkString(b, q, n) = Value(Str(t), ((q + Len(v)) + Len(t)) + 2)
  <2> DEFINE r == [length |-> Len(t), next |-> q + Len(v)]
  <2>1. readBulkString(b, q, n) = StringAt(b, r, "panic")
    BY <1>9, <1>10 DEF readBulkString
  <2>2. r.length = Len(t) /\ r.next = q + Len(v)
    OBVIOUS
  <2> HIDE DEF r
  <2>3. ~ ((q + Len(v)) + Len(t) > Len(b))
    BY <1>1, <1>10, <1>12
  <2> QED
    BY <2>1, <2>2, <2>3, <1>11 DEF StringAt
<1>14. b[q + 1] = Dollar
  BY <1>2, <1>8 DEF Holds
<1>15. encodeString(t) \in Seq(Nat)
  BY <1>3, <1>4 DEF w, v, u
<1>16. Len(encodeString(t)) \in Nat \ {0} /\ q + Len(encodeString(t)) <= n
  BY <1>1, <1>2, <1>10, <1>5 DEF Holds
<1> QED
  BY <1>10, <1>13, <1>14, <1>15, <1>16
-----------------------------------------------------------------------------
(* Recursion over positions.                                               *)

\* f[i] is what has been read of an array after i elements.
Reads(f, one, v, n, m) ==
  f = [i \in 0 .. m |-> IF i = 0 THEN v ELSE WithElement(one, f[i - 1], n)]

\* There is such a function.
LEMMA ReadsExist ==
  ASSUME NEW one, NEW v, NEW n, NEW m \in Nat
  PROVE  \E f : Reads(f, one, v, n, m)
<1> DEFINE K == {k \in Nat : \E f : Reads(f, one, v, n, k)}
<1>1. 0 \in K
  <2>1. Reads([i \in 0 .. 0 |-> v], one, v, n, 0)
    BY DEF Reads
  <2> QED
    BY <2>1
<1>2. \A k \in Nat : k \in K => k + 1 \in K
  <2> SUFFICES ASSUME NEW k \in Nat, k \in K PROVE k + 1 \in K
    OBVIOUS
  <2>1. PICK f : Reads(f, one, v, n, k)
    OBVIOUS
  <2> DEFINE g == [i \in 0 .. k + 1 |-> IF i = k + 1 THEN WithElement(one, f[k], n) ELSE f[i]]
  <2>2. ASSUME NEW i \in 0 .. k + 1
        PROVE  g[i] = IF i = 0 THEN v ELSE WithElement(one, g[i - 1], n)
    <3>1. CASE i = k + 1
      BY <3>1
    <3>2. CASE i \in 0 .. k
      BY <3>2, <2>1 DEF Reads
    <3> QED
      BY <3>1, <3>2
  <2>3. g = [i \in 0 .. k + 1 |-> IF i = 0 THEN v ELSE WithElement(one, g[i - 1], n)]
    BY <2>2
  <2> HIDE DEF g
  <2>4. Reads(g, one, v, n, k + 1)
    BY <2>3 DEF Reads
  <2> QED
    BY <2>4
<1> HIDE DEF K
<1>3. m \in K
  BY <1>1, <1>2, NatInSet
<1> QED
  BY <1>3 DEF K

\* It is what Elements computes.
LEMMA ElementsAre ==
  ASSUME NEW one, NEW r, NEW n, r.length \in Nat, NEW f,
         Reads(f, one, Value(<<>>, r.next), n, r.length)
  PROVE  Elements(one, r, n) = f[r.length]
<1> DEFINE m == r.length
           v == Value(<<>>, r.next)
           g == CHOOSE h : Reads(h, one, v, n, m)
<1>1. Elements(one, r, n) = g[m]
  BY DEF Elements, Reads
<1> HIDE DEF v
<1>2. Reads(f, one, v, n, m) /\ Reads(g, one, v, n, m)
  <2>1. Reads(f, one, v, n, m)
    BY DEF v
  <2> QED
    BY <2>1
<1> HIDE DEF g
<1> DEFINE K == {i \in Nat : i <= m => g[i] = f[i]}
<1>3. 0 \in K
  BY <1>2 DEF Reads
<1>4. \A i \in Nat : i \in K => i + 1 \in K
  <2> SUFFICES ASSUME NEW i \in Nat, i \in K, i + 1 <= m PROVE g[i + 1] = f[i + 1]
    OBVIOUS
  <2>1. i + 1 \in 0 .. m /\ i + 1 # 0 /\ (i + 1) - 1 = i /\ g[i] = f[i]
    OBVIOUS
  <2> HIDE DEF K, m
  <2>2. g[i + 1] = WithElement(one, g[i], n)
    BY <2>1, <1>2 DEF Reads
  <2>3. f[i + 1] = WithElement(one, f[i], n)
    BY <2>1, <1>2 DEF Reads
  <2> QED
    BY <2>1, <2>2, <2>3
<1> HIDE DEF K
<1>5. m \in K
  BY <1>3, <1>4, NatInSet
<1> QED
  BY <1>1, <1>5 DEF K

\* A value that is read ends after m, at least.
Beyond(a, m) == a.out = "value" => a = Value(a.val, a.next) /\ a.next \in Nat /\ a.next >= m

\* What stands at p or later ends after it.
Advances(one, p, n) == \A q \in p .. n - 1 : Beyond(one[q], q + 1)

\* Two readings agree from p on.
Agree(one, two, p, n) == \A q \in p .. n - 1 : two[q] = one[q]

\* Reading an element depends only on what stands after m.
LEMMA ElementAgrees ==
  ASSUME NEW n \in Nat, NEW m \in Nat, NEW one, NEW two, Advances(one, m, n),
         Agree(one, two, m, n),
         NEW a, Beyond(a, m)
  PROVE  /\ WithElement(two, a, n) = WithElement(one, a, n)
         /\ Beyond(WithElement(one, a, n), m)
<1>1. CASE a.out # "value"
  BY <1>1 DEF WithElement
<1>2. CASE a.out = "value" /\ a.next >= n
  <2>1. a.next \in Nat
    BY <1>2 DEF Beyond
  <2> QED
    BY <2>1, <1>2 DEF WithElement, Beyond, Outcome
<1>3. CASE a.out = "value" /\ a.next < n
  <2>1. a.next \in m .. n - 1 /\ a.next \in Nat /\ ~(a.next > n) /\ a.next # n
    BY <1>3 DEF Beyond
  <2> DEFINE e == one[a.next]
  <2>2. two[a.next] = e
    BY <2>1 DEF Agree
  <2>3. Beyond(e, a.next + 1)
    BY <2>1 DEF Advances
  <2> HIDE DEF e
  <2> DEFINE w == IF e.out \in {"panic", "error"} THEN e
                  ELSE Value(Append(a.val, e.val), IF e.out = "value" THEN e.next ELSE a.next)
  <2>4. WithElement(two, a, n) = w
    BY <2>1, <2>2, <1>3 DEF WithElement
  <2>5. WithElement(one, a, n) = w
    BY <2>1, <1>3 DEF WithElement, e
  <2>6. Beyond(w, m)
    <3>1. CASE e.out \in {"panic", "error"}
      BY <3>1 DEF Beyond
    <3>2. CASE e.out \notin {"panic", "error"}
      <4> DEFINE next == IF e.out = "value" THEN e.next ELSE a.next
                 val == Append(a.val, e.val)
      <4>1. next \in Nat /\ next >= m
        BY <2>1, <2>3 DEF Beyond
      <4>2. w = Value(val, next)
        BY <3>2
      <4> HIDE DEF next, val, w
      <4>3. w.out = "value" /\ w.val = val /\ w.next = next
        BY <4>2 DEF Value
      <4> QED
        BY <4>1, <4>2, <4>3 DEF Beyond
    <3> QED
      BY <3>1, <3>2
  <2> HIDE DEF w
  <2> QED
    BY <2>4, <2>5, <2>6
<1>4. a.out = "value" => a.next \in Nat
  BY DEF Beyond
<1> QED
  BY <1>1, <1>2, <1>3, <1>4

\* So does reading an array.
LEMMA ElementsAgree ==
  ASSUME NEW n \in Nat, NEW m \in Nat, NEW one, NEW two, Advances(one, m, n),
         Agree(one, two, m, n),
         NEW r, r.length \in Nat, r.next \in Nat, r.next >= m
  PROVE  Elements(two, r, n) = Elements(one, r, n) /\ Beyond(Elements(one, r, n), m)
<1> DEFINE len == r.length
           v == Value(<<>>, r.next)
<1>1. PICK f : Reads(f, one, v, n, len)
  BY ReadsExist
<1>2. Beyond(v, m)
  BY DEF Beyond, Value
<1> HIDE DEF v
<1> DEFINE K == {i \in Nat : i <= len => Beyond(f[i], m)}
<1>3. 0 \in K
  BY <1>1, <1>2 DEF Reads
<1>4. \A i \in Nat : i \in K => i + 1 \in K
  <2> SUFFICES ASSUME NEW i \in Nat, i \in K, i + 1 <= len PROVE Beyond(f[i + 1], m)
    OBVIOUS
  <2>1. i + 1 \in 0 .. len /\ i + 1 # 0 /\ (i + 1) - 1 = i /\ Beyond(f[i], m)
    OBVIOUS
  <2> HIDE DEF K, len
  <2> DEFINE a == f[i]
  <2>2. f[i + 1] = WithElement(one, a, n)
    BY <2>1, <1>1 DEF Reads
  <2>3. Agree(one, one, m, n) /\ Beyond(a, m)
    BY <2>1 DEF Agree
  <2> HIDE DEF a
  <2>4. Beyond(WithElement(one, a, n), m)
    BY <2>3, ElementAgrees
  <2> QED
    BY <2>2, <2>4
<1>5. Nat \subseteq K
  <2> HIDE DEF K
  <2> QED
    BY <1>3, <1>4, NatInSet
<1>6. \A i \in 0 .. len : Beyond(f[i], m)
  BY <1>5
<1>9. len \in Nat /\ len \in 0 .. len
  OBVIOUS
<1> HIDE DEF K, len
<1>7. Reads(f, two, v, n, len)
  <2>1. ASSUME NEW i \in 0 .. len
        PROVE  f[i] = IF i = 0 THEN v ELSE WithElement(two, f[i - 1], n)
    <3>1. CASE i = 0
      BY <3>1, <1>1 DEF Reads
    <3>2. CASE i # 0
      <4> DEFINE a == f[i - 1]
      <4>1. i - 1 \in 0 .. len
        BY <3>2, <1>9
      <4>2. Beyond(a, m)
        BY <4>1, <1>6
      <4>3. f[i] = WithElement(one, a, n)
        BY <3>2, <1>1 DEF Reads
      <4> HIDE DEF a
      <4>4. WithElement(two, a, n) = WithElement(one, a, n)
        BY <4>2, ElementAgrees
      <4> QED
        BY <3>2, <4>3, <4>4 DEF a
    <3> QED
      BY <3>1, <3>2
  <2>2. f = [i \in 0 .. len |-> f[i]]
    BY <1>1 DEF Reads
  <2> QED
    BY <2>1, <2>2 DEF Reads
<1>8. Elements(one, r, n) = f[len] /\ Elements(two, r, n) = f[len]
  BY <1>1, <1>7, ElementsAre DEF v, len
<1> QED
  BY <1>6, <1>8, <1>9

\* What stands at p depends only on what stands after it, and ends after it.
LEMMA DecodeAgrees ==
  ASSUME NEW b \in Seq(Nat), NEW n \in 0 .. Len(b), NEW p \in 0 .. n - 1,
         NEW one, NEW two, Advances(one, p + 1, n),
         Agree(one, two, p + 1, n)
  PROVE  /\ DecodeAt(b, p, n, two) = DecodeAt(b, p, n, one)
         /\ Beyond(DecodeAt(b, p, n, one), p + 1)
<1>1. n \in Nat /\ p + 1 \in 0 .. n /\ p + 1 \in Nat
  OBVIOUS
<1>2. Beyond(readSimpleString(b, p, n), p + 1) /\ Beyond(readInt64(b, p, n), p + 1)
  <2> DEFINE e == CRAt(b, p + 1, n)
  <2>1. e \in p + 1 .. n
    BY <1>1, CRAtIs
  <2>2. /\ readSimpleString(b, p, n)
             = IF e = n THEN Outcome("panic") ELSE Value(Str(Slice(b, p + 1, e)), e + 2)
        /\ readInt64(b, p, n)
             = IF e = n THEN Outcome("panic") ELSE Value(Integer(Int64(Number(Slice(b, p + 1, e)))), e + 2)
    BY DEF readSimpleString, readInt64, CRAt
  <2> HIDE DEF e
  <2> QED
    BY <1>1, <2>1, <2>2 DEF Beyond, Value, Outcome
<1> DEFINE r == readLength(b, p + 1, n)
<1>3. r.length \in Nat /\ r.next \in Nat /\ r.next >= p + 1
  BY <1>1, LengthType
<1> HIDE DEF r
<1>4. Beyond(readBulkString(b, p, n), p + 1)
  <2>1. readBulkString(b, p, n) = StringAt(b, r, "panic")
    BY DEF readBulkString, r
  <2> DEFINE s == Str(Slice(b, r.next, r.next + r.length))
             next == r.next + r.length + 2
  <2>2. StringAt(b, r, "panic") = Outcome("panic") \/ StringAt(b, r, "panic") = Value(s, next)
    BY DEF StringAt
  <2>3. next \in Nat /\ next >= p + 1
    BY <1>3
  <2> HIDE DEF s, next
  <2> QED
    BY <2>1, <2>2, <2>3 DEF Beyond, Value, Outcome
<1>5. readArray(b, p, n, two) = readArray(b, p, n, one) /\ Beyond(readArray(b, p, n, one), p + 1)
  <2> DEFINE a == Elements(one, r, n)
  <2>1. Elements(two, r, n) = a /\ Beyond(a, p + 1)
    <3> DEFINE m == p + 1
    <3>1. m \in Nat /\ r.next >= m /\ Advances(one, m, n) /\ Agree(one, two, m, n)
      BY <1>1, <1>3
    <3> HIDE DEF m
    <3>2. Elements(two, r, n) = Elements(one, r, n) /\ Beyond(Elements(one, r, n), m)
      BY <1>1, <1>3, <3>1, ElementsAgree
    <3> QED
      BY <3>2 DEF m
  <2>2. readArray(b, p, n, two) = ArrayOf(a) /\ readArray(b, p, n, one) = ArrayOf(a)
    BY <2>1 DEF readArray, r
  <2> HIDE DEF a
  <2>3. Beyond(ArrayOf(a), p + 1)
    <3>1. CASE a.out = "value"
      <4>1. a = Value(a.val, a.next) /\ a.next \in Nat /\ a.next >= p + 1
        BY <3>1, <2>1 DEF Beyond
      <4>2. ArrayOf(a) = Value(Arr(a.val), a.next)
        BY <3>1, <4>1 DEF ArrayOf, Value
      <4> QED
        BY <4>1, <4>2 DEF Beyond, Value
    <3>2. CASE a.out # "value"
      BY <3>2 DEF ArrayOf, Beyond
    <3> QED
      BY <3>1, <3>2
  <2> QED
    BY <2>2, <2>3
<1>6. Beyond(Outcome("unknown"), p + 1)
  BY DEF Beyond, Outcome
<1> QED
  BY <1>2, <1>4, <1>5, <1>6 DEF DecodeAt

\* DecodeOne exists, and what stands anywhere is read from what stands later.
LEMMA DecodeOneIs ==
  ASSUME NEW b \in Seq(Nat), NEW n \in 0 .. Len(b)
  PROVE  LET one == DecodeOne(b, n)
         IN Advances(one, 0, n) /\ \A p \in 0 .. n - 1 : one[p] = DecodeAt(b, p, n, one)
<1> DEFINE
     From(one, m) == /\ one = [p \in 0 .. n - 1 |-> one[p]]
                     /\ Advances(one, n - m, n)
                     /\ \A p \in n - m .. n - 1 : one[p] = DecodeAt(b, p, n, one)
     Rec(one) == one = [p \in 0 .. n - 1 |-> DecodeAt(b, p, n, one)]
     K == {m \in Nat : m <= n => \E one : From(one, m)}
<1>0. n \in Nat
  OBVIOUS
<1>1. 0 \in K
  <2> DEFINE one == [p \in 0 .. n - 1 |-> NoValue]
  <2>1. one = [p \in 0 .. n - 1 |-> one[p]]
    OBVIOUS
  <2> HIDE DEF one
  <2>2. From(one, 0)
    BY <1>0, <2>1 DEF Advances
  <2> HIDE DEF From
  <2> QED
    BY <2>2
<1>2. \A m \in Nat : m \in K => m + 1 \in K
  <2> SUFFICES ASSUME NEW m \in Nat, m \in K, m + 1 <= n PROVE \E one : From(one, m + 1)
    BY SMTT(60)
  <2>1. PICK one : From(one, m)
    BY <1>0
  <2> DEFINE g == [p \in 0 .. n - 1 |-> DecodeAt(b, p, n, one)]
  <2>2. g = [p \in 0 .. n - 1 |-> g[p]]
    OBVIOUS
  <2>2a. \A p \in 0 .. n - 1 : g[p] = DecodeAt(b, p, n, one)
    OBVIOUS
  <2> HIDE DEF g
  <2>2b. Advances(one, n - m, n) /\ \A p \in n - m .. n - 1 : one[p] = DecodeAt(b, p, n, one)
    BY <2>1
  <2>3. \A p \in n - m .. n - 1 : g[p] = one[p]
    BY <1>0, <2>2a, <2>2b, SMTT(60)
  <2>4. ASSUME NEW p \in n - (m + 1) .. n - 1
        PROVE  g[p] = DecodeAt(b, p, n, g) /\ Beyond(g[p], p + 1)
    <3>1. p \in 0 .. n - 1 /\ p + 1 \in n - m .. n
      BY <1>0
    <3>2. Advances(one, p + 1, n) /\ Agree(one, g, p + 1, n)
      BY <1>0, <2>3, <2>2b, <3>1, SMTT(60) DEF Advances, Agree
    <3>3. /\ DecodeAt(b, p, n, g) = DecodeAt(b, p, n, one)
          /\ Beyond(DecodeAt(b, p, n, one), p + 1)
      BY <3>1, <3>2, DecodeAgrees
    <3> QED
      BY <2>2a, <3>1, <3>3
  <2>5. From(g, m + 1)
    BY <2>2, <2>4 DEF Advances
  <2> HIDE DEF From
  <2> QED
    BY <2>5
<1>3. PICK one : From(one, n)
  <2> HIDE DEF From
  <2>1. n \in K
    <3> HIDE DEF K
    <3> QED
      BY <1>0, <1>1, <1>2, NatInSet
  <2> QED
    BY <2>1
<1>4. Rec(one)
  <2>1. \A p \in 0 .. n - 1 : p \in n - n .. n - 1
    BY <1>0
  <2> QED
    BY <2>1, <1>3
<1> DEFINE o == CHOOSE x : Rec(x)
<1>5. Rec(o)
  <2> HIDE DEF Rec
  <2> QED
    BY <1>4
<1>6. DecodeOne(b, n) = o
  BY DEF DecodeOne
<1> HIDE DEF o
<1>7. \A p \in 0 .. n - 1 : o[p] = DecodeAt(b, p, n, o)
  BY <1>5
<1> DEFINE J == {m \in Nat : m <= n => Advances(o, n - m, n)}
<1>8. 0 \in J
  BY <1>0 DEF Advances
<1>9. \A m \in Nat : m \in J => m + 1 \in J
  <2> SUFFICES ASSUME NEW m \in Nat, m \in J, m + 1 <= n PROVE Advances(o, n - (m + 1), n)
    OBVIOUS
  <2> SUFFICES ASSUME NEW q \in n - (m + 1) .. n - 1 PROVE Beyond(o[q], q + 1)
    BY DEF Advances
  <2>1. Advances(o, n - m, n)
    BY <1>0
  <2>2. q \in 0 .. n - 1 /\ q + 1 \in n - m .. n
    BY <1>0
  <2>3. Advances(o, q + 1, n) /\ Agree(o, o, q + 1, n)
    BY <2>1, <2>2, <1>0 DEF Advances, Agree
  <2> QED
    BY <2>2, <2>3, <1>7, DecodeAgrees
<1>10. Advances(o, 0, n)
  <2>1. n \in J
    <3> HIDE DEF J
    <3> QED
      BY <1>0, <1>8, <1>9, NatInSet
  <2>2. n - n = 0
    BY <1>0
  <2> QED
    BY <2>1, <2>2
<1> QED
  BY <1>6, <1>7, <1>10

\* Values reads on from the end of each value.
LEMMA ValuesAre ==
  ASSUME NEW n \in Nat, NEW one, Advances(one, 0, n)
  PROVE  LET all == Values(one, n) IN \A p \in 0 .. n - 1 : all[p] = Onwards(one[p], all, n)
<1> DEFINE
     From(all, m) == /\ all = [p \in 0 .. n - 1 |-> all[p]]
                     /\ \A p \in n - m .. n - 1 : all[p] = Onwards(one[p], all, n)
     Rec(all) == all = [p \in 0 .. n - 1 |-> Onwards(one[p], all, n)]
     K == {m \in Nat : m <= n => \E all : From(all, m)}
<1>1. 0 \in K
  <2> DEFINE all == [p \in 0 .. n - 1 |-> NoValue]
  <2>1. all = [p \in 0 .. n - 1 |-> all[p]]
    OBVIOUS
  <2> HIDE DEF all
  <2>2. From(all, 0)
    BY <2>1
  <2> HIDE DEF From
  <2> QED
    BY <2>2
<1>2. \A m \in Nat : m \in K => m + 1 \in K
  <2> SUFFICES ASSUME NEW m \in Nat, m \in K, m + 1 <= n PROVE \E all : From(all, m + 1)
    OBVIOUS
  <2>1. PICK all : From(all, m)
    <3>1. m <= n
      OBVIOUS
    <3> HIDE DEF From
    <3> QED
      BY <3>1
  <2> DEFINE g == [p \in 0 .. n - 1 |-> Onwards(one[p], all, n)]
  <2>2. g = [p \in 0 .. n - 1 |-> g[p]]
    OBVIOUS
  <2>2a. \A p \in 0 .. n - 1 : g[p] = Onwards(one[p], all, n)
    OBVIOUS
  <2> HIDE DEF g
  <2>2b. \A p \in n - m .. n - 1 : all[p] = Onwards(one[p], all, n)
    BY <2>1
  <2>3. \A p \in n - m .. n - 1 : g[p] = all[p]
    BY <2>2a, <2>2b
  <2>4. ASSUME NEW p \in n - (m + 1) .. n - 1 PROVE g[p] = Onwards(one[p], g, n)
    <3> DEFINE v == one[p]
    <3>1. p \in 0 .. n - 1 /\ Beyond(v, p + 1)
      BY DEF Advances
    <3> HIDE DEF v
    <3>2. ASSUME v.out = "value", ~(v.next >= n) PROVE g[v.next] = all[v.next]
      <4>1. v.next \in Nat /\ v.next >= p + 1
        BY <3>1, <3>2 DEF Beyond
      <4>2. v.next \in n - m .. n - 1
        BY <3>2, <4>1
      <4> QED
        BY <2>3, <4>2
    <3>3. Onwards(v, g, n) = Onwards(v, all, n)
      BY <3>2 DEF Onwards
    <3> QED
      BY <2>2a, <3>1, <3>3 DEF v
  <2>5. From(g, m + 1)
    BY <2>2, <2>4
  <2> HIDE DEF From
  <2> QED
    BY <2>5
<1>3. PICK all : From(all, n)
  <2> HIDE DEF From
  <2>1. n \in K
    <3> HIDE DEF K
    <3> QED
      BY <1>1, <1>2, NatInSet
  <2> QED
    BY <2>1
<1>4. Rec(all)
  <2>1. \A p \in 0 .. n - 1 : p \in n - n .. n - 1
    OBVIOUS
  <2> QED
    BY <2>1, <1>3
<1> DEFINE o == CHOOSE x : Rec(x)
<1>5. Rec(o)
  <2> HIDE DEF Rec
  <2> QED
    BY <1>4
<1>6. Values(one, n) = o
  BY DEF Values
<1> HIDE DEF o
<1> QED
  BY <1>5, <1>6
-----------------------------------------------------------------------------
(* Commands.                                                               *)

\* Where a concatenation of sequences stands, each stands after those before.
LEMMA HoldsJoins ==
  ASSUME NEW b, NEW n \in Nat, NEW p \in Nat, NEW seqs \in Seq(Seq(Nat)),
         NEW f \in [0 .. Len(seqs) -> Seq(Nat)], Joins(f, seqs),
         Holds(b, p, n, f[Len(seqs)])
  PROVE  /\ Len(f[0]) = 0 /\ \A i \in 0 .. Len(seqs) : Len(f[i]) \in Nat
         /\ \A i \in 1 .. Len(seqs) : /\ Len(f[i]) = Len(f[i - 1]) + Len(seqs[i])
                                      /\ Holds(b, p + Len(f[i - 1]), n, seqs[i])
<1> DEFINE m == Len(seqs)
<1>1. m \in Nat /\ \A i \in 1 .. m : seqs[i] \in Seq(Nat)
  BY LenProperties, ElementOfSeq
<1>2. Len(f[0]) = 0
  BY DEF Joins
<1>3. \A i \in 0 .. m : f[i] \in Seq(Nat) /\ Len(f[i]) \in Nat
  BY LenProperties
<1>4. ASSUME NEW i \in 1 .. m, Holds(b, p, n, f[i])
      PROVE  /\ Holds(b, p, n, f[i - 1]) /\ Holds(b, p + Len(f[i - 1]), n, seqs[i])
             /\ Len(f[i]) = Len(f[i - 1]) + Len(seqs[i])
  <2> DEFINE s == f[i - 1]   t == seqs[i]
  <2>1. f[i] = s \o t
    BY DEF Joins
  <2>2. s \in Seq(Nat) /\ t \in Seq(Nat)
    BY <1>1, <1>3
  <2>3. Holds(b, p, n, s \o t)
    BY <1>4, <2>1
  <2> HIDE DEF s, t
  <2>4. Holds(b, p, n, s) /\ Holds(b, p + Len(s), n, t) /\ Len(s \o t) = Len(s) + Len(t)
    BY <2>2, <2>3, HoldsParts
  <2> QED
    BY <2>1, <2>4 DEF s, t
<1> DEFINE held(j) == Holds(b, p, n, f[m - j])
           K == {j \in Nat : j <= m => held(j)}
<1>5. 0 \in K
  BY <1>1
<1>6. \A j \in Nat : j \in K => j + 1 \in K
  <2> HIDE DEF held
  <2> SUFFICES ASSUME NEW j \in Nat, j \in K, j + 1 <= m PROVE held(j + 1)
    OBVIOUS
  <2> USE DEF held
  <2>1. m - j \in 1 .. m /\ (m - j) - 1 = m - (j + 1) /\ Holds(b, p, n, f[m - j])
    BY <1>1
  <2> QED
    BY <2>1, <1>4
<1>7. ASSUME NEW i \in 1 .. m PROVE Holds(b, p, n, f[i])
  <2>1. m - i \in Nat /\ m - i <= m /\ m - (m - i) = i
    BY <1>1
  <2>2. m - i \in K
    <3> HIDE DEF K
    <3> QED
      BY <2>1, <1>5, <1>6, NatInSet
  <2> QED
    BY <2>1, <2>2
<1> QED
  BY <1>2, <1>3, <1>4, <1>7

\* An encoded string is what stands there.
LEMMA BulkStands ==
  ASSUME NEW b \in Seq(Nat), NEW n \in 0 .. Len(b), NEW q \in Nat, NEW t \in Seq(Nat),
         Holds(b, q, n, encodeString(t))
  PROVE  q < n /\ DecodeOne(b, n)[q] = Value(Str(t), q + Len(encodeString(t)))
<1> DEFINE one == DecodeOne(b, n)
<1>1. /\ Len(encodeString(t)) \in Nat \ {0} /\ q + Len(encodeString(t)) <= n /\ b[q + 1] = Dollar
      /\ readBulkString(b, q, n) = Value(Str(t), q + Len(encodeString(t)))
  BY BulkReads
<1>2. q \in 0 .. n - 1
  BY <1>1
<1>3. one[q] = DecodeAt(b, q, n, one)
  BY <1>2, DecodeOneIs
<1> HIDE DEF one
<1>4. DecodeAt(b, q, n, one) = readBulkString(b, q, n)
  <2>1. Dollar \notin {Plus, Minus} /\ Dollar # Colon /\ Dollar # Star
    BY DEF Dollar, Plus, Minus, Colon, Star
  <2> QED
    BY <1>1, <2>1 DEF DecodeAt
<1> QED
  BY <1>1, <1>2, <1>3, <1>4 DEF one

\* The values of the tokens of c.
Tokens(c) == [j \in 1 .. Len(c) |-> Str(c[j])]

\* An encoded command is made of bytes.
LEMMA EncodedParts ==
  ASSUME NEW c \in Seq(Seq(Nat))
  PROVE  LET seqs == [i \in DOMAIN c |-> encodeString(c[i])]
         IN seqs \in Seq(Seq(Nat)) /\ Len(seqs) = Len(c) /\ \A i \in 1 .. Len(c) : seqs[i] = encodeString(c[i])
<1>1. DOMAIN c = 1 .. Len(c) /\ Len(c) \in Nat /\ \A i \in 1 .. Len(c) : c[i] \in Seq(Nat)
  BY LenProperties, ElementOfSeq
<1>2. ASSUME NEW t \in Seq(Nat) PROVE encodeString(t) \in Seq(Nat)
  <2> DEFINE d == Decimal[Len(t)]
             x == <<Dollar>>
  <2>1. d \in Seq(Nat)
    BY DecimalReads, DigitsAreNat
  <2>2. CRLF \in Seq(Nat) /\ x \in Seq(Nat)
    BY DEF CRLF, CR, LF, Dollar
  <2> HIDE DEF d, x
  <2>3. x \o d \in Seq(Nat)
    BY <2>1, <2>2, ConcatProperties
  <2>4. (x \o d) \o CRLF \in Seq(Nat)
    BY <2>2, <2>3, ConcatProperties
  <2>5. ((x \o d) \o CRLF) \o t \in Seq(Nat)
    BY <2>4, ConcatProperties
  <2>6. (((x \o d) \o CRLF) \o t) \o CRLF \in Seq(Nat)
    BY <2>2, <2>5, ConcatProperties
  <2> QED
    BY <2>6 DEF encodeString, x, d
<1>3. \A i \in 1 .. Len(c) : encodeString(c[i]) \in Seq(Nat)
  BY <1>1, <1>2
<1> QED
  BY <1>1, <1>3

\* One more token.
LEMMA OneMore ==
  ASSUME NEW c \in Seq(Seq(Nat)), NEW i \in Nat, i + 1 <= Len(c)
  PROVE  Append([j \in 1 .. i |-> Str(c[j])], Str(c[i + 1])) = [j \in 1 .. i + 1 |-> Str(c[j])]
<1> DEFINE m == Len(c)
           T == {Str(c[j]) : j \in 1 .. m}
           s == [j \in 1 .. i |-> Str(c[j])]   u == Str(c[i + 1])   w == [j \in 1 .. i + 1 |-> Str(c[j])]
<1>1. m \in Nat /\ \A j \in 1 .. i + 1 : j \in 1 .. m
  BY LenProperties
<1>2. s \in Seq(T) /\ u \in T /\ Len(s) = i /\ w \in Seq(T) /\ Len(w) = i + 1 /\ w[i + 1] = u
  <2>1. \A j \in 1 .. i + 1 : Str(c[j]) \in T
    <3>1. ASSUME NEW j \in 1 .. i + 1 PROVE Str(c[j]) \in T
      BY <1>1
    <3> QED
      BY <3>1
  <2>2. u \in T /\ w[i + 1] = u
    BY <2>1
  <2> HIDE DEF T
  <2>3. s \in Seq(T) /\ w \in Seq(T) /\ Len(s) = i /\ Len(w) = i + 1
    BY <2>1, IsASeq, LenProperties
  <2> QED
    BY <2>2, <2>3
<1>3. \A j \in 1 .. i : w[j] = s[j]
  OBVIOUS
<1> HIDE DEF s, u, w, T
<1>4. /\ Append(s, u) \in Seq(T) /\ Len(Append(s, u)) = i + 1 /\ Append(s, u)[i + 1] = u
      /\ \A j \in 1 .. i : Append(s, u)[j] = s[j]
  BY <1>2, AppendTypes
<1>5. \A j \in 1 .. i + 1 : Append(s, u)[j] = w[j]
  BY <1>2, <1>3, <1>4
<1> QED
  BY <1>2, <1>4, <1>5, SeqEqual DEF s, u, w

\* The elements of an array are read one after the other.
LEMMA ElementsRead ==
  ASSUME NEW b \in Seq(Nat), NEW n \in 0 .. Len(b), NEW p \in Nat, NEW c \in Seq(Seq(Nat)),
         NEW seqs \in Seq(Seq(Nat)), Len(seqs) = Len(c),
         \A i \in 1 .. Len(c) : seqs[i] = encodeString(c[i]),
         NEW f \in [0 .. Len(seqs) -> Seq(Nat)], Joins(f, seqs),
         Holds(b, p, n, f[Len(seqs)])
  PROVE  Elements(DecodeOne(b, n), [length |-> Len(c), next |-> p], n)
           = Value(Tokens(c), p + Len(f[Len(c)]))
<1> DEFINE one == DecodeOne(b, n)
           m == Len(c)
           T == {Str(c[j]) : j \in 1 .. m}
           read(i) == [j \in 1 .. i |-> Str(c[j])]
           r == [length |-> m, next |-> p]
<1>1. m \in Nat /\ n \in Nat /\ \A i \in 1 .. m : c[i] \in Seq(Nat)
  BY LenProperties, ElementOfSeq
<1>2. /\ Len(f[0]) = 0 /\ \A i \in 0 .. m : Len(f[i]) \in Nat
      /\ \A i \in 1 .. m : /\ Len(f[i]) = Len(f[i - 1]) + Len(seqs[i])
                           /\ Holds(b, p + Len(f[i - 1]), n, seqs[i])
  <2>1. /\ n \in Nat /\ p \in Nat /\ seqs \in Seq(Seq(Nat))
        /\ f \in [0 .. Len(seqs) -> Seq(Nat)] /\ Joins(f, seqs) /\ Holds(b, p, n, f[Len(seqs)])
    BY <1>1
  <2>2. /\ Len(f[0]) = 0 /\ \A i \in 0 .. Len(seqs) : Len(f[i]) \in Nat
        /\ \A i \in 1 .. Len(seqs) : /\ Len(f[i]) = Len(f[i - 1]) + Len(seqs[i])
                                     /\ Holds(b, p + Len(f[i - 1]), n, seqs[i])
    BY ONLY <2>1, HoldsJoins
  <2>3. Len(seqs) = m
    OBVIOUS
  <2> HIDE DEF m
  <2> QED
    BY ONLY <2>2, <2>3
<1>3. PICK g : Reads(g, one, Value(<<>>, p), n, m)
  BY <1>1, ReadsExist
<1>4. g[0] = Value(<<>>, p) /\ \A i \in 1 .. m : g[i] = WithElement(one, g[i - 1], n)
  <2> DEFINE v == Value(<<>>, p)
  <2> HIDE DEF v, m, one
  <2>1. g = [i \in 0 .. m |-> IF i = 0 THEN v ELSE WithElement(one, g[i - 1], n)]
    BY <1>3 DEF Reads, v
  <2>2. 0 \in 0 .. m /\ \A i \in 1 .. m : i \in 0 .. m /\ i # 0
    BY <1>1
  <2>3. g[0] = v
    BY ONLY <2>1, <2>2
  <2>4. \A i \in 1 .. m : g[i] = WithElement(one, g[i - 1], n)
    BY ONLY <2>1, <2>2
  <2> QED
    BY <2>3, <2>4 DEF v
<1>5. ASSUME NEW i \in Nat, i + 1 <= m, g[i] = Value(read(i), p + Len(f[i]))
      PROVE  g[i + 1] = Value(read(i + 1), p + Len(f[i + 1]))
  <2> DEFINE q == p + Len(f[i])   t == c[i + 1]   a == g[i]
  <2>1. i + 1 \in 1 .. m /\ (i + 1) - 1 = i /\ i \in 0 .. m
    BY <1>1, <1>5
  <2>2. /\ q \in Nat /\ Holds(b, q, n, seqs[i + 1]) /\ seqs[i + 1] = encodeString(t)
        /\ p + Len(f[i + 1]) = q + Len(encodeString(t)) /\ t \in Seq(Nat)
    <3>1. /\ Len(f[i]) \in Nat /\ Holds(b, p + Len(f[i]), n, seqs[i + 1]) /\ t \in Seq(Nat)
          /\ Len(f[i + 1]) = Len(f[i]) + Len(seqs[i + 1]) /\ seqs[i + 1] = encodeString(t)
      BY <1>1, <1>2, <2>1
    <3>2. Len(f[i + 1]) \in Nat /\ Len(seqs[i + 1]) \in Nat
      <4>1. i + 1 \in 0 .. m /\ seqs[i + 1] \in Seq(Nat)
        BY <2>1, ElementOfSeq
      <4> QED
        BY <4>1, <1>2, LenProperties
    <3> DEFINE u == Len(f[i])   w == Len(f[i + 1])   x == Len(seqs[i + 1])
    <3>3. u \in Nat /\ w \in Nat /\ x \in Nat /\ w = u + x /\ q = p + u /\ p \in Nat
      BY <3>1, <3>2
    <3> HIDE DEF u, w, x, q
    <3>4. q \in Nat /\ p + w = q + x
      BY ONLY <3>3
    <3>5. p + Len(f[i + 1]) = q + Len(encodeString(t))
      BY <3>1, <3>4 DEF w, x
    <3>6. Holds(b, q, n, seqs[i + 1])
      BY <3>1 DEF q
    <3> QED
      BY ONLY <3>1, <3>4, <3>5, <3>6
  <2>3. g[i + 1] = WithElement(one, a, n)
    BY <1>4, <2>1
  <2>4. a = Value(read(i), q)
    BY <1>5
  <2> HIDE DEF q, t, a, one
  <2> DEFINE next == q + Len(encodeString(t))
  <2>5. q < n /\ one[q] = Value(Str(t), next)
    BY <2>2, BulkStands DEF one
  <2>6. WithElement(one, a, n) = Value(Append(read(i), Str(t)), next)
    <3> DEFINE s == read(i)   u == Str(t)
    <3>1. one[q] = Value(u, next) /\ a = Value(s, q)
      BY <2>4, <2>5
    <3> HIDE DEF s, u, next
    <3>2. a.out = "value" /\ a.next = q /\ a.val = s /\ ~(q > n) /\ q # n
      BY <3>1, <2>2, <2>5, <1>1, SMTT(60) DEF Value
    <3>3. one[q].out = "value" /\ one[q].val = u /\ one[q].next = next
      BY <3>1 DEF Value
    <3>4. WithElement(one, a, n) = Value(Append(s, u), next)
      BY <3>2, <3>3 DEF WithElement
    <3> QED
      BY <3>4 DEF s, u
  <2>7. Append(read(i), Str(t)) = read(i + 1)
    <3>1. i \in Nat /\ i + 1 <= Len(c) /\ c \in Seq(Seq(Nat))
      BY <1>5
    <3>2. Append([j \in 1 .. i |-> Str(c[j])], Str(c[i + 1])) = [j \in 1 .. i + 1 |-> Str(c[j])]
      BY ONLY <3>1, OneMore
    <3> QED
      BY <3>2 DEF t
  <2> QED
    BY <2>2, <2>3, <2>6, <2>7
<1> DEFINE right(i) == g[i] = Value(read(i), p + Len(f[i]))
           K == {i \in Nat : i <= m => right(i)}
<1>6. 0 \in K
  <2>1. read(0) = <<>>
    OBVIOUS
  <2> HIDE DEF read, m, one
  <2>2. p + Len(f[0]) = p
    BY ONLY <1>1, <1>2
  <2>3. right(0)
    BY <2>1, <2>2, <1>4
  <2> HIDE DEF right
  <2> QED
    BY <2>3
<1>7. \A i \in Nat : i \in K => i + 1 \in K
  <2>1. m \in Nat /\ \A i \in Nat : i + 1 <= m /\ right(i) => right(i + 1)
    BY <1>1, <1>5
  <2> HIDE DEF right, m
  <2> QED
    BY ONLY <2>1
<1>8. g[m] = Value(Tokens(c), p + Len(f[m]))
  <2>1. m \in K
    <3> HIDE DEF K
    <3> QED
      BY <1>1, <1>6, <1>7, NatInSet
  <2> QED
    BY <2>1, <1>1 DEF Tokens
<1>9. r.length = m /\ r.next = p
  OBVIOUS
<1>10. Elements(one, r, n) = g[m]
  <2> HIDE DEF r, one
  <2>1. r.length \in Nat /\ Reads(g, one, Value(<<>>, r.next), n, r.length)
    BY <1>1, <1>3, <1>9
  <2>2. Elements(one, r, n) = g[r.length]
    BY ONLY <2>1, ElementsAre
  <2> QED
    BY <2>2, <1>9
<1> QED
  BY <1>8, <1>10

\* An encoded command is read as the array of its tokens.
LEMMA CommandStands ==
  ASSUME NEW b \in Seq(Nat), NEW n \in 0 .. Len(b), NEW p \in Nat, NEW c \in Seq(Seq(Nat)),
         Holds(b, p, n, EncodeStrings(c))
  PROVE  /\ EncodeStrings(c) \in Seq(Nat) /\ Len(EncodeStrings(c)) \in Nat \ {0}
         /\ p + Len(EncodeStrings(c)) <= n /\ p < n
         /\ DecodeOne(b, n)[p] = Value(Arr(Tokens(c)), p + Len(EncodeStrings(c)))
<1> DEFINE one == DecodeOne(b, n)
           d == Decimal[Len(c)]
           x == <<Star>>
           u == x \o d
           v == u \o CRLF
           seqs == [i \in DOMAIN c |-> encodeString(c[i])]
           z == FlattenSeq(seqs)
<1>1. /\ d \in Seq(Nat) /\ Len(d) \in Nat \ {0} /\ Len(c) \in Nat /\ n \in Nat
      /\ CRLF \in Seq(Nat) /\ Len(CRLF) = 2 /\ x \in Seq(Nat) /\ Len(x) = 1 /\ x[1] = Star
  BY DecimalReads, DigitsAreNat DEF Star, CRLF, CR, LF
<1>2. /\ seqs \in Seq(Seq(Nat)) /\ Len(seqs) = Len(c)
      /\ \A i \in 1 .. Len(c) : seqs[i] = encodeString(c[i])
  BY EncodedParts
<1>3. EncodeStrings(c) = v \o z
  BY DEF EncodeStrings
<1> HIDE DEF seqs, d, x
<1>4. PICK f \in [0 .. Len(seqs) -> Seq(Nat)] : Joins(f, seqs)
  BY <1>2, JoinsExist
<1>5. z = f[Len(c)] /\ z \in Seq(Nat)
  <2>1. /\ seqs \in Seq(Seq(Nat)) /\ f \in [0 .. Len(seqs) -> Seq(Nat)] /\ Joins(f, seqs)
        /\ Len(seqs) = Len(c) /\ Len(c) \in 0 .. Len(seqs)
    BY <1>1, <1>2, <1>4
  <2>2. FlattenSeq(seqs) = f[Len(seqs)]
    BY ONLY <2>1, FlattenIs
  <2> QED
    BY <2>1, <2>2
<1> HIDE DEF z
<1>6. u \in Seq(Nat) /\ v \in Seq(Nat) /\ v \o z \in Seq(Nat)
  <2>1. u \in Seq(Nat)
    BY <1>1, ConcatProperties
  <2> HIDE DEF u
  <2>2. v \in Seq(Nat)
    BY <1>1, <2>1, ConcatProperties
  <2> HIDE DEF v
  <2> QED
    BY <1>5, <2>1, <2>2, ConcatProperties
<1>7. Holds(b, p, n, v) /\ Holds(b, p + Len(v), n, z) /\ Len(EncodeStrings(c)) = Len(v) + Len(z)
  <2>1. v \in Seq(Nat) /\ z \in Seq(Nat) /\ n \in Nat /\ p \in Nat
    BY <1>1, <1>5, <1>6
  <2>2. Holds(b, p, n, v \o z)
    BY <1>3
  <2> HIDE DEF v
  <2>3. Holds(b, p, n, v) /\ Holds(b, p + Len(v), n, z) /\ Len(v \o z) = Len(v) + Len(z)
    BY ONLY <2>1, <2>2, HoldsParts
  <2> QED
    BY <2>3, <1>3
<1>8. Holds(b, p, n, u) /\ Holds(b, p + Len(u), n, CRLF) /\ Len(v) = Len(u) + Len(CRLF)
  <2>1. u \in Seq(Nat) /\ CRLF \in Seq(Nat) /\ n \in Nat /\ p \in Nat
    BY <1>1, <1>6
  <2> HIDE DEF u
  <2> QED
    BY ONLY <2>1, <1>7, HoldsParts
<1>9. Holds(b, p, n, x) /\ Holds(b, p + Len(x), n, d) /\ Len(u) = Len(x) + Len(d)
  <2>1. x \in Seq(Nat) /\ d \in Seq(Nat) /\ n \in Nat /\ p \in Nat
    BY <1>1
  <2> QED
    BY ONLY <2>1, <1>8, HoldsParts
<1> HIDE DEF u, v
<1> DEFINE q == p + Len(v)
           r == [length |-> Len(c), next |-> q]
<1>10. /\ q \in Nat /\ q = (p + 1) + Len(d) + 2 /\ p + Len(EncodeStrings(c)) = q + Len(z)
       /\ p + Len(u) = (p + 1) + Len(d) /\ p + Len(x) = p + 1
       /\ Len(z) \in Nat /\ q + Len(z) <= n /\ b[p + 1] = Star
       /\ Len(EncodeStrings(c)) \in Nat \ {0}
  <2>1. Len(z) \in Nat /\ (p + Len(v)) + Len(z) <= n
    BY <1>5, <1>7, LenProperties DEF Holds
  <2>2. b[p + 1] = Star
    BY <1>1, <1>9 DEF Holds
  <2> DEFINE lz == Len(z)   lv == Len(v)   lu == Len(u)   ld == Len(d)   le == Len(EncodeStrings(c))
  <2>3. /\ lz \in Nat /\ ld \in Nat \ {0} /\ lu = 1 + ld /\ lv = lu + 2 /\ le = lv + lz
        /\ (p + lv) + lz <= n /\ Len(x) = 1
    BY <1>1, <1>7, <1>8, <1>9, <2>1
  <2> HIDE DEF lz, lv, lu, ld, le
  <2>4. /\ p + lv \in Nat /\ p + lv = (p + 1) + ld + 2 /\ p + le = (p + lv) + lz
        /\ p + lu = (p + 1) + ld /\ p + Len(x) = p + 1 /\ le \in Nat \ {0}
    BY <2>3
  <2> QED
    BY <2>1, <2>2, <2>4 DEF lz, lv, lu, ld, le
<1>11. readLength(b, p + 1, n) = r
  <2>1. Holds(b, p + 1, n, Decimal[Len(c)]) /\ Holds(b, (p + 1) + Len(Decimal[Len(c)]), n, CRLF)
    BY <1>8, <1>9, <1>10 DEF d
  <2>2. readLength(b, p + 1, n) = [length |-> Len(c), next |-> (p + 1) + Len(Decimal[Len(c)]) + 2]
    <3> DEFINE m == p + 1   k == Len(c)
    <3>1. Holds(b, m, n, Decimal[k]) /\ Holds(b, m + Len(Decimal[k]), n, CRLF)
      BY ONLY <2>1
    <3>2a. m \in Nat /\ k \in Nat /\ b \in Seq(Nat) /\ n \in 0 .. Len(b)
      BY <1>1
    <3> HIDE DEF m, k
    <3>2. readLength(b, m, n) = [length |-> k, next |-> m + Len(Decimal[k]) + 2]
      BY ONLY <3>1, <3>2a, LengthReads
    <3> QED
      BY <3>2 DEF m, k
  <2> QED
    BY <2>2, <1>10 DEF d
<1>12. Elements(one, r, n) = Value(Tokens(c), q + Len(z))
  <2>1. Holds(b, q, n, f[Len(seqs)]) /\ q \in Nat
    BY <1>2, <1>5, <1>7, <1>10
  <2> HIDE DEF q
  <2>2. Elements(one, r, n) = Value(Tokens(c), q + Len(f[Len(c)]))
    BY <2>1, <1>2, <1>4, ElementsRead, ZenonT(60)
  <2> QED
    BY <2>2, <1>5
<1>13. readArray(b, p, n, one) = Value(Arr(Tokens(c)), q + Len(z))
  <2> HIDE DEF r, q, one
  <2>1. readArray(b, p, n, one) = ArrayOf(Value(Tokens(c), q + Len(z)))
    BY <1>11, <1>12 DEF readArray
  <2> QED
    BY <2>1 DEF ArrayOf, Value
<1>14. p \in 0 .. n - 1 /\ Len(EncodeStrings(c)) \in Nat \ {0}
  <2> HIDE DEF q
  <2>1. q > p
    BY <1>1, <1>10, SMTT(60)
  <2>2. p < n
    BY <2>1, <1>1, <1>10
  <2> QED
    BY <2>2, <1>1, <1>10
<1>15. one[p] = DecodeAt(b, p, n, one)
  BY <1>14, DecodeOneIs
<1>16. DecodeAt(b, p, n, one) = readArray(b, p, n, one)
  <2> HIDE DEF one
  <2>1. Star \notin {Plus, Minus} /\ Star # Colon /\ Dollar # Star
    BY DEF Dollar, Plus, Minus, Colon, Star
  <2> QED
    BY <1>10, <2>1 DEF DecodeAt
<1>17. EncodeStrings(c) \in Seq(Nat)
  BY <1>3, <1>6
<1> QED
  BY <1>10, <1>13, <1>14, <1>15, <1>16, <1>17

\* A sequence over a set is one over any larger set.
LEMMA SeqWidens ==
  ASSUME NEW S, NEW T, S \subseteq T
  PROVE  Seq(S) \subseteq Seq(T)
<1> SUFFICES ASSUME NEW s \in Seq(S) PROVE s \in Seq(T)
  OBVIOUS
<1>1. Len(s) \in Nat /\ s = [i \in 1 .. Len(s) |-> s[i]] /\ \A i \in 1 .. Len(s) : s[i] \in T
  BY LenProperties, ElementOfSeq
<1> QED
  BY <1>1, IsASeq

\* Commands are sequences of tokens, and not empty; so is what they are
\* encoded as.
LEMMA CommandsAre ==
  ASSUME NEW c \in Commands
  PROVE  /\ c \in Seq(Seq(Nat)) /\ Len(c) \in Nat \ {0} /\ Encoded[c] = EncodeStrings(c)
         /\ Encoded[c] \in Seq(Nat) /\ Len(Encoded[c]) \in Nat \ {0}
<1>1. c \in Seq(Seq(Nat)) /\ c # <<>>
  <2>1. c # <<>> /\ c \in Seq(Seq(1 .. 255))
    BY WireAssumption
  <2>2. Seq(1 .. 255) \subseteq Seq(Nat)
    <3> DEFINE B == 1 .. 255
    <3>1. B \subseteq Nat
      OBVIOUS
    <3> HIDE DEF B
    <3> QED
      BY <3>1, SeqWidens, ZenonT(60) DEF B
  <2> DEFINE T == Seq(1 .. 255)   U == Seq(Nat)
  <2>3. c \in Seq(T) /\ T \subseteq U
    BY <2>1, <2>2
  <2> HIDE DEF T, U
  <2>4. c \in Seq(U)
    BY <2>3
  <2> QED
    BY <2>1, <2>4 DEF U
<1>2. Len(c) \in Nat \ {0}
  BY <1>1, EmptySeq, LenProperties
<1>3. Encoded[c] = EncodeStrings(c)
  BY DEF Encoded
<1> DEFINE seqs == [i \in DOMAIN c |-> encodeString(c[i])]
           x == <<Star>>
           d == Decimal[Len(c)]
           z == FlattenSeq(seqs)
<1>4. seqs \in Seq(Seq(Nat))
  BY <1>1, EncodedParts
<1>5. z \in Seq(Nat)
  <2> HIDE DEF seqs
  <2>1. <<>> \in Seq(Nat)
    OBVIOUS
  <2> QED
    BY <1>4, <2>1, FlattenAppend
<1>6. x \in Seq(Nat) /\ Len(x) = 1 /\ CRLF \in Seq(Nat) /\ d \in Seq(Nat)
  BY <1>2, DecimalReads, DigitsAreNat DEF Star, CRLF, CR, LF
<1>7. EncodeStrings(c) = ((x \o d) \o CRLF) \o z
  BY DEF EncodeStrings
<1> HIDE DEF x, d, z
<1>8. x \o d \in Seq(Nat) /\ Len(x \o d) = 1 + Len(d) /\ Len(d) \in Nat
  BY <1>6, ConcatProperties, LenProperties, ZenonT(60)
<1>9. (x \o d) \o CRLF \in Seq(Nat) /\ Len((x \o d) \o CRLF) \in Nat \ {0}
  <2> DEFINE u == x \o d
  <2>1. u \in Seq(Nat) /\ Len(u) = 1 + Len(d)
    BY <1>8
  <2> HIDE DEF u
  <2>2. u \o CRLF \in Seq(Nat) /\ Len(u \o CRLF) = Len(u) + Len(CRLF) /\ Len(CRLF) \in Nat
    BY <2>1, <1>6, ConcatProperties, LenProperties
  <2>3. Len(u) + Len(CRLF) \in Nat \ {0}
    BY <2>1, <2>2, <1>8
  <2> QED
    BY <2>2, <2>3 DEF u
<1>10. EncodeStrings(c) \in Seq(Nat) /\ Len(EncodeStrings(c)) \in Nat \ {0}
  <2> DEFINE u == (x \o d) \o CRLF
  <2>1. u \in Seq(Nat) /\ Len(u) \in Nat \ {0}
    BY <1>9
  <2> HIDE DEF u
  <2>2. u \o z \in Seq(Nat) /\ Len(u \o z) = Len(u) + Len(z) /\ Len(z) \in Nat
    BY <2>1, <1>5, ConcatProperties, LenProperties
  <2>3. Len(u) + Len(z) \in Nat \ {0}
    BY <2>1, <2>2
  <2> QED
    BY <2>2, <2>3, <1>7 DEF u
<1> QED
  BY <1>1, <1>2, <1>3, <1>10

\* The encoded commands stand in b one after the other, ends[i] being where the
\* i-th ends, and the last ends at n.
Stands(b, n, cmds, ends) ==
  /\ ends[0] = 0 /\ ends[Len(cmds)] = n
  /\ \A i \in 1 .. Len(cmds) : /\ Holds(b, ends[i - 1], n, Encoded[cmds[i]])
                               /\ ends[i] = ends[i - 1] + Len(Encoded[cmds[i]])

\* Commands that stand in a buffer are decoded, one value for each.
LEMMA CommandsDecode ==
  ASSUME NEW b \in Seq(Nat), NEW n \in 0 .. Len(b), NEW cmds \in Seq(Commands), cmds # <<>>,
         NEW ends \in [0 .. Len(cmds) -> Nat], Stands(b, n, cmds, ends)
  PROVE  Decode(b, n) = Value([i \in 1 .. Len(cmds) |-> Arr(Tokens(cmds[i]))], n)
<1> DEFINE m == Len(cmds)
           one == DecodeOne(b, n)
           all == Values(one, n)
           val(i) == Arr(Tokens(cmds[i]))
           rest(j) == [i \in 1 .. m - j |-> val(j + i)]
<1>1. m \in Nat \ {0} /\ n \in Nat /\ \A i \in 1 .. m : cmds[i] \in Commands
  BY EmptySeq, LenProperties, ElementOfSeq
<1>2. ASSUME NEW i \in 1 .. m
      PROVE  /\ ends[i - 1] \in 0 .. n - 1 /\ one[ends[i - 1]] = Value(val(i), ends[i])
             /\ ends[i - 1] \in Nat
  <2> DEFINE c == cmds[i]   p == ends[i - 1]
  <2>1. c \in Commands /\ p \in Nat
    <3>1. i - 1 \in 0 .. Len(cmds)
      BY <1>1
    <3> QED
      BY <3>1, <1>1
  <2>2. Holds(b, p, n, Encoded[c]) /\ ends[i] = p + Len(Encoded[c])
    BY DEF Stands
  <2> HIDE DEF c, p
  <2>3. c \in Seq(Seq(Nat)) /\ Encoded[c] = EncodeStrings(c)
    BY <2>1, CommandsAre
  <2>4. Holds(b, p, n, EncodeStrings(c))
    BY <2>2, <2>3
  <2>5. p < n /\ one[p] = Value(Arr(Tokens(c)), p + Len(EncodeStrings(c)))
    BY <2>1, <2>3, <2>4, CommandStands
  <2> QED
    BY <2>1, <2>2, <2>3, <2>5, <1>1 DEF c, p
<1>3. \A p \in 0 .. n - 1 : all[p] = Onwards(one[p], all, n)
  <2>1. Advances(one, 0, n)
    BY DecodeOneIs
  <2> HIDE DEF one
  <2> QED
    BY <2>1, <1>1, ValuesAre
<1> DEFINE right(k) == all[ends[m - (k + 1)]] = Value(rest(m - (k + 1)), n)
           K == {k \in Nat : k + 1 <= m => right(k)}
<1>4. Decode(b, n) = all[0]
  <2>1. n # 0
    BY <1>1, <1>2
  <2> QED
    BY <2>1 DEF Decode
<1> HIDE DEF one, all
<1>5. 0 \in K
  <2> DEFINE v == one[ends[m - 1]]   a == val(m)   s == <<a>>
  <2>1. v = Value(a, n) /\ all[ends[m - 1]] = Onwards(v, all, n)
    <3>1. m \in 1 .. m /\ ends[m] = n
      BY <1>1 DEF Stands
    <3> HIDE DEF val
    <3>2. v = Value(a, n) /\ ends[m - 1] \in 0 .. n - 1
      BY <3>1, <1>2
    <3> QED
      BY <3>2, <1>3
  <2>2. rest(m - 1) = s
    <3>1. m - (m - 1) = 1 /\ (m - 1) + 1 = m
      BY <1>1
    <3> QED
      BY <3>1
  <2> HIDE DEF v, a, s, val, rest
  <2>3. v.out = "value" /\ v.next = n /\ v.val = a
    BY <2>1 DEF Value
  <2>4. Onwards(v, all, n) = Value(<<a>>, n)
    BY <2>3, <1>1 DEF Onwards
  <2>5. all[ends[m - 1]] = Value(rest(m - 1), n)
    BY <2>1, <2>2, <2>4 DEF s
  <2>6. m - (0 + 1) = m - 1
    BY <1>1
  <2> QED
    BY <2>5, <2>6
<1>6. \A k \in Nat : k \in K => k + 1 \in K
  <2> SUFFICES ASSUME NEW k \in Nat, right(k), (k + 1) + 1 <= m PROVE right(k + 1)
    <3> HIDE DEF right
    <3>1. \A k \in Nat : (k + 1) + 1 <= m => k + 1 <= m
      BY <1>1
    <3> QED
      BY <3>1
  <2> DEFINE j == m - (k + 2)
             v == one[ends[j]]   a == val(j + 1)   s == <<a>>   t == rest(j + 1)
             q == ends[j + 1]
  <2>1. /\ j \in Nat /\ j + 1 \in 1 .. m /\ j + 2 \in 1 .. m /\ (j + 1) - 1 = j /\ (j + 2) - 1 = j + 1
        /\ m - (k + 1) = j + 1 /\ m - ((k + 1) + 1) = j
    BY <1>1
  <2>2. v = Value(a, q) /\ ends[j] \in 0 .. n - 1
    BY <2>1, <1>2
  <2>3. q \in 0 .. n - 1
    BY <2>1, <1>2
  <2>4. all[ends[j]] = Onwards(v, all, n)
    BY <2>2, <1>3
  <2>5. all[q] = Value(t, n)
    BY <2>1
  <2>6. s \o t = rest(j)
    <3> DEFINE T == {val(i) : i \in 1 .. m}
    <3>1. ASSUME NEW i \in 1 .. m PROVE val(i) \in T
      OBVIOUS
    <3>2. \A i \in 1 .. m - j : j + i \in 1 .. m
      BY <2>1, <1>1
    <3>3. \A i \in 1 .. m - (j + 1) : (j + 1) + i \in 1 .. m
      BY <2>1, <1>1
    <3>4. m - j \in Nat /\ m - (j + 1) \in Nat /\ 1 + (m - (j + 1)) = m - j
      BY <2>1, <1>1
    <3> HIDE DEF T, val
    <3>5. t \in Seq(T) /\ Len(t) = m - (j + 1) /\ \A i \in 1 .. m - (j + 1) : t[i] = val((j + 1) + i)
      BY <3>1, <3>3, <3>4, IsASeq, LenProperties
    <3>6. rest(j) \in Seq(T) /\ Len(rest(j)) = m - j /\ \A i \in 1 .. m - j : rest(j)[i] = val(j + i)
      BY <3>1, <3>2, <3>4, IsASeq, LenProperties
    <3>7. s \in Seq(T) /\ Len(s) = 1 /\ s[1] = val(j + 1)
      BY <3>1, <2>1
    <3> DEFINE w == rest(j)   l == m - (j + 1)
    <3>8. w \in Seq(T) /\ Len(w) = 1 + l /\ \A i \in 1 .. 1 + l : w[i] = val(j + i)
      BY <3>4, <3>6
    <3> HIDE DEF s, t, w
    <3>9. /\ s \o t \in Seq(T) /\ Len(s \o t) = 1 + l
          /\ \A i \in 1 .. 1 + l : (s \o t)[i] = IF i <= 1 THEN s[i] ELSE t[i - 1]
      <4>1. Len(t) = l /\ l \in Nat
        BY <3>4, <3>5
      <4> HIDE DEF l, T
      <4>2. s \in Seq(T) /\ t \in Seq(T) /\ Len(s) = 1
        BY <3>5, <3>7
      <4> QED
        <5>1. /\ s \o t \in Seq(T) /\ Len(s \o t) = Len(s) + Len(t)
              /\ \A i \in 1 .. Len(s) + Len(t) :
                   (s \o t)[i] = IF i <= Len(s) THEN s[i] ELSE t[i - Len(s)]
          BY ONLY <4>2, ConcatProperties
        <5> QED
          BY ONLY <5>1, <4>1, <4>2
    <3>10. ASSUME NEW i \in 1 .. 1 + l PROVE (s \o t)[i] = w[i]
      <4>1. CASE i = 1
        <5>1. 1 \in 1 .. 1 + l /\ 1 <= 1
          BY <3>4
        <5>2. w[1] = val(j + 1)
          BY <5>1, <3>8
        <5>3. (s \o t)[1] = s[1]
          BY <5>1, <3>9
        <5> QED
          BY <4>1, <5>2, <5>3, <3>7
      <4>2. CASE i # 1
        <5>1. i - 1 \in 1 .. l /\ ~(i <= 1) /\ (j + 1) + (i - 1) = j + i
          BY <4>2, <3>4, <2>1
        <5>2. t[i - 1] = val(j + i)
          BY <5>1, <3>5
        <5> QED
          BY <5>1, <5>2, <3>8, <3>9
      <4> QED
        BY <4>1, <4>2
    <3> QED
      BY <3>8, <3>9, <3>10, SeqEqual DEF w
  <2> DEFINE r == rest(j)
  <2>7. s \o t = r
    BY <2>6
  <2> HIDE DEF v, a, s, t, q, r, val, rest, j
  <2>8. v.out = "value" /\ v.next = q /\ v.val = a /\ ~(v.next >= n)
    BY <2>2, <2>3, <1>1 DEF Value
  <2>9. Onwards(v, all, n) = Before(v, all[q])
    BY <2>8 DEF Onwards
  <2>10. Before(v, all[q]) = Value(s \o t, n)
    BY <2>5, <2>8 DEF Before, Value, s
  <2>11. all[ends[j]] = Value(r, n)
    BY <2>4, <2>7, <2>9, <2>10
  <2> QED
    BY <2>1, <2>11 DEF r
<1>7. right(m - 1)
  <2> HIDE DEF right
  <2>1. m - 1 \in Nat /\ (m - 1) + 1 <= m
    BY <1>1
  <2>2. m - 1 \in K
    <3> HIDE DEF K
    <3> QED
      BY <2>1, <1>5, <1>6, NatInSet
  <2> QED
    BY <2>1, <2>2
<1>8. m - ((m - 1) + 1) = 0 /\ m - 0 = m /\ \A i \in 1 .. m : 0 + i = i
  BY <1>1
<1>9. rest(0) = [i \in 1 .. m |-> val(i)]
  BY <1>8
<1> QED
  BY <1>4, <1>7, <1>8, <1>9 DEF Stands

\* Arrays of strings are the commands they came from.
LEMMA CommandsBack ==
  ASSUME NEW cmds \in Seq(Seq(Seq(Nat)) \ {<<>>}), NEW n
  PROVE  CommandsOf(Value([i \in 1 .. Len(cmds) |-> Arr(Tokens(cmds[i]))], n)) = Value(cmds, 0)
<1> DEFINE m == Len(cmds)
           vals == [i \in 1 .. m |-> Arr(Tokens(cmds[i]))]
<1>1. /\ m \in Nat /\ cmds = [i \in 1 .. m |-> cmds[i]] /\ DOMAIN cmds = 1 .. m
      /\ \A i \in 1 .. m : cmds[i] \in Seq(Seq(Nat)) \ {<<>>}
  BY LenProperties, ElementOfSeq
<1>2. \A i \in 1 .. m : cmds[i] = [j \in 1 .. Len(cmds[i]) |-> cmds[i][j]] /\ Len(cmds[i]) \in Nat \ {0}
  <2>1. ASSUME NEW c \in Seq(Seq(Nat)) \ {<<>>}
        PROVE  c = [j \in 1 .. Len(c) |-> c[j]] /\ Len(c) \in Nat \ {0}
    BY EmptySeq, LenProperties
  <2> QED
    BY <2>1, <1>1
<1>3. ASSUME NEW i \in 1 .. m
      PROVE  /\ vals[i][1] = "array" /\ vals[i][2] = Tokens(cmds[i])
             /\ DOMAIN vals[i][2] = 1 .. Len(cmds[i])
             /\ \A j \in 1 .. Len(cmds[i]) : /\ vals[i][2][j][1] = "string"
                                             /\ vals[i][2][j][2] = cmds[i][j]
  <2> DEFINE c == cmds[i]   t == Tokens(c)
  <2>1. vals[i] = Arr(t)
    OBVIOUS
  <2>2. DOMAIN t = 1 .. Len(c) /\ \A j \in 1 .. Len(c) : t[j] = Str(c[j])
    BY DEF Tokens
  <2> HIDE DEF t, vals
  <2>3. vals[i][1] = "array" /\ vals[i][2] = t
    BY <2>1 DEF Arr
  <2>4. \A j \in 1 .. Len(c) : t[j][1] = "string" /\ t[j][2] = c[j]
    BY <2>2 DEF Str
  <2> QED
    BY <2>2, <2>3, <2>4 DEF t
<1>4. DOMAIN vals = 1 .. m
  OBVIOUS
<1> DEFINE back == [i \in DOMAIN vals |-> [j \in DOMAIN vals[i][2] |-> vals[i][2][j][2]]]
<1>5. back = cmds
  <2>1. ASSUME NEW i \in 1 .. m PROVE back[i] = cmds[i]
    <3> HIDE DEF vals
    <3>1. back[i] = [j \in DOMAIN vals[i][2] |-> vals[i][2][j][2]]
      BY <1>4
    <3>2. [j \in DOMAIN vals[i][2] |-> vals[i][2][j][2]] = [j \in 1 .. Len(cmds[i]) |-> cmds[i][j]]
      <4> DEFINE t == vals[i][2]   c == cmds[i]
      <4>1. DOMAIN t = 1 .. Len(c) /\ \A j \in 1 .. Len(c) : t[j][2] = c[j]
        BY <1>3
      <4> HIDE DEF t, c
      <4>2. [j \in DOMAIN t |-> t[j][2]] = [j \in 1 .. Len(c) |-> c[j]]
        BY ONLY <4>1
      <4> QED
        BY <4>2 DEF t, c
    <3> QED
      BY <3>1, <3>2, <1>2
  <2>2. back = [i \in 1 .. m |-> back[i]]
    <3> HIDE DEF vals
    <3> QED
      BY <1>4
  <2> HIDE DEF back
  <2>3. [i \in 1 .. m |-> back[i]] = [i \in 1 .. m |-> cmds[i]]
    BY <2>1
  <2> QED
    BY <2>2, <2>3, <1>1
<1>6. \A v \in ToSet(vals) : v[1] = "array" /\ \A e \in ToSet(v[2]) : e[1] = "string"
  <2> HIDE DEF vals
  <2>1. \A i \in 1 .. m : /\ vals[i][1] = "array" /\ DOMAIN vals[i][2] = 1 .. Len(cmds[i])
                          /\ \A j \in 1 .. Len(cmds[i]) : vals[i][2][j][1] = "string"
    BY <1>3
  <2>2. ASSUME NEW v \in ToSet(vals) PROVE v[1] = "array" /\ \A e \in ToSet(v[2]) : e[1] = "string"
    <3>1. PICK i \in 1 .. m : v = vals[i]
      BY <1>4 DEF ToSet
    <3>2. v[1] = "array" /\ DOMAIN v[2] = 1 .. Len(cmds[i]) /\ \A j \in DOMAIN v[2] : v[2][j][1] = "string"
      BY <2>1, <3>1, SMTT(60)
    <3> QED
      BY ONLY <3>2 DEF ToSet
  <2> QED
    BY <2>2
<1>7. toArrayString(vals) = Value(cmds, 0)
  <2> HIDE DEF vals
  <2>1. toArrayString(vals) = Value(back, 0)
    BY <1>6 DEF toArrayString
  <2> QED
    BY <2>1, <1>5
<1>8. <<>> \notin ToSet(cmds)
  <2> DEFINE e == <<>>
  <2>1. Len(e) = 0
    OBVIOUS
  <2> HIDE DEF e
  <2>2. e \notin ToSet(cmds)
    BY <2>1, <1>1, <1>2 DEF ToSet
  <2> QED
    BY <2>2 DEF e
<1> HIDE DEF vals
<1>9. CommandsOf(Value(vals, n)) = WithFirst(Value(cmds, 0))
  BY <1>7 DEF CommandsOf, Value
<1>10. WithFirst(Value(cmds, 0)) = Value(cmds, 0)
  BY <1>8 DEF WithFirst, Value
<1> QED
  BY <1>9, <1>10 DEF vals

\* So a buffer of whole commands is read as those commands.
LEMMA CommandsRead ==
  ASSUME NEW b \in Seq(Nat), NEW n \in 0 .. Len(b), NEW cmds \in Seq(Commands), cmds # <<>>,
         NEW ends \in [0 .. Len(cmds) -> Nat], Stands(b, n, cmds, ends)
  PROVE  readCommands(b, n) = Value(cmds, 0)
<1>1. Decode(b, n) = Value([i \in 1 .. Len(cmds) |-> Arr(Tokens(cmds[i]))], n)
  BY CommandsDecode
<1>2. Commands \subseteq Seq(Seq(Nat)) \ {<<>>}
  BY CommandsAre, WireAssumption
<1>3. cmds \in Seq(Seq(Seq(Nat)) \ {<<>>})
  <2> DEFINE T == Seq(Seq(Nat)) \ {<<>>}
  <2> HIDE DEF T
  <2> QED
    BY <1>2, SeqWidens DEF T
<1> QED
  BY <1>1, <1>3, CommandsBack DEF readCommands
-----------------------------------------------------------------------------
(* The stream.                                                             *)

\* Where the i-th command of cmds ends.
BorderOf(cmds, i) == Len(Stream(SubSeq(cmds, 1, i)))

\* The encoded commands.
Parts(cmds) == [i \in DOMAIN cmds |-> Encoded[cmds[i]]]

\* The encodings a stream consists of.
LEMMA PartsAre ==
  ASSUME NEW cmds \in Seq(Commands)
  PROVE  /\ Parts(cmds) \in Seq(Seq(Nat)) /\ Len(Parts(cmds)) = Len(cmds) /\ Len(cmds) \in Nat
         /\ \A i \in 1 .. Len(cmds) : /\ cmds[i] \in Commands
                                      /\ Parts(cmds)[i] = Encoded[cmds[i]]
                                      /\ Parts(cmds)[i] \in Seq(Nat)
                                      /\ Len(Parts(cmds)[i]) \in Nat \ {0}
<1>1. DOMAIN cmds = 1 .. Len(cmds) /\ Len(cmds) \in Nat /\ \A i \in 1 .. Len(cmds) : cmds[i] \in Commands
  BY LenProperties, ElementOfSeq
<1>2. \A c \in Commands : Encoded[c] \in Seq(Nat) /\ Len(Encoded[c]) \in Nat \ {0}
  BY CommandsAre
<1>3. \A i \in 1 .. Len(cmds) : Encoded[cmds[i]] \in Seq(Nat)
  BY <1>1, <1>2
<1>4. Parts(cmds) = [i \in 1 .. Len(cmds) |-> Encoded[cmds[i]]]
  BY <1>1 DEF Parts
<1> DEFINE T == Seq(Nat)
<1>5. \A i \in 1 .. Len(cmds) : Encoded[cmds[i]] \in T
  BY <1>3
<1> HIDE DEF T
<1>6. Parts(cmds) \in Seq(T) /\ Len(Parts(cmds)) = Len(cmds)
  BY <1>1, <1>4, <1>5, IsASeq, LenProperties
<1>7. \A i \in 1 .. Len(cmds) : Parts(cmds)[i] = Encoded[cmds[i]]
  BY <1>4
<1> QED
  BY <1>1, <1>2, <1>6, <1>7 DEF T

\* The first commands of some.
LEMMA Prefix ==
  ASSUME NEW cmds \in Seq(Commands), NEW i \in 0 .. Len(cmds)
  PROVE  /\ SubSeq(cmds, 1, i) \in Seq(Commands) /\ Len(SubSeq(cmds, 1, i)) = i
         /\ \A k \in 1 .. i : SubSeq(cmds, 1, i)[k] = cmds[k]
<1>1. Len(cmds) \in Nat /\ \A k \in 1 .. i : cmds[k] \in Commands
  BY LenProperties, ElementOfSeq
<1>2. /\ SubSeq(cmds, 1, i) \in Seq(Commands)
      /\ Len(SubSeq(cmds, 1, i)) = IF 1 <= i THEN i - 1 + 1 ELSE 0
      /\ \A k \in 1 .. i - 1 + 1 : SubSeq(cmds, 1, i)[k] = cmds[1 + k - 1]
  BY <1>1, SubSeqProperties
<1>3. i - 1 + 1 = i /\ \A k \in 1 .. i : 1 + k - 1 = k
  BY <1>1
<1> QED
  BY <1>1, <1>2, <1>3

\* Some commands in the middle.
LEMMA Middle ==
  ASSUME NEW cmds \in Seq(Commands), NEW i \in 0 .. Len(cmds), NEW j \in i .. Len(cmds)
  PROVE  LET w == SubSeq(cmds, i + 1, j)
         IN w \in Seq(Commands) /\ Len(w) = j - i /\ \A k \in 1 .. j - i : w[k] = cmds[i + k]
<1>1. Len(cmds) \in Nat /\ i + 1 \in Int /\ j \in Int /\ i \in Int /\ i <= j
  BY LenProperties
<1>2. \A k \in i + 1 .. j : cmds[k] \in Commands
  BY <1>1, ElementOfSeq
<1> DEFINE w == SubSeq(cmds, i + 1, j)
<1>3. /\ w \in Seq(Commands) /\ Len(w) = IF i + 1 <= j THEN j - (i + 1) + 1 ELSE 0
      /\ \A k \in 1 .. j - (i + 1) + 1 : w[k] = cmds[(i + 1) + k - 1]
  BY <1>1, <1>2, SubSeqProperties
<1>4. j - (i + 1) + 1 = j - i /\ \A k \in 1 .. j - i : (i + 1) + k - 1 = i + k
  BY <1>1
<1> HIDE DEF w
<1>5. w \in Seq(Commands) /\ Len(w) = j - i /\ \A k \in 1 .. j - i : w[k] = cmds[i + k]
  BY <1>1, <1>3, <1>4
<1> QED
  BY <1>5 DEF w

\* What has been joined after i commands is the stream of the first i.
LEMMA StreamsJoin ==
  ASSUME NEW cmds \in Seq(Commands)
  PROVE  \E f \in [0 .. Len(cmds) -> Seq(Nat)] :
           /\ Joins(f, Parts(cmds)) /\ Stream(cmds) = f[Len(cmds)]
           /\ \A i \in 0 .. Len(cmds) : Stream(SubSeq(cmds, 1, i)) = f[i]
<1> DEFINE parts == Parts(cmds)   m == Len(cmds)
<1>1. parts \in Seq(Seq(Nat)) /\ Len(parts) = m /\ m \in Nat
  BY PartsAre
<1>2. PICK f \in [0 .. m -> Seq(Nat)] : Joins(f, parts)
  <2> HIDE DEF parts, m
  <2>1. \E f \in [0 .. Len(parts) -> Seq(Nat)] : Joins(f, parts)
    BY <1>1, JoinsExist
  <2> QED
    BY <2>1, <1>1
<1>3. ASSUME NEW cs \in Seq(Commands), Len(cs) <= m,
             \A k \in 1 .. Len(cs) : cs[k] = cmds[k]
      PROVE  Stream(cs) = f[Len(cs)]
  <2> DEFINE i == Len(cs)   g == [k \in 0 .. i |-> f[k]]   p == Parts(cs)
  <2>1. p \in Seq(Seq(Nat)) /\ Len(p) = i /\ i \in Nat /\ \A k \in 1 .. i : p[k] = Encoded[cs[k]]
    BY PartsAre
  <2>2. \A k \in 1 .. m : parts[k] = Encoded[cmds[k]]
    BY PartsAre
  <2>3. \A k \in 1 .. i : p[k] = parts[k] /\ k \in 1 .. m
    <3> HIDE DEF i, p, parts, m
    <3>1. \A k \in 1 .. i : k \in 1 .. m
      BY <2>1, <1>1, <1>3 DEF i
    <3>2. \A k \in 1 .. i : cs[k] = cmds[k]
      BY <1>3 DEF i
    <3>3. ASSUME NEW k \in 1 .. i PROVE p[k] = parts[k] /\ k \in 1 .. m
      <4>1. p[k] = Encoded[cs[k]]
        BY <2>1
      <4>2. k \in 1 .. m /\ cs[k] = cmds[k]
        BY <3>1, <3>2
      <4>3. parts[k] = Encoded[cmds[k]]
        BY <4>2, <2>2
      <4> QED
        BY <4>1, <4>2, <4>3
    <3> QED
      BY <3>3
  <2>4. g \in [0 .. i -> Seq(Nat)] /\ \A k \in 0 .. i : g[k] = f[k]
    <3>1. \A k \in 0 .. i : k \in 0 .. m
      BY <1>1, <1>3, <2>1
    <3> HIDE DEF i, m
    <3> QED
      BY <3>1
  <2> HIDE DEF g, parts, m
  <2>5. f[0] = <<>> /\ \A k \in 1 .. m : f[k] = f[k - 1] \o parts[k]
    BY <1>1, <1>2 DEF Joins
  <2>6. 0 \in 0 .. i /\ \A k \in 1 .. i : k - 1 \in 0 .. i /\ k \in 0 .. i
    BY <2>1
  <2> HIDE DEF i, p
  <2>7. g[0] = <<>> /\ \A k \in 1 .. i : g[k] = g[k - 1] \o p[k]
    BY <2>3, <2>4, <2>5, <2>6
  <2>8. Joins(g, p) /\ g \in [0 .. Len(p) -> Seq(Nat)]
    BY <2>1, <2>4, <2>7 DEF Joins
  <2>9. FlattenSeq(p) = g[Len(p)]
    BY <2>1, <2>8, FlattenIs
  <2>10. Stream(cs) = FlattenSeq(p)
    BY DEF Stream, Parts, p
  <2>11. g[i] = f[i] /\ Len(p) = i
    BY <2>1, <2>4
  <2> QED
    BY <2>9, <2>10, <2>11 DEF i
<1>4. Stream(cmds) = f[m]
  BY <1>1, <1>3
<1>5. ASSUME NEW i \in 0 .. m PROVE Stream(SubSeq(cmds, 1, i)) = f[i]
  <2> DEFINE cs == SubSeq(cmds, 1, i)
  <2>1. cs \in Seq(Commands) /\ Len(cs) = i /\ i <= m /\ \A k \in 1 .. i : cs[k] = cmds[k]
    BY <1>1, Prefix
  <2> HIDE DEF cs
  <2>2. Stream(cs) = f[Len(cs)]
    BY <2>1, <1>3
  <2> QED
    BY <2>1, <2>2 DEF cs
<1> QED
  BY <1>2, <1>4, <1>5

\* A non-decreasing sequence of numbers.
LEMMA Grows ==
  ASSUME NEW m \in Nat, NEW l \in [0 .. m -> Nat], \A k \in 1 .. m : l[k] > l[k - 1],
         NEW i \in 0 .. m, NEW j \in i + 1 .. m
  PROVE  l[i] < l[j]
<1> DEFINE less(d) == l[i] < l[i + d + 1]
           K == {d \in Nat : i + d + 1 <= m => less(d)}
<1>1. 0 \in K
  <2>1. ASSUME i + 0 + 1 <= m PROVE less(0)
    <3>1. i + 1 \in 1 .. m /\ (i + 1) - 1 = i /\ i + 0 + 1 = i + 1
      BY <2>1
    <3>2. l[i + 1] > l[(i + 1) - 1]
      BY <3>1
    <3>3. l[i] \in Nat /\ l[i + 1] \in Nat
      BY <3>1
    <3> QED
      BY <3>1, <3>2, <3>3
  <2> QED
    BY <2>1
<1>2. \A d \in Nat : d \in K => d + 1 \in K
  <2>1. ASSUME NEW d \in Nat, i + d + 1 <= m => less(d), i + (d + 1) + 1 <= m PROVE less(d + 1)
    <3> DEFINE k == i + d + 1
    <3>1. k \in 0 .. m /\ k + 1 \in 1 .. m /\ (k + 1) - 1 = k /\ i + (d + 1) + 1 = k + 1
      BY <2>1
    <3>2. l[i] < l[k]
      BY <2>1, <3>1
    <3> HIDE DEF k
    <3>3. l[k + 1] > l[k]
      BY <3>1
    <3>4. l[i] \in Nat /\ l[k] \in Nat /\ l[k + 1] \in Nat
      BY <3>1
    <3>5. l[i] < l[k + 1]
      BY <3>2, <3>3, <3>4
    <3> QED
      BY <3>1, <3>5
  <2> HIDE DEF less
  <2> QED
    BY <2>1
<1>3. j - (i + 1) \in Nat /\ i + (j - (i + 1)) + 1 = j
  OBVIOUS
<1>4. j - (i + 1) \in K
  <2> HIDE DEF K
  <2> QED
    BY <1>1, <1>2, <1>3, NatInSet
<1> QED
  BY <1>3, <1>4

\* The commands of a stream stand between its borders, which are in order.
LEMMA BordersAre ==
  ASSUME NEW cmds \in Seq(Commands)
  PROVE  LET m == Len(cmds)
         IN /\ Stream(cmds) \in Seq(Nat) /\ m \in Nat
            /\ BorderOf(cmds, 0) = 0 /\ BorderOf(cmds, m) = Len(Stream(cmds))
            /\ \A i \in 0 .. m : BorderOf(cmds, i) \in Nat
            /\ \A i \in 1 .. m :
                 /\ BorderOf(cmds, i) = BorderOf(cmds, i - 1) + Len(Encoded[cmds[i]])
                 /\ Holds(Stream(cmds), BorderOf(cmds, i - 1), Len(Stream(cmds)), Encoded[cmds[i]])
            /\ \A i \in 0 .. m : \A j \in i + 1 .. m : BorderOf(cmds, i) < BorderOf(cmds, j)
<1> DEFINE m == Len(cmds)   parts == Parts(cmds)   str == Stream(cmds)   len == Len(str)
           to(i) == BorderOf(cmds, i)
<1>1. /\ parts \in Seq(Seq(Nat)) /\ Len(parts) = m /\ m \in Nat
      /\ \A i \in 1 .. m : parts[i] = Encoded[cmds[i]] /\ Len(parts[i]) \in Nat \ {0}
  BY PartsAre
<1>2. PICK f \in [0 .. m -> Seq(Nat)] :
        /\ Joins(f, parts) /\ str = f[m] /\ \A i \in 0 .. m : Stream(SubSeq(cmds, 1, i)) = f[i]
  BY StreamsJoin
<1>3. \A i \in 0 .. m : to(i) = Len(f[i])
  BY <1>2 DEF BorderOf
<1> HIDE DEF m, parts, to, str
<1>4. str \in Seq(Nat) /\ len \in Nat /\ m \in 0 .. m /\ 0 \in 0 .. m
  BY <1>1, <1>2, LenProperties
<1>5. Holds(str, 0, len, str)
  <2>1. \A i \in 1 .. len : 0 + i = i
    OBVIOUS
  <2> QED
    BY <1>4, <2>1 DEF Holds
<1>6. /\ Len(f[0]) = 0 /\ \A i \in 0 .. m : Len(f[i]) \in Nat
      /\ \A i \in 1 .. m : /\ Len(f[i]) = Len(f[i - 1]) + Len(parts[i])
                           /\ Holds(str, 0 + Len(f[i - 1]), len, parts[i])
  <2>1. /\ len \in Nat /\ 0 \in Nat /\ parts \in Seq(Seq(Nat)) /\ f \in [0 .. Len(parts) -> Seq(Nat)]
        /\ Joins(f, parts) /\ Holds(str, 0, len, f[Len(parts)])
    BY <1>1, <1>2, <1>4, <1>5
  <2>2. Len(parts) = m
    BY <1>1
  <2> HIDE DEF len
  <2>3. /\ Len(f[0]) = 0 /\ \A i \in 0 .. Len(parts) : Len(f[i]) \in Nat
        /\ \A i \in 1 .. Len(parts) : /\ Len(f[i]) = Len(f[i - 1]) + Len(parts[i])
                                      /\ Holds(str, 0 + Len(f[i - 1]), len, parts[i])
    BY ONLY <2>1, HoldsJoins
  <2> QED
    BY ONLY <2>2, <2>3
<1>7. to(0) = 0 /\ to(m) = len /\ \A i \in 0 .. m : to(i) \in Nat
  BY <1>2, <1>3, <1>4, <1>6
<1>8. ASSUME NEW i \in 1 .. m
      PROVE  /\ to(i) = to(i - 1) + Len(parts[i]) /\ Holds(str, to(i - 1), len, parts[i])
             /\ to(i) > to(i - 1)
  <2>1. i \in 0 .. m /\ i - 1 \in 0 .. m
    BY <1>1
  <2>2. to(i) = Len(f[i]) /\ to(i - 1) = Len(f[i - 1]) /\ to(i - 1) \in Nat
    BY <2>1, <1>3, <1>7
  <2>3. 0 + Len(f[i - 1]) = to(i - 1)
    BY <2>2
  <2>4. to(i) = to(i - 1) + Len(parts[i]) /\ Holds(str, to(i - 1), len, parts[i])
    BY <2>2, <2>3, <1>6
  <2>5. Len(parts[i]) \in Nat \ {0}
    BY <1>1
  <2>6. to(i) > to(i - 1)
    BY <2>2, <2>4, <2>5
  <2> QED
    BY <2>4, <2>6
<1> DEFINE l == [i \in 0 .. m |-> to(i)]
<1>9. ASSUME NEW i \in 0 .. m, NEW j \in i + 1 .. m PROVE to(i) < to(j)
  <2>1. l \in [0 .. m -> Nat] /\ \A k \in 0 .. m : l[k] = to(k)
    BY <1>7
  <2>2. \A k \in 1 .. m : k \in 0 .. m /\ k - 1 \in 0 .. m
    BY <1>1
  <2> HIDE DEF l
  <2>3. \A k \in 1 .. m : l[k] > l[k - 1]
    BY <2>1, <2>2, <1>8
  <2>4. l[i] < l[j]
    BY <2>1, <2>3, <1>1, Grows
  <2>5. j \in 0 .. m
    BY <1>1
  <2> QED
    BY <2>1, <2>4, <2>5
<1>10. \A i \in 1 .. m : parts[i] = Encoded[cmds[i]]
  BY <1>1
<1>11. \A i \in 1 .. m : to(i) = to(i - 1) + Len(Encoded[cmds[i]]) /\ Holds(str, to(i - 1), len, Encoded[cmds[i]])
  BY <1>8, <1>10
<1> QED
  BY <1>1, <1>4, <1>7, <1>9, <1>11 DEF m, str, to

\* The bytes of a stream from p + 1 to p + n, in a buffer of size bytes.
Window(str, p, n, size) == SubSeq(str, p + 1, p + n) \o [i \in 1 .. size - n |-> NUL]

\* What a read finds in its buffer, and the zeros behind it.
Fills(b, str, p, n, size) ==
  /\ b \in Seq(Nat) /\ Len(b) = size /\ \A i \in 1 .. n : b[i] = str[p + i]
  /\ \A i \in n + 1 .. size : b[i] = NUL

\* A window is such a buffer.
LEMMA WindowIs ==
  ASSUME NEW str \in Seq(Nat), NEW p \in Nat, NEW n \in Nat, p + n <= Len(str),
         NEW size \in Nat, n <= size
  PROVE  Fills(Window(str, p, n, size), str, p, n, size)
<1> DEFINE s == SubSeq(str, p + 1, p + n)   z == [i \in 1 .. size - n |-> NUL]
<1>1. Len(str) \in Nat /\ p + 1 \in Int /\ p + n \in Int /\ size - n \in Nat
  BY LenProperties
<1>2. \A i \in p + 1 .. p + n : str[i] \in Nat
  BY <1>1, ElementOfSeq
<1>3. /\ s \in Seq(Nat) /\ Len(s) = (IF p + 1 <= p + n THEN (p + n) - (p + 1) + 1 ELSE 0)
      /\ \A i \in 1 .. (p + n) - (p + 1) + 1 : s[i] = str[(p + 1) + i - 1]
  BY <1>1, <1>2, SubSeqProperties
<1>4. (p + n) - (p + 1) + 1 = n /\ \A i \in 1 .. n : (p + 1) + i - 1 = p + i
  OBVIOUS
<1> HIDE DEF s
<1>5. Len(s) = n /\ \A i \in 1 .. n : s[i] = str[p + i]
  BY <1>1, <1>3, <1>4
<1>6. z \in Seq(Nat) /\ Len(z) = size - n /\ \A i \in 1 .. size - n : z[i] = NUL
  <2>1. NUL \in Nat
    BY DEF NUL
  <2> QED
    BY <2>1, <1>1, IsASeq, LenProperties
<1> HIDE DEF z
<1>7. /\ s \o z \in Seq(Nat) /\ Len(s \o z) = Len(s) + Len(z)
      /\ \A i \in 1 .. Len(s) + Len(z) :
           (s \o z)[i] = IF i <= Len(s) THEN s[i] ELSE z[i - Len(s)]
  BY <1>3, <1>6, ConcatProperties
<1>8. Len(s) + Len(z) = size
  BY <1>1, <1>5, <1>6
<1>9. \A i \in 1 .. n : i \in 1 .. size /\ i <= n
  OBVIOUS
<1>10. \A i \in n + 1 .. size : i \in 1 .. size /\ ~(i <= n) /\ i - n \in 1 .. size - n
  OBVIOUS
<1>11. \A i \in 1 .. n : (s \o z)[i] = str[p + i]
  BY <1>5, <1>7, <1>8, <1>9
<1>12. \A i \in n + 1 .. size : (s \o z)[i] = NUL
  BY <1>5, <1>6, <1>7, <1>8, <1>10
<1> QED
  BY <1>7, <1>8, <1>11, <1>12 DEF Window, Fills, s, z

\* What stands in a stream stands in a window that goes so far.
LEMMA HoldsWithin ==
  ASSUME NEW str, NEW b, NEW at0 \in Nat, NEW n \in Nat, \A i \in 1 .. n : b[i] = str[at0 + i],
         NEW len, NEW p \in Nat, NEW s \in Seq(Nat), Holds(str, at0 + p, len, s), p + Len(s) <= n
  PROVE  Holds(b, p, n, s)
<1>1. ASSUME NEW i \in 1 .. Len(s) PROVE b[p + i] = s[i]
  <2>1. Len(s) \in Nat
    BY LenProperties
  <2>2. p + i \in 1 .. n /\ at0 + (p + i) = (at0 + p) + i
    BY <2>1
  <2>3. b[p + i] = str[at0 + (p + i)]
    BY <2>2
  <2>4. str[(at0 + p) + i] = s[i]
    BY DEF Holds
  <2> QED
    BY <2>2, <2>3, <2>4
<1> QED
  BY <1>1 DEF Holds

\* ends says where the commands from i + 1 to j end in b, which begins with the
\* first of them.
EndsAre(cmds, i, j, n, b, ends) ==
  /\ ends \in [0 .. j - i -> Nat] /\ ends[0] = 0
  /\ BorderOf(cmds, i) + ends[j - i] = BorderOf(cmds, j)
  /\ \A k \in 1 .. j - i :
       LET s == Encoded[SubSeq(cmds, i + 1, j)[k]]
       IN Holds(b, ends[k - 1], n, s) /\ ends[k] = ends[k - 1] + Len(s)

\* In a window from one border to another, or beyond, the commands between them
\* end somewhere.
LEMMA EndsWithin ==
  ASSUME NEW cmds \in Seq(Commands), NEW i \in 0 .. Len(cmds), NEW j \in i .. Len(cmds),
         NEW n \in Nat, NEW b, \A k \in 1 .. n : b[k] = Stream(cmds)[BorderOf(cmds, i) + k],
         BorderOf(cmds, j) <= BorderOf(cmds, i) + n
  PROVE  \E ends : EndsAre(cmds, i, j, n, b, ends)
<1> DEFINE m == Len(cmds)   str == Stream(cmds)   len == Len(str)
           to(k) == BorderOf(cmds, k)
           p == to(i)
           w == SubSeq(cmds, i + 1, j)
<1>1. /\ str \in Seq(Nat) /\ m \in Nat /\ to(m) = len /\ \A k \in 0 .. m : to(k) \in Nat
      /\ \A k \in 1 .. m : /\ to(k) = to(k - 1) + Len(Encoded[cmds[k]])
                           /\ Holds(str, to(k - 1), len, Encoded[cmds[k]])
      /\ \A k \in 0 .. m : \A x \in k + 1 .. m : to(k) < to(x)
  BY BordersAre
<1>2. to(j) <= p + n /\ \A k \in 1 .. n : b[k] = str[p + k]
  OBVIOUS
<1> HIDE DEF to, str, m
<1>3. i \in 0 .. m /\ j \in i .. m /\ j \in 0 .. m /\ p \in Nat /\ to(j) \in Nat
  BY <1>1 DEF m, p
<1>4. w \in Seq(Commands) /\ Len(w) = j - i /\ \A k \in 1 .. j - i : w[k] = cmds[i + k]
  BY <1>3, Middle DEF m
<1> HIDE DEF p, w
<1> DEFINE d == j - i   ends == [k \in 0 .. d |-> to(i + k) - p]
<1>5. \A k \in 0 .. d : i + k \in 0 .. m /\ i + k <= j
  BY <1>1, <1>3
<1>6. ASSUME NEW k \in 0 .. d PROVE to(i + k) \in Nat /\ p <= to(i + k) /\ to(i + k) <= p + n
  <2>1. to(i + k) \in Nat
    BY <1>1, <1>5
  <2>2. p <= to(i + k)
    <3>1. CASE k = 0
      BY <3>1, <1>3 DEF p
    <3>2. CASE k # 0
      <4>1. i + k \in i + 1 .. m
        BY <3>2, <1>5, <1>3
      <4>2. to(i) < to(i + k)
        BY <4>1, <1>1, <1>3
      <4> QED
        BY <4>2, <2>1, <1>3 DEF p
    <3> QED
      BY <3>1, <3>2
  <2>3. to(i + k) <= to(j)
    <3>1. CASE i + k = j
      BY <3>1, <1>3
    <3>2. CASE i + k # j
      <4>1. j \in (i + k) + 1 .. m /\ i + k \in 0 .. m
        BY <3>2, <1>5, <1>3
      <4>2. to(i + k) < to(j)
        BY <4>1, <1>1
      <4> QED
        BY <4>2, <2>1, <1>3
    <3> QED
      BY <3>1, <3>2
  <2> QED
    BY <2>1, <2>2, <2>3, <1>2, <1>3
<1>7. ends \in [0 .. d -> Nat] /\ \A k \in 0 .. d : ends[k] = to(i + k) - p
  <2>1. ASSUME NEW k \in 0 .. d PROVE to(i + k) - p \in Nat
    <3>1. to(i + k) \in Nat /\ p <= to(i + k) /\ p \in Nat
      BY <1>3, <1>6
    <3> QED
      BY ONLY <3>1
  <2> QED
    BY <2>1
<1> HIDE DEF ends
<1>8. ends[0] = 0 /\ p + ends[d] = to(j)
  <2>1. 0 \in 0 .. d /\ d \in 0 .. d /\ i + 0 = i /\ i + d = j
    BY <1>3
  <2>2. ends[0] = to(i) - p /\ ends[d] = to(j) - p
    BY <2>1, <1>7
  <2>3. to(i) - p = 0
    BY <1>3 DEF p
  <2> QED
    BY <2>2, <2>3, <1>3
<1>9. ASSUME NEW k \in 1 .. d
      PROVE  Holds(b, ends[k - 1], n, Encoded[w[k]]) /\ ends[k] = ends[k - 1] + Len(Encoded[w[k]])
  <2> DEFINE s == Encoded[w[k]]   e == ends[k - 1]
  <2>1. /\ k \in 0 .. d /\ k - 1 \in 0 .. d /\ i + k \in 1 .. m /\ k \in 1 .. d
        /\ (i + k) - 1 = i + (k - 1)
    BY <1>1, <1>3
  <2>2. w[k] = cmds[i + k] /\ w[k] \in Commands
    <3>1. cmds[i + k] \in Commands
      BY <2>1, ElementOfSeq DEF m
    <3> QED
      BY <3>1, <2>1, <1>4
  <2>3. s \in Seq(Nat) /\ Len(s) \in Nat
    BY <2>2, CommandsAre
  <2>4. to(i + k) = to(i + (k - 1)) + Len(s) /\ Holds(str, to(i + (k - 1)), len, s)
    <3>1. /\ to(i + k) = to((i + k) - 1) + Len(Encoded[cmds[i + k]])
          /\ Holds(str, to((i + k) - 1), len, Encoded[cmds[i + k]])
      BY <2>1, <1>1
    <3> QED
      BY <3>1, <2>1, <2>2
  <2>5. e = to(i + (k - 1)) - p /\ ends[k] = to(i + k) - p /\ e \in Nat
    BY <2>1, <1>7
  <2> HIDE DEF s, e
  <2>6. to(i + (k - 1)) \in Nat /\ to(i + k) \in Nat /\ to(i + k) <= p + n
    BY <2>1, <1>6
  <2>7. ends[k] = e + Len(s) /\ e + Len(s) <= n /\ p + e = to(i + (k - 1))
    <3> DEFINE y == to(i + (k - 1))   z == to(i + k)   x == Len(s)   g == ends[k]
    <3>1. /\ y \in Nat /\ z \in Nat /\ z <= p + n /\ x \in Nat /\ e = y - p /\ g = z - p /\ z = y + x
          /\ p \in Nat /\ n \in Nat /\ e \in Nat
      BY <2>3, <2>4, <2>5, <2>6, <1>3
    <3> HIDE DEF x, y, z, g
    <3>2. g = e + x /\ e + x <= n /\ p + e = y
      BY ONLY <3>1
    <3> QED
      BY <3>2 DEF x, y, g
  <2>8. Holds(b, e, n, s)
    <3>1. Holds(str, p + e, len, s) /\ n \in Nat
      BY <2>4, <2>7
    <3>2. p \in Nat /\ e \in Nat /\ s \in Seq(Nat) /\ e + Len(s) <= n
      BY <1>3, <2>3, <2>5, <2>7
    <3> HIDE DEF len
    <3> QED
      BY ONLY <3>1, <3>2, <1>2, HoldsWithin
  <2> QED
    BY <2>7, <2>8 DEF s, e
<1> QED
  BY <1>7, <1>8, <1>9 DEF EndsAre, w, p, to

\* The commands before a border and those up to a later one.
LEMMA SentUpTo ==
  ASSUME NEW cmds \in Seq(Commands), NEW i \in 0 .. Len(cmds), NEW j \in i .. Len(cmds)
  PROVE  SubSeq(cmds, 1, i) \o SubSeq(cmds, i + 1, j) = SubSeq(cmds, 1, j)
<1>1. 1 \in 1 .. Len(cmds) + 1 /\ i \in 1 - 1 .. Len(cmds) /\ j \in i .. Len(cmds)
  BY LenProperties
<1> QED
  BY <1>1, ConcatAdjacentSubSeq

\* A read from one border to another finds the commands between them.
LEMMA WholeReads ==
  ASSUME NEW cmds \in Seq(Commands), NEW i \in 0 .. Len(cmds), NEW j \in 0 .. Len(cmds),
         NEW n \in Nat \ {0}, NEW size \in Nat, n <= size,
         BorderOf(cmds, j) = BorderOf(cmds, i) + n
  PROVE  /\ i < j /\ SubSeq(cmds, 1, i) \o SubSeq(cmds, i + 1, j) = SubSeq(cmds, 1, j)
         /\ readCommands(Window(Stream(cmds), BorderOf(cmds, i), n, size), n)
              = Value(SubSeq(cmds, i + 1, j), 0)
<1> DEFINE m == Len(cmds)   str == Stream(cmds)   len == Len(str)
           to(k) == BorderOf(cmds, k)
           p == to(i)
           w == SubSeq(cmds, i + 1, j)
           b == Window(str, p, n, size)
<1>1. /\ str \in Seq(Nat) /\ m \in Nat /\ to(m) = len /\ \A k \in 0 .. m : to(k) \in Nat
      /\ \A k \in 0 .. m : \A x \in k + 1 .. m : to(k) < to(x)
  BY BordersAre
<1>2. to(j) = p + n
  OBVIOUS
<1> HIDE DEF to, str, m
<1>3. i \in 0 .. m /\ j \in 0 .. m /\ p \in Nat /\ to(j) \in Nat
  BY <1>1 DEF m, p
<1> HIDE DEF p
<1>4. i < j
  <2>1. ASSUME j <= i PROVE FALSE
    <3>1. to(j) <= to(i)
      <4>1. CASE j = i
        BY <4>1, <1>1, <1>3
      <4>2. CASE j # i
        <5>1. i \in j + 1 .. m
          BY <4>2, <2>1, <1>1, <1>3
        <5>2. to(j) < to(i)
          BY <5>1, <1>1, <1>3
        <5> QED
          BY <5>2, <1>1, <1>3
      <4> QED
        BY <4>1, <4>2
    <3> QED
      BY <3>1, <1>2, <1>3 DEF p
  <2> QED
    BY <2>1, <1>3
<1>5. j \in i .. m
  BY <1>1, <1>3, <1>4
<1>6. w \in Seq(Commands) /\ Len(w) = j - i
  BY <1>3, <1>5, Middle DEF m
<1>7. p + n <= len
  <2>1. CASE j = m
    BY <2>1, <1>1, <1>2
  <2>2. CASE j # m
    <3>1. m \in j + 1 .. m
      BY <2>2, <1>1, <1>3
    <3>2. to(j) < to(m)
      BY <3>1, <1>1, <1>3
    <3> QED
      BY <3>2, <1>1, <1>2, <1>3
  <2> QED
    BY <2>1, <2>2
<1>8. b \in Seq(Nat) /\ Len(b) = size /\ \A k \in 1 .. n : b[k] = str[p + k]
  <2>1. str \in Seq(Nat) /\ p \in Nat /\ n \in Nat /\ p + n <= Len(str) /\ size \in Nat /\ n <= size
    BY <1>1, <1>3, <1>7
  <2>2. Fills(Window(str, p, n, size), str, p, n, size)
    <3> HIDE DEF str, p
    <3> QED
      BY ONLY <2>1, WindowIs
  <2> QED
    BY <2>2 DEF Fills
<1> HIDE DEF b
<1>9. PICK ends \in [0 .. j - i -> Nat] :
         /\ ends[0] = 0 /\ p + ends[j - i] = to(j)
         /\ \A k \in 1 .. j - i : /\ Holds(b, ends[k - 1], n, Encoded[w[k]])
                                  /\ ends[k] = ends[k - 1] + Len(Encoded[w[k]])
  <2>1. /\ cmds \in Seq(Commands) /\ i \in 0 .. Len(cmds) /\ j \in i .. Len(cmds) /\ n \in Nat
        /\ \A k \in 1 .. n : b[k] = Stream(cmds)[BorderOf(cmds, i) + k]
        /\ BorderOf(cmds, j) <= BorderOf(cmds, i) + n
    BY <1>1, <1>2, <1>3, <1>5, <1>8 DEF m, p, to, str
  <2>2. PICK ends : EndsAre(cmds, i, j, n, b, ends)
    BY ONLY <2>1, EndsWithin
  <2> QED
    BY <2>2 DEF EndsAre, p, to
<1> HIDE DEF w
<1>10. ends \in [0 .. Len(w) -> Nat] /\ Stands(b, n, w, ends)
  <2>1. ends[j - i] = n
    <3>1. j - i \in 0 .. j - i
      BY <1>3, <1>4
    <3>2. ends[j - i] \in Nat
      BY <3>1
    <3> QED
      BY <3>2, <1>2, <1>3, <1>9
  <2> QED
    BY <2>1, <1>6, <1>9 DEF Stands
<1>11. readCommands(b, n) = Value(w, 0)
  <2>1. n \in 0 .. Len(b) /\ w # <<>>
    <3>1. Len(w) # 0
      BY <1>3, <1>4, <1>6
    <3> QED
      BY <3>1, <1>8
  <2> QED
    BY <2>1, <1>6, <1>8, <1>10, CommandsRead
<1>12. SubSeq(cmds, 1, i) \o w = SubSeq(cmds, 1, j)
  BY <1>5, SentUpTo DEF w, m
<1> QED
  BY <1>4, <1>11, <1>12 DEF b, w, p, to, str

\* What is sent later moves no border.
LEMMA BordersStay ==
  ASSUME NEW cmds \in Seq(Commands), NEW c \in Commands
  PROVE  LET more == Append(cmds, c)
         IN /\ more \in Seq(Commands) /\ Len(more) = Len(cmds) + 1 /\ Len(cmds) \in Nat
            /\ \A i \in 0 .. Len(cmds) : /\ SubSeq(more, 1, i) = SubSeq(cmds, 1, i)
                                         /\ BorderOf(more, i) = BorderOf(cmds, i)
<1> DEFINE more == Append(cmds, c)
<1>1. /\ more \in Seq(Commands) /\ Len(more) = Len(cmds) + 1 /\ Len(cmds) \in Nat
      /\ \A i \in 1 .. Len(cmds) : more[i] = cmds[i]
  BY AppendTypes, LenProperties
<1> HIDE DEF more
<1>2. ASSUME NEW i \in 0 .. Len(cmds) PROVE SubSeq(more, 1, i) = SubSeq(cmds, 1, i)
  <2> DEFINE u == SubSeq(more, 1, i)   v == SubSeq(cmds, 1, i)
  <2>1. u \in Seq(Commands) /\ Len(u) = i /\ \A k \in 1 .. i : u[k] = more[k]
    BY <1>1, Prefix
  <2>2. v \in Seq(Commands) /\ Len(v) = i /\ \A k \in 1 .. i : v[k] = cmds[k]
    BY Prefix
  <2> HIDE DEF u, v
  <2>3. \A k \in 1 .. i : u[k] = v[k]
    BY <1>1, <2>1, <2>2
  <2>4. u = v
    BY <2>1, <2>2, <2>3, SeqEqual
  <2> QED
    BY <2>4 DEF u, v
<1> QED
  BY <1>1, <1>2 DEF more, BorderOf

\* What Border and Buffer are.
LEMMA BorderIs ==
  /\ \A i : Border(i) = BorderOf(sent, i)
  /\ \A n, size : Buffer(n, size) = Window(Stream(sent), at, n, size)
BY DEF Border, BorderOf, Buffer, Window

\* The bytes read, and the number of bytes a read may return.
LEMMA ReadIs ==
  ASSUME Read, sent \in Seq(Commands), at \in Nat
  PROVE  \E n \in Nat \ {0} :
           /\ n <= BufSize /\ at + n <= Len(Stream(sent)) /\ BufSize \in Nat
           /\ at' = at + n /\ torn' = (torn \/ at + n \notin Borders)
           /\ astray' = (astray \/ (at \notin Borders /\ Stream(sent)[at + 1] = Star))
           /\ Serve(readCommands(Window(Stream(sent), at, n, BufSize), n))
           /\ conn = "open" /\ UNCHANGED <<sent, done>>
<1> DEFINE len == Len(Stream(sent))
           T == {BufSize, Unread}
           min == Min(T)
<1>1. len \in Nat /\ BufSize \in Nat \ {0} /\ Unread = len - at /\ Unread \in Int
  BY BordersAre, WireAssumption DEF Unread
<1> HIDE DEF len
<1>2. min \in T /\ min <= BufSize /\ min <= Unread
  <2> DEFINE P(x) == \A y \in T : x <= y
  <2>1. \E x \in T : P(x)
    <3>1. CASE BufSize <= Unread
      BY <3>1, <1>1
    <3>2. CASE Unread <= BufSize
      BY <3>2, <1>1
    <3> QED
      BY <3>1, <3>2, <1>1
  <2>2. min = CHOOSE x \in T : P(x)
    BY DEF Min
  <2>3. min \in T /\ P(min)
    <3> HIDE DEF P, min
    <3> QED
      BY <2>1, <2>2
  <2> QED
    BY <2>3
<1> HIDE DEF min
<1>3. PICK n \in 1 .. min :
        /\ at' = at + n /\ torn' = (torn \/ at + n \notin Borders)
        /\ astray' = (astray \/ (at \notin Borders /\ Stream(sent)[at + 1] = Star))
        /\ Serve(readCommands(Buffer(n, BufSize), n))
  BY DEF Read, min
<1>4. n \in Nat \ {0} /\ n <= BufSize /\ at + n <= len
  <2>1. min \in Int
    BY <1>1, <1>2
  <2> HIDE DEF T
  <2>2. n \in Nat \ {0} /\ n <= BufSize /\ n <= Unread
    BY <1>1, <1>2, <2>1
  <2> QED
    BY <2>2, <1>1
<1>5. conn = "open" /\ UNCHANGED <<sent, done>>
  BY DEF Read
<1>6. Serve(readCommands(Window(Stream(sent), at, n, BufSize), n))
  BY <1>3, BorderIs
<1> QED
  BY <1>1, <1>3, <1>4, <1>5, <1>6 DEF len
-----------------------------------------------------------------------------
(* Reads that end between two commands.                                    *)

\* The types of what the reads depend on; nothing is read that was not sent.
TypeOK ==
  /\ sent \in Seq(Commands) /\ at \in Nat /\ at <= Len(Stream(sent))
  /\ {torn, astray, done} \subseteq BOOLEAN /\ conn \in {"open", "closed", "crashed"}

\* The first i commands of cmds have been read and executed, and no more.
ReadTo(cmds, i, pos, exec) == pos = BorderOf(cmds, i) /\ exec = SubSeq(cmds, 1, i)

\* UncutIsExact speaks of borders of what has been sent.
LEMMA UncutIs ==
  UncutIsExact <=> (~torn => /\ \E i \in 0 .. Len(sent) : ReadTo(sent, i, at, executed)
                             /\ conn = "open" \/ (conn = "closed" /\ done))
BY BorderIs DEF UncutIsExact, ReadTo

\* TypeOK is inductive.
LEMMA TypeInit == Init => TypeOK
<1> DEFINE e == <<>>
<1>1. e \in Seq(Commands)
  OBVIOUS
<1> HIDE DEF e
<1>2. Len(Stream(e)) \in Nat
  BY <1>1, BordersAre, LenProperties
<1>3. e = <<>>
  BY DEF e
<1> HIDE DEF e
<1> SUFFICES ASSUME Init PROVE TypeOK
  OBVIOUS
<1>4. sent = e /\ at = 0 /\ torn = FALSE /\ astray = FALSE /\ done = FALSE /\ conn = "open"
  BY <1>3 DEF Init
<1>5. 0 \in Nat /\ 0 <= Len(Stream(e))
  BY <1>2
<1> QED
  BY <1>1, <1>4, <1>5 DEF TypeOK

\* Each step keeps the types.
LEMMA TypeStep == TypeOK /\ [Next]_vars => TypeOK'
<1> SUFFICES ASSUME TypeOK, [Next]_vars PROVE TypeOK'
  OBVIOUS
<1>1. sent \in Seq(Commands) /\ at \in Nat /\ at <= Len(Stream(sent))
  BY DEF TypeOK
<1>2. CASE Send
  <2>1. PICK c \in Commands : sent' = Append(sent, c)
    BY <1>2 DEF Send
  <2> DEFINE more == Append(sent, c)   m == Len(sent)
  <2>2. /\ more \in Seq(Commands) /\ Len(more) = m + 1 /\ m \in Nat
        /\ BorderOf(more, m) = BorderOf(sent, m)
    BY <1>1, BordersStay
  <2> HIDE DEF more
  <2>3. /\ BorderOf(sent, m) = Len(Stream(sent)) /\ BorderOf(sent, m) \in Nat
    BY <1>1, BordersAre, <2>2
  <2>4. BorderOf(more, m) < BorderOf(more, m + 1) /\ BorderOf(more, m + 1) = Len(Stream(more))
        /\ BorderOf(more, m + 1) \in Nat
    <3>1. m \in 0 .. Len(more) /\ m + 1 \in m + 1 .. Len(more) /\ m + 1 \in 0 .. Len(more)
      BY <2>2
    <3> QED
      BY <2>2, <3>1, BordersAre
  <2>5. at <= Len(Stream(more))
    BY <1>1, <2>2, <2>3, <2>4
  <2> QED
    BY <1>2, <2>1, <2>2, <2>5 DEF TypeOK, Send, more
<1>3. CASE Receive
  BY <1>3 DEF TypeOK, Receive
<1>4. CASE HangUp
  BY <1>4 DEF TypeOK, HangUp
<1>5. CASE Read
  <2>1. PICK n \in Nat \ {0} :
          /\ at + n <= Len(Stream(sent)) /\ at' = at + n /\ torn' = (torn \/ at + n \notin Borders)
          /\ astray' = (astray \/ (at \notin Borders /\ Stream(sent)[at + 1] = Star))
          /\ Serve(readCommands(Window(Stream(sent), at, n, BufSize), n))
          /\ UNCHANGED <<sent, done>>
    BY <1>1, <1>5, ReadIs
  <2>2. conn' \in {"open", "closed", "crashed"}
    BY <2>1 DEF Serve, TypeOK
  <2>3. at' \in Nat /\ torn' \in BOOLEAN /\ astray' \in BOOLEAN /\ at' <= Len(Stream(sent))
    BY <2>1, <1>1 DEF TypeOK
  <2> QED
    BY <2>1, <2>2, <2>3 DEF TypeOK
<1>6. CASE ReadEnd
  BY <1>6 DEF TypeOK, ReadEnd
<1>7. CASE UNCHANGED vars
  BY <1>7 DEF TypeOK, vars
<1> QED
  BY <1>2, <1>3, <1>4, <1>5, <1>6, <1>7 DEF Next

\* Nothing has been read at first.
LEMMA UncutInit == Init => UncutIsExact
<1> DEFINE e == <<>>
<1>1. e \in Seq(Commands) /\ Len(e) = 0
  OBVIOUS
<1>2. SubSeq(e, 1, 0) = e
  OBVIOUS
<1>3. e = <<>>
  OBVIOUS
<1> HIDE DEF e
<1> SUFFICES ASSUME Init PROVE UncutIsExact
  OBVIOUS
<1>4. sent = e /\ at = 0 /\ executed = e /\ conn = "open"
  BY <1>3 DEF Init
<1>5. ReadTo(sent, 0, at, executed) /\ 0 \in 0 .. Len(sent)
  <2>1. BorderOf(e, 0) = 0
    BY <1>1, BordersAre
  <2> QED
    BY <1>1, <1>2, <1>4, <2>1 DEF ReadTo
<1> QED
  BY <1>4, <1>5, UncutIs

\* A read from a border to a border executes the commands between them.
LEMMA UncutRead ==
  ASSUME TypeOK, UncutIsExact, Read
  PROVE  UncutIsExact'
<1>1. sent \in Seq(Commands) /\ at \in Nat /\ torn \in BOOLEAN
  BY DEF TypeOK
<1>2. PICK n \in Nat \ {0} :
        /\ n <= BufSize /\ BufSize \in Nat
        /\ at' = at + n /\ torn' = (torn \/ at + n \notin Borders)
        /\ Serve(readCommands(Window(Stream(sent), at, n, BufSize), n))
        /\ conn = "open" /\ UNCHANGED <<sent, done>>
  BY <1>1, ReadIs
<1>3. SUFFICES ASSUME ~torn'
               PROVE  /\ \E k \in 0 .. Len(sent) : ReadTo(sent, k, at', executed')
                      /\ conn' = "open"
  <2>1. (~torn => /\ \E i \in 0 .. Len(sent) : ReadTo(sent, i, at, executed)
                  /\ conn = "open" \/ (conn = "closed" /\ done))'
          => UncutIsExact'
    BY UncutIs, PTL
  <2>2. sent' = sent
    BY <1>2
  <2> QED
    BY <2>1, <2>2
<1>4. ~torn /\ at + n \in Borders
  BY <1>1, <1>2, <1>3
<1>5. PICK i \in 0 .. Len(sent) : ReadTo(sent, i, at, executed)
  BY <1>4, UncutIs
<1>6. PICK j \in 0 .. Len(sent) : at + n = BorderOf(sent, j)
  BY <1>4, BorderIs DEF Borders
<1> DEFINE u == SubSeq(sent, 1, i)   w == SubSeq(sent, i + 1, j)
           r == readCommands(Window(Stream(sent), at, n, BufSize), n)
<1>7. at = BorderOf(sent, i) /\ executed = u
  BY <1>5 DEF ReadTo
<1>8. u \o w = SubSeq(sent, 1, j) /\ r = Value(w, 0)
  <2>1. BorderOf(sent, j) = BorderOf(sent, i) + n
    BY <1>6, <1>7
  <2>2. /\ SubSeq(sent, 1, i) \o SubSeq(sent, i + 1, j) = SubSeq(sent, 1, j)
        /\ readCommands(Window(Stream(sent), BorderOf(sent, i), n, BufSize), n)
             = Value(SubSeq(sent, i + 1, j), 0)
    BY <1>1, <1>2, <2>1, WholeReads
  <2> QED
    BY <2>2, <1>7
<1>9. Serve(r)
  BY <1>2
<1> HIDE DEF u, w, r
<1>10. executed' = executed \o w /\ conn' = conn
  BY <1>8, <1>9 DEF Serve, Value
<1>11. ReadTo(sent, j, at', executed')
  BY <1>2, <1>6, <1>7, <1>8, <1>10 DEF ReadTo
<1> QED
  BY <1>2, <1>10, <1>11

\* Each step keeps UncutIsExact.
LEMMA UncutStep == TypeOK /\ UncutIsExact /\ [Next]_vars => UncutIsExact'
<1> SUFFICES ASSUME TypeOK, UncutIsExact, [Next]_vars PROVE UncutIsExact'
  OBVIOUS
<1> DEFINE U(cmds, t, p, exec, c, d) ==
             ~t => /\ \E i \in 0 .. Len(cmds) : ReadTo(cmds, i, p, exec)
                   /\ c = "open" \/ (c = "closed" /\ d)
<1>1. U(sent', torn', at', executed', conn', done') => UncutIsExact'
  <2>1. (~torn => /\ \E i \in 0 .. Len(sent) : ReadTo(sent, i, at, executed)
                  /\ conn = "open" \/ (conn = "closed" /\ done))'
          => UncutIsExact'
    BY UncutIs, PTL
  <2> QED
    BY <2>1
<1>2. U(sent, torn, at, executed, conn, done)
  BY UncutIs
<1>3. sent \in Seq(Commands)
  BY DEF TypeOK
<1>4. CASE Send
  <2>1. PICK c \in Commands : sent' = Append(sent, c)
    BY <1>4 DEF Send
  <2>2. ASSUME NEW i \in 0 .. Len(sent), ReadTo(sent, i, at, executed)
        PROVE  i \in 0 .. Len(sent') /\ ReadTo(sent', i, at, executed)
    <3> DEFINE more == Append(sent, c)
    <3>1. /\ Len(more) = Len(sent) + 1 /\ Len(sent) \in Nat
          /\ SubSeq(more, 1, i) = SubSeq(sent, 1, i) /\ BorderOf(more, i) = BorderOf(sent, i)
      BY <1>3, BordersStay
    <3> HIDE DEF more
    <3>2. i \in 0 .. Len(more) /\ ReadTo(more, i, at, executed)
      BY <2>2, <3>1 DEF ReadTo
    <3> QED
      BY <2>1, <3>2 DEF more
  <2>3. UNCHANGED <<torn, at, executed, conn, done>>
    BY <1>4 DEF Send
  <2>4. U(sent', torn, at, executed, conn, done)
    BY <1>2, <2>2
  <2> QED
    BY <1>1, <2>3, <2>4
<1>5. CASE Receive
  BY <1>1, <1>2, <1>5 DEF Receive
<1>6. CASE HangUp
  BY <1>1, <1>2, <1>6 DEF HangUp
<1>7. CASE Read
  BY <1>7, UncutRead
<1>8. CASE ReadEnd
  BY <1>1, <1>2, <1>8 DEF ReadEnd
<1>9. CASE UNCHANGED vars
  BY <1>1, <1>2, <1>9 DEF vars
<1> QED
  BY <1>4, <1>5, <1>6, <1>7, <1>8, <1>9 DEF Next

\* While every read ends between two commands, what is executed is what was
\* sent, whatever the commands, the buffer and the way the bytes arrive.
THEOREM WholeReadsAreExact == Spec => []UncutIsExact
<1>1. Init => TypeOK /\ UncutIsExact
  BY TypeInit, UncutInit
<1>2. TypeOK /\ UncutIsExact /\ [Next]_vars => (TypeOK /\ UncutIsExact)'
  BY TypeStep, UncutStep
<1> QED
  BY <1>1, <1>2, PTL DEF Spec
-----------------------------------------------------------------------------
(* Reads that begin within a command.                                      *)

\* A position within a stream is within one of its commands.
LEMMA Between ==
  ASSUME NEW cmds \in Seq(Commands), NEW pos \in Nat, pos < Len(Stream(cmds))
  PROVE  \E i \in 1 .. Len(cmds) : BorderOf(cmds, i - 1) <= pos /\ pos < BorderOf(cmds, i)
<1> DEFINE m == Len(cmds)   to(i) == BorderOf(cmds, i)
           T == {i \in 0 .. m : pos < to(i)}
<1>1. m \in Nat /\ to(0) = 0 /\ to(m) = Len(Stream(cmds)) /\ \A i \in 0 .. m : to(i) \in Nat
  BY BordersAre
<1> HIDE DEF to, m
<1>2. m \in T /\ T \in SUBSET Nat
  BY <1>1
<1>3. PICK i \in T : \A y \in T : i <= y
  BY <1>2, LeastNat
<1>4. i \in 0 .. m /\ pos < to(i) /\ i # 0
  BY <1>1
<1>5. i - 1 \in 0 .. m /\ i - 1 \notin T /\ i \in 1 .. m
  BY <1>1, <1>3, <1>4
<1>6. to(i - 1) <= pos
  BY <1>1, <1>5
<1> QED
  BY <1>4, <1>5, <1>6 DEF to, m

\* Values returns the values it has read, or none.
LEMMA ValuesType ==
  ASSUME NEW n \in Nat, NEW one, Advances(one, 0, n)
  PROVE  LET all == Values(one, n)
             vals == {one[q].val : q \in 0 .. n - 1}
         IN \A p \in 0 .. n - 1 :
              /\ all[p].out = "value" =>
                   /\ all[p] = Value(all[p].val, all[p].next) /\ all[p].val \in Seq(vals)
                   /\ Len(all[p].val) \in Nat \ {0} /\ all[p].val[1] = one[p].val
                   /\ one[p].out = "value"
              /\ one[p].out # "value" => all[p].out # "value"
<1> DEFINE all == Values(one, n)
           vals == {one[q].val : q \in 0 .. n - 1}
           typed(p, a) == a.out = "value" =>
                         /\ a = Value(a.val, a.next) /\ a.val \in Seq(vals)
                         /\ Len(a.val) \in Nat \ {0} /\ a.val[1] = one[p].val
                         /\ one[p].out = "value"
           good(p) == typed(p, all[p])
           K == {m \in Nat : m <= n => \A p \in n - m .. n - 1 : good(p)}
<1>1. \A p \in 0 .. n - 1 : all[p] = Onwards(one[p], all, n)
  BY ValuesAre
<1>2. \A p \in 0 .. n - 1 : one[p].val \in vals
  OBVIOUS
<1> HIDE DEF all, vals
<1>3. 0 \in K
  OBVIOUS
<1>4. ASSUME NEW p \in 0 .. n - 1, \A q \in p + 1 .. n - 1 : good(q) PROVE good(p)
  <2> DEFINE v == one[p]   x == v.val   s == <<x>>
  <2>1. all[p] = Onwards(v, all, n) /\ Beyond(v, p + 1) /\ x \in vals
    BY <1>1, <1>2 DEF Advances
  <2>2. s \in Seq(vals) /\ Len(s) = 1 /\ s[1] = x
    BY <2>1, SMTT(60)
  <2>3. CASE v.out # "value"
    <3>1. all[p] = Outcome(v.out)
      BY <2>1, <2>3 DEF Onwards
    <3>2. all[p].out # "value"
      BY <3>1, <2>3 DEF Outcome
    <3> QED
      BY <3>2
  <2>4. CASE v.out = "value" /\ v.next >= n
    <3>1. all[p] = Value(s, v.next)
      BY <2>1, <2>4 DEF Onwards
    <3> HIDE DEF s, x
    <3>2. all[p].val = s /\ all[p].next = v.next /\ all[p].out = "value"
      BY <3>1 DEF Value
    <3> QED
      BY <3>1, <3>2, <2>2, <2>4 DEF x
  <2>5. CASE v.out = "value" /\ ~(v.next >= n)
    <3> DEFINE q == v.next   r == all[q]   t == r.val
    <3>1. q \in p + 1 .. n - 1
      BY <2>1, <2>5 DEF Beyond
    <3>2. typed(q, r)
      BY <3>1, <1>4
    <3>3. all[p] = Before(v, r)
      BY <2>1, <2>5 DEF Onwards
    <3>4. CASE r.out # "value"
      <4>1. all[p] = r
        BY <3>3, <3>4 DEF Before
      <4> QED
        BY <4>1, <3>4
    <3>5. CASE r.out = "value"
      <4>1. t \in Seq(vals) /\ Len(t) \in Nat
        BY <3>2, <3>5, LenProperties
      <4>2. all[p] = Value(s \o t, r.next)
        BY <3>3, <3>5 DEF Before
      <4> HIDE DEF s, t, x
      <4>3. /\ s \o t \in Seq(vals) /\ Len(s \o t) = Len(s) + Len(t)
            /\ \A i \in 1 .. Len(s) + Len(t) : (s \o t)[i] = IF i <= Len(s) THEN s[i] ELSE t[i - Len(s)]
        BY <2>2, <4>1, ConcatProperties
      <4>4. 1 \in 1 .. Len(s) + Len(t) /\ 1 <= Len(s) /\ Len(s) + Len(t) \in Nat \ {0}
        BY <2>2, <4>1
      <4>5. (s \o t)[1] = x
        BY <4>3, <4>4, <2>2
      <4> DEFINE w == s \o t
      <4>6. w \in Seq(vals) /\ Len(w) \in Nat \ {0} /\ w[1] = x /\ all[p] = Value(w, r.next)
        BY <4>2, <4>3, <4>4, <4>5
      <4> HIDE DEF w
      <4>7. all[p].val = w /\ all[p].next = r.next
        BY <4>6 DEF Value
      <4> QED
        BY <4>6, <4>7, <2>5 DEF x
    <3> QED
      BY <3>4, <3>5
  <2> QED
    BY <2>3, <2>4, <2>5
<1>5. \A m \in Nat : m \in K => m + 1 \in K
  <2> HIDE DEF good
  <2> SUFFICES ASSUME NEW m \in Nat, m \in K, m + 1 <= n, NEW p \in n - (m + 1) .. n - 1
               PROVE  good(p)
    OBVIOUS
  <2>1. \A q \in n - m .. n - 1 : good(q)
    OBVIOUS
  <2>2. p \in 0 .. n - 1 /\ \A q \in p + 1 .. n - 1 : q \in n - m .. n - 1
    OBVIOUS
  <2> QED
    BY <2>1, <2>2, <1>4
<1>6. \A p \in 0 .. n - 1 : good(p)
  <2> HIDE DEF good
  <2>1. n \in K
    <3> HIDE DEF K
    <3> QED
      BY <1>3, <1>5, NatInSet
  <2> QED
    BY <2>1
<1>7. ASSUME NEW p \in 0 .. n - 1, one[p].out # "value" PROVE all[p].out # "value"
  BY <1>6, <1>7
<1> QED
  BY <1>6, <1>7 DEF all, vals

\* A value that is not an array of strings, or an empty array, is no command.
NoCommandIn(v) == v[1] # "array" \/ v[2] = <<>> \/ \E e \in ToSet(v[2]) : e[1] # "string"

\* One such value spoils all.
LEMMA SpoiltByOne ==
  ASSUME NEW S, NEW vals \in Seq(S), NEW i \in 1 .. Len(vals), NoCommandIn(vals[i]), NEW next
  PROVE  CommandsOf(Value(vals, next)).out # "value"
<1> DEFINE r == toArrayString(vals)
<1>1. DOMAIN vals = 1 .. Len(vals) /\ vals[i] \in ToSet(vals)
  BY LenProperties DEF ToSet
<1>2. CommandsOf(Value(vals, next)) = WithFirst(r)
  BY DEF CommandsOf, Value
<1>3. CASE r = Outcome("panic")
  BY <1>2, <1>3 DEF WithFirst, Outcome
<1>4. CASE r # Outcome("panic")
  <2> DEFINE back == [k \in DOMAIN vals |-> [j \in DOMAIN vals[k][2] |-> vals[k][2][j][2]]]
  <2>1. \A v \in ToSet(vals) : v[1] = "array" /\ \A e \in ToSet(v[2]) : e[1] = "string"
    BY <1>4 DEF toArrayString
  <2>2. r = Value(back, 0)
    BY <2>1 DEF toArrayString
  <2>3. vals[i][2] = <<>>
    BY <1>1, <2>1 DEF NoCommandIn
  <2>4. back[i] = <<>>
    <3>1. back[i] = [j \in DOMAIN vals[i][2] |-> vals[i][2][j][2]]
      BY <1>1
    <3>2. DOMAIN vals[i][2] = {}
      BY <2>3
    <3>3. back[i] = [j \in {} |-> vals[i][2][j][2]]
      BY <3>1, <3>2
    <3> HIDE DEF back
    <3>4. [j \in {} |-> vals[i][2][j][2]] = <<>>
      OBVIOUS
    <3> QED
      BY <3>3, <3>4
  <2>5. <<>> \in ToSet(back)
    <3>1. DOMAIN back = 1 .. Len(vals)
      BY <1>1
    <3> HIDE DEF back
    <3> QED
      BY <3>1, <2>4 DEF ToSet
  <2> HIDE DEF back
  <2> QED
    BY <1>2, <2>2, <2>5 DEF WithFirst, Value, Outcome
<1> QED
  BY <1>3, <1>4

\* What does not begin with a star is no command.
LEMMA NoStarNoCommand ==
  ASSUME NEW b \in Seq(Nat), NEW n \in 1 .. Len(b), b[1] # Star
  PROVE  readCommands(b, n).out # "value"
<1> DEFINE one == DecodeOne(b, n)   all == Values(one, n)
           vals == {one[q].val : q \in 0 .. n - 1}
<1>1. n \in 0 .. Len(b) /\ n \in Nat /\ n # 0 /\ 0 \in 0 .. n - 1 /\ 0 + 1 = 1
  OBVIOUS
<1>2. Advances(one, 0, n) /\ one[0] = DecodeAt(b, 0, n, one)
  BY <1>1, DecodeOneIs
<1>3. Decode(b, n) = all[0]
  BY <1>1 DEF Decode
<1>4. /\ all[0].out = "value" =>
           /\ all[0] = Value(all[0].val, all[0].next) /\ all[0].val \in Seq(vals)
           /\ Len(all[0].val) \in Nat \ {0} /\ all[0].val[1] = one[0].val
           /\ one[0].out = "value"
  <2> HIDE DEF one
  <2> QED
    BY <1>1, <1>2, ValuesType, ZenonT(60)
<1> HIDE DEF all, vals
<1>5. ASSUME one[0].out = "value" PROVE one[0].val[1] # "array"
  <2> HIDE DEF one
  <2>1. readSimpleString(b, 0, n).out = "value" => readSimpleString(b, 0, n).val[1] = "string"
    BY DEF readSimpleString, Outcome, Value, Str
  <2>2. readInt64(b, 0, n).out = "value" => readInt64(b, 0, n).val[1] = "int"
    BY DEF readInt64, Outcome, Value, Integer
  <2>3. readBulkString(b, 0, n).out = "value" => readBulkString(b, 0, n).val[1] = "string"
    BY DEF readBulkString, StringAt, Outcome, Value, Str
  <2>4. Outcome("unknown").out # "value"
    BY DEF Outcome
  <2>5. b[0 + 1] # Star
    BY <1>1
  <2>6. one[0] \in {readSimpleString(b, 0, n), readInt64(b, 0, n), readBulkString(b, 0, n), Outcome("unknown")}
    BY <1>2, <2>5 DEF DecodeAt
  <2> QED
    BY <1>5, <2>1, <2>2, <2>3, <2>4, <2>6
<1> HIDE DEF one
<1>6. CASE all[0].out # "value"
  BY <1>3, <1>6 DEF readCommands, CommandsOf
<1>7. CASE all[0].out = "value"
  <2>1. 1 \in 1 .. Len(all[0].val) /\ NoCommandIn(all[0].val[1])
    BY <1>4, <1>5, <1>7 DEF NoCommandIn
  <2>2. CommandsOf(Value(all[0].val, all[0].next)).out # "value"
    BY <2>1, <1>4, <1>7, SpoiltByOne
  <2> QED
    BY <2>2, <1>3, <1>4, <1>7 DEF readCommands
<1> QED
  BY <1>6, <1>7

\* A connection that is still open after a read that ended within a command is
\* there yet, as long as no read has begun at a star.
TornWithin ==
  torn /\ ~astray /\ conn = "open" =>
    \E i \in 1 .. Len(sent) : BorderOf(sent, i - 1) < at /\ at < BorderOf(sent, i)

\* A position within a command is no border.
LEMMA WithinNoBorder ==
  ASSUME NEW cmds \in Seq(Commands), NEW i \in 1 .. Len(cmds), NEW pos \in Nat,
         BorderOf(cmds, i - 1) < pos, pos < BorderOf(cmds, i)
  PROVE  \A k \in 0 .. Len(cmds) : pos # BorderOf(cmds, k)
<1> DEFINE m == Len(cmds)   j == i - 1
<1>1. /\ m \in Nat /\ \A x \in 0 .. m : BorderOf(cmds, x) \in Nat
      /\ \A x \in 0 .. m : \A y \in x + 1 .. m : BorderOf(cmds, x) < BorderOf(cmds, y)
  BY BordersAre
<1>2. i \in 0 .. m /\ j \in 0 .. m /\ i = j + 1
  BY <1>1
<1> HIDE DEF m
<1>3. ASSUME NEW k \in 0 .. m, pos = BorderOf(cmds, k) PROVE FALSE
  <2>1. CASE k \in i + 1 .. m
    BY <2>1, <1>1, <1>2, <1>3
  <2>2. CASE j \in k + 1 .. m
    BY <2>2, <1>1, <1>2, <1>3
  <2>3. CASE k = i \/ k = j
    BY <2>3, <1>3
  <2> QED
    BY <1>1, <1>2, <2>1, <2>2, <2>3
<1> QED
  BY <1>3 DEF m

\* A read from within a command is no command, unless it begins at a star.
LEMMA ReadWithin ==
  ASSUME TypeOK, TornWithin, torn, ~astray', Read
  PROVE  conn' # "open" /\ executed' = executed /\ torn' = TRUE /\ sent' = sent
<1>1. sent \in Seq(Commands) /\ at \in Nat
  BY DEF TypeOK
<1>2. PICK n \in Nat \ {0} :
        /\ n <= BufSize /\ at + n <= Len(Stream(sent)) /\ BufSize \in Nat
        /\ torn' = (torn \/ at + n \notin Borders)
        /\ astray' = (astray \/ (at \notin Borders /\ Stream(sent)[at + 1] = Star))
        /\ Serve(readCommands(Window(Stream(sent), at, n, BufSize), n))
        /\ conn = "open" /\ UNCHANGED <<sent, done>>
  BY <1>1, ReadIs
<1>3. PICK i \in 1 .. Len(sent) : BorderOf(sent, i - 1) < at /\ at < BorderOf(sent, i)
  <2>1. ~astray
    BY <1>2
  <2> QED
    BY <1>2, <2>1 DEF TornWithin
<1> DEFINE str == Stream(sent)   b == Window(str, at, n, BufSize)   r == readCommands(b, n)
<1>4. str[at + 1] # Star
  <2>1. \A k \in 0 .. Len(sent) : at # BorderOf(sent, k)
    BY <1>1, <1>3, WithinNoBorder
  <2>2. at \notin Borders
    BY <2>1, BorderIs DEF Borders
  <2> QED
    BY <1>2, <2>2
<1>5. b \in Seq(Nat) /\ Len(b) = BufSize /\ \A k \in 1 .. n : b[k] = str[at + k]
  <2>1. str \in Seq(Nat) /\ n \in Nat
    BY <1>1, BordersAre
  <2> HIDE DEF str
  <2> QED
    <3>1. /\ str \in Seq(Nat) /\ n \in Nat /\ at \in Nat /\ at + n <= Len(str)
          /\ BufSize \in Nat /\ n <= BufSize
      BY <2>1, <1>1, <1>2 DEF str
    <3>2. Fills(Window(str, at, n, BufSize), str, at, n, BufSize)
      BY ONLY <3>1, WindowIs
    <3> QED
      BY <3>2 DEF Fills
<1> HIDE DEF b, str
<1>6. b[1] # Star /\ n \in 1 .. Len(b)
  BY <1>2, <1>4, <1>5
<1>7. r.out # "value"
  BY <1>5, <1>6, NoStarNoCommand
<1>8. Serve(r)
  BY <1>2 DEF b, str
<1> HIDE DEF r
<1>9. conn' # "open" /\ executed' = executed
  BY <1>7, <1>8 DEF Serve
<1> QED
  BY <1>2, <1>9

\* TornWithin is inductive.
LEMMA TornWithinStep == TypeOK /\ TornWithin /\ [Next]_vars => TornWithin'
<1> SUFFICES ASSUME TypeOK, TornWithin, [Next]_vars, ~astray' PROVE TornWithin'
  BY DEF TornWithin
<1> DEFINE W(cmds, p) == \E i \in 1 .. Len(cmds) : BorderOf(cmds, i - 1) < p /\ p < BorderOf(cmds, i)
<1>1. (torn' /\ conn' = "open" => W(sent', at')) => TornWithin'
  BY DEF TornWithin, BorderOf, Stream, Encoded
<1>2. torn /\ conn = "open" => W(sent, at)
  <2>1. ~astray
    <3>1. CASE Read
      BY <3>1, ReadIs DEF TypeOK
    <3>2. CASE ~Read
      BY <3>2 DEF Next, Send, Receive, HangUp, ReadEnd, vars
    <3> QED
      BY <3>1, <3>2
  <2> QED
    BY <2>1 DEF TornWithin
<1>3. sent \in Seq(Commands) /\ at \in Nat
  BY DEF TypeOK
<1>4. CASE Send
  <2>1. PICK c \in Commands : sent' = Append(sent, c)
    BY <1>4 DEF Send
  <2> DEFINE more == Append(sent, c)
  <2>2. /\ Len(more) = Len(sent) + 1 /\ Len(sent) \in Nat
        /\ \A i \in 0 .. Len(sent) : BorderOf(more, i) = BorderOf(sent, i)
    BY <1>3, BordersStay
  <2> HIDE DEF more
  <2>3. \A i \in 1 .. Len(sent) : i \in 0 .. Len(sent) /\ i - 1 \in 0 .. Len(sent) /\ i \in 1 .. Len(more)
    BY <2>2
  <2>4. W(sent, at) => W(more, at)
    BY <2>2, <2>3
  <2>5. UNCHANGED <<torn, at, conn>>
    BY <1>4 DEF Send
  <2> HIDE DEF W
  <2> QED
    BY <1>1, <1>2, <2>1, <2>4, <2>5 DEF more
<1>5. CASE Receive
  BY <1>1, <1>2, <1>5 DEF Receive
<1>6. CASE HangUp
  BY <1>1, <1>2, <1>6 DEF HangUp
<1>7. CASE Read
  <2>1. CASE torn
    BY <2>1, <1>1, <1>7, ReadWithin
  <2>2. CASE ~torn
    <3> SUFFICES ASSUME torn' PROVE W(sent', at')
      BY <1>1
    <3>1. PICK n \in Nat \ {0} :
            /\ at + n <= Len(Stream(sent)) /\ at' = at + n /\ torn' = (torn \/ at + n \notin Borders)
            /\ UNCHANGED <<sent, done>>
      BY <1>3, <1>7, ReadIs
    <3> DEFINE pos == at + n   m == Len(sent)
    <3>2. pos \in Nat /\ at' = pos /\ sent' = sent /\ pos \notin Borders
      <4>1. pos \in Nat
        BY <1>3
      <4>2. pos \notin Borders
        BY <2>2, <3>1
      <4> QED
        BY <3>1, <4>1, <4>2
    <3>3. /\ m \in Nat /\ BorderOf(sent, m) = Len(Stream(sent))
          /\ \A i \in 0 .. m : BorderOf(sent, i) \in Nat
      BY <1>3, BordersAre
    <3>4. \A i \in 0 .. m : pos # BorderOf(sent, i)
      BY <3>2, BorderIs DEF Borders
    <3>5. m \in 0 .. m
      BY <3>3
    <3>6. pos < Len(Stream(sent))
      BY <3>1, <3>2, <3>3, <3>4, <3>5
    <3> HIDE DEF pos
    <3>7. PICK i \in 1 .. m : BorderOf(sent, i - 1) <= pos /\ pos < BorderOf(sent, i)
      BY <1>3, <3>2, <3>6, Between
    <3>8. i - 1 \in 0 .. m
      BY <3>3
    <3>9. BorderOf(sent, i - 1) < pos
      BY <3>2, <3>3, <3>4, <3>7, <3>8
    <3> QED
      BY <3>2, <3>7, <3>9
  <2> QED
    BY <2>1, <2>2
<1>8. CASE ReadEnd
  BY <1>1, <1>2, <1>8 DEF ReadEnd
<1>9. CASE UNCHANGED vars
  BY <1>1, <1>2, <1>9 DEF vars
<1> QED
  BY <1>4, <1>5, <1>6, <1>7, <1>8, <1>9 DEF Next

\* After a read that ended within a command nothing is executed any more, what is
\* left of a command never taken for one (Decode, resp.go:113-133), whatever the
\* commands and however the bytes arrive: unless a read begins at a star there.
THEOREM TornReadsEndIt == Spec => NothingAfterTorn
<1>1. Init => TypeOK /\ TornWithin
  BY TypeInit DEF Init, TornWithin
<1>2. TypeOK /\ TornWithin /\ [Next]_vars => (TypeOK /\ TornWithin)'
  BY TypeStep, TornWithinStep
<1>3. TypeOK /\ TornWithin /\ [Next]_vars => [torn /\ ~astray' => executed' = executed]_vars
  <2> SUFFICES ASSUME TypeOK, TornWithin, [Next]_vars, torn, ~astray' PROVE executed' = executed
    OBVIOUS
  <2>1. CASE Read
    BY <2>1, ReadWithin
  <2>2. CASE ~Read
    BY <2>2 DEF Next, Send, Receive, HangUp, ReadEnd, vars
  <2> QED
    BY <2>1, <2>2
<1> QED
  BY <1>1, <1>2, <1>3, PTL DEF Spec, NothingAfterTorn
-----------------------------------------------------------------------------
(* Reads that end within a command.                                        *)

\* As much of s as comes before n stands in b from p on.
Cut(b, p, n, s) == \A i \in 1 .. Len(s) : p + i <= n => b[p + i] = s[i]

\* After n there is nothing.
Blank(b, n) == \A i \in n + 1 .. Len(b) : b[i] = NUL

\* As much of each part of a concatenation stands there as of the whole.
LEMMA CutParts ==
  ASSUME NEW b, NEW n \in Nat, NEW p \in Nat, NEW s \in Seq(Nat), NEW t \in Seq(Nat),
         Cut(b, p, n, s \o t)
  PROVE  Cut(b, p, n, s) /\ Cut(b, p + Len(s), n, t) /\ Len(s \o t) = Len(s) + Len(t)
<1> DEFINE u == s \o t
<1>1. /\ Len(u) = Len(s) + Len(t) /\ Len(s) \in Nat /\ Len(t) \in Nat
      /\ \A i \in 1 .. Len(s) : u[i] = s[i]
      /\ \A i \in 1 .. Len(t) : u[Len(s) + i] = t[i]
  OBVIOUS
<1>2. Cut(b, p, n, u)
  OBVIOUS
<1> HIDE DEF u
<1>3. ASSUME NEW i \in 1 .. Len(s), p + i <= n PROVE b[p + i] = s[i]
  <2>1. i \in 1 .. Len(u)
    BY <1>1
  <2> QED
    BY <2>1, <1>1, <1>2, <1>3 DEF Cut
<1>4. ASSUME NEW i \in 1 .. Len(t), (p + Len(s)) + i <= n PROVE b[(p + Len(s)) + i] = t[i]
  <2>1. Len(s) + i \in 1 .. Len(u) /\ (p + Len(s)) + i = p + (Len(s) + i)
    BY <1>1
  <2> QED
    BY <2>1, <1>1, <1>2, <1>4 DEF Cut
<1> QED
  BY <1>1, <1>3, <1>4 DEF Cut, u

\* What is cut off after its end is whole.
LEMMA CutHolds ==
  ASSUME NEW b, NEW n \in Nat, NEW p \in Nat, NEW s \in Seq(Nat), Cut(b, p, n, s),
         p + Len(s) <= n
  PROVE  Holds(b, p, n, s)
<1>1. Len(s) \in Nat
  BY LenProperties
<1>2. \A i \in 1 .. Len(s) : p + i <= n
  BY <1>1
<1> QED
  BY <1>2 DEF Cut, Holds

\* A length is read if the first byte of its terminator has come, and not at
\* all if not.
LEMMA LengthCut ==
  ASSUME NEW b \in Seq(Nat), NEW n \in 0 .. Len(b), NEW p \in 0 .. n, NEW k \in Nat,
         Cut(b, p, n, Decimal[k]), Cut(b, p + Len(Decimal[k]), n, CRLF)
  PROVE  /\ n <= p + Len(Decimal[k]) =>
              /\ readLength(b, p, n) = [length |-> 0, next |-> p]
              /\ \A x \in p .. n - 1 : b[x + 1] \in Digits
         /\ n > p + Len(Decimal[k]) =>
              readLength(b, p, n) = [length |-> k, next |-> p + Len(Decimal[k]) + 2]
<1> DEFINE d == Decimal[k]
           e == DigitsEnd(b, p, n)
<1>1. /\ d \in Seq(Nat) /\ Len(d) \in Nat \ {0} /\ Number(d) = k
      /\ \A i \in 1 .. Len(d) : d[i] \in Digits
  BY DecimalReads, DigitsAreNat, ElementOfSeq
<1>2. CRLF \in Seq(Nat) /\ Len(CRLF) = 2 /\ CRLF[1] = CR /\ CR \notin Digits
  BY DEF CRLF, CR, LF, Digits
<1>3. Cut(b, p, n, d) /\ Cut(b, p + Len(d), n, CRLF)
  OBVIOUS
<1> HIDE DEF d
<1>4. n \in Nat /\ p \in Nat
  OBVIOUS
<1>5. \A i \in 1 .. Len(d) : p + i <= n => b[p + i] \in Digits
  BY <1>1, <1>3 DEF Cut
<1>6. /\ e \in p .. n /\ (e = n \/ b[e + 1] \notin Digits)
      /\ \A j \in p .. e - 1 : b[j + 1] \in Digits
  BY <1>4, DigitsEndIs
<1>7. readLength(b, p, n) = IF e < n THEN Length(b, p, e) ELSE [length |-> 0, next |-> p]
  BY DEF readLength, DigitsEnd
<1> HIDE DEF e
<1>8. ASSUME e < p + Len(d) PROVE e = n
  <2>1. (e + 1) - p \in 1 .. Len(d) /\ p + ((e + 1) - p) = e + 1
    BY <1>8, <1>1, <1>4, <1>6, SMTT(60)
  <2>2. e + 1 <= n => b[e + 1] \in Digits
    BY <2>1, <1>5
  <2> QED
    BY <2>2, <1>4, <1>6
<1>9. CASE n <= p + Len(d)
  <2>1. e = n
    BY <1>1, <1>4, <1>6, <1>8, <1>9
  <2> QED
    BY <2>1, <1>6, <1>7, <1>9, <1>1, <1>4 DEF d
<1>10. CASE n > p + Len(d)
  <2>1. b[(p + Len(d)) + 1] = CR
    <3>1. 1 \in 1 .. Len(CRLF) /\ (p + Len(d)) + 1 <= n
      BY <1>1, <1>2, <1>4, <1>10
    <3> QED
      BY <3>1, <1>2, <1>3 DEF Cut
  <2>2. e = p + Len(d)
    <3>1. ASSUME e > p + Len(d) PROVE FALSE
      <4>1. p + Len(d) \in p .. e - 1
        BY <3>1, <1>1, <1>4, <1>6, SMTT(60)
      <4> QED
        BY <4>1, <2>1, <1>2, <1>6
    <3>2. ~(e < p + Len(d))
      BY <1>8, <1>10
    <3>3. e \in Int /\ p + Len(d) \in Int
      BY <1>1, <1>4, <1>6
    <3> QED
      BY ONLY <3>1, <3>2, <3>3
  <2>3. Holds(b, p, n, d)
    <3>1. p + Len(d) <= n
      BY <1>1, <1>4, <1>10
    <3> QED
      BY <3>1, <1>1, <1>3, <1>4, CutHolds
  <2>4. Slice(b, p, e) = d
    BY <1>1, <1>4, <2>2, <2>3, SliceIs
  <2>5. Length(b, p, e) = [length |-> k, next |-> e + 2]
    BY <1>1, <2>4 DEF Length
  <2>6. e < n /\ ~(n <= p + Len(d))
    BY <1>1, <1>4, <1>10, <2>2
  <2> QED
    BY <1>7, <2>2, <2>5, <2>6 DEF d
<1> QED
  BY <1>1, <1>4, <1>9, <1>10 DEF d

\* Made of the first bytes of t, and NULs for the others.
Padded(u, t) ==
  /\ u \in Seq(Nat) /\ Len(u) = Len(t)
  /\ \E k \in 0 .. Len(t) : \A i \in DOMAIN t : u[i] = IF i <= k THEN t[i] ELSE NUL

\* A slice of whatever comes of t and of the blank bytes after it.
LEMMA SlicePadded ==
  ASSUME NEW b \in Seq(Nat), NEW n \in 0 .. Len(b), NEW p \in Nat, NEW t \in Seq(Nat),
         Cut(b, p, n, t), Blank(b, n), p + Len(t) <= Len(b)
  PROVE  Padded(Slice(b, p, p + Len(t)), t)
<1> DEFINE e == p + Len(t)   u == Slice(b, p, e)
           k == IF n <= p THEN 0 ELSE IF n <= e THEN n - p ELSE Len(t)
<1>1. Len(t) \in Nat /\ Len(b) \in Nat /\ n \in Nat /\ DOMAIN t = 1 .. Len(t)
  BY LenProperties
<1>2. e \in p .. Len(b) /\ e - p = Len(t)
  BY <1>1
<1>3. u \in Seq(Nat) /\ Len(u) = Len(t) /\ \A i \in 1 .. Len(t) : u[i] = b[p + i]
  <2> HIDE DEF e
  <2> QED
    BY <1>2, SliceType, ZenonT(60)
<1>4. k \in 0 .. Len(t)
  BY <1>1
<1> HIDE DEF u
<1>5. ASSUME NEW i \in 1 .. Len(t) PROVE u[i] = IF i <= k THEN t[i] ELSE NUL
  <2>1. CASE i <= k
    <3>1. p + i <= n
      BY <2>1, <1>1
    <3> QED
      BY <3>1, <2>1, <1>3 DEF Cut
  <2>2. CASE ~(i <= k)
    <3>1. p + i \in n + 1 .. Len(b)
      BY <2>2, <1>1
    <3> QED
      BY <3>1, <2>2, <1>3 DEF Blank
  <2> QED
    BY <2>1, <2>2
<1> HIDE DEF k
<1> QED
  BY <1>1, <1>3, <1>4, <1>5 DEF Padded, u

\* What becomes of an encoded string that a read cuts off: a panic, an empty
\* string before digits that are left over, or the string with NULs at its end.
LEMMA BulkCut ==
  ASSUME NEW b \in Seq(Nat), NEW n \in 0 .. Len(b), NEW q \in 0 .. n - 1, NEW t \in Seq(Nat),
         Cut(b, q, n, encodeString(t)), q + Len(encodeString(t)) > n, Blank(b, n)
  PROVE  LET v == DecodeOne(b, n)[q]
         IN \/ v = Outcome("panic")
            \/ /\ v = Value(Str(<<>>), q + 3)
               /\ q + 3 < n => b[q + 4] \in Digits
            \/ \E u, next : v = Value(Str(u), next) /\ next \in Nat /\ next > n /\ Padded(u, t)
<1> DEFINE one == DecodeOne(b, n)
           d == Decimal[Len(t)]
           x == <<Dollar>>
           y == x \o d
           v == y \o CRLF
           w == v \o t
           r == readLength(b, q + 1, n)
<1>1. /\ d \in Seq(Nat) /\ Len(d) \in Nat \ {0} /\ Len(t) \in Nat /\ n \in Nat /\ Len(b) \in Nat
      /\ q \in Nat /\ q < n
  BY DecimalReads, DigitsAreNat
<1>2. /\ x \in Seq(Nat) /\ CRLF \in Seq(Nat) /\ Len(CRLF) = 2
      /\ Len(x) = 1 /\ x[1] = Dollar
  BY DEF Dollar, CRLF, CR, LF
<1>3. encodeString(t) = w \o CRLF
  BY DEF encodeString
<1> HIDE DEF d, x
<1>4. y \in Seq(Nat) /\ v \in Seq(Nat) /\ w \in Seq(Nat) /\ w \o CRLF \in Seq(Nat)
  <2>1. y \in Seq(Nat)
    BY <1>1, <1>2, ConcatProperties
  <2> HIDE DEF y
  <2>2. v \in Seq(Nat)
    BY <2>1, <1>2, ConcatProperties
  <2> HIDE DEF v
  <2>3. w \in Seq(Nat)
    BY <2>2, ConcatProperties
  <2> HIDE DEF w
  <2> QED
    BY <2>1, <2>2, <2>3, <1>2, ConcatProperties
<1>5. /\ Cut(b, q, n, w) /\ Len(encodeString(t)) = Len(w) + Len(CRLF)
  <2>1. w \in Seq(Nat) /\ CRLF \in Seq(Nat) /\ n \in Nat /\ q \in Nat /\ Cut(b, q, n, w \o CRLF)
    BY <1>1, <1>2, <1>3, <1>4
  <2> HIDE DEF w
  <2>2. Cut(b, q, n, w) /\ Len(w \o CRLF) = Len(w) + Len(CRLF)
    BY ONLY <2>1, CutParts
  <2> QED
    BY <2>2, <1>3
<1>6. Cut(b, q, n, v) /\ Cut(b, q + Len(v), n, t) /\ Len(w) = Len(v) + Len(t)
  <2>1. v \in Seq(Nat) /\ t \in Seq(Nat) /\ n \in Nat /\ q \in Nat
    BY <1>1, <1>4
  <2> HIDE DEF v
  <2> QED
    BY ONLY <2>1, <1>5, CutParts
<1>7. Cut(b, q, n, y) /\ Cut(b, q + Len(y), n, CRLF) /\ Len(v) = Len(y) + Len(CRLF)
  <2>1. y \in Seq(Nat) /\ CRLF \in Seq(Nat) /\ n \in Nat /\ q \in Nat
    BY <1>1, <1>2, <1>4
  <2> HIDE DEF y
  <2> QED
    BY ONLY <2>1, <1>6, CutParts
<1>8. Cut(b, q, n, x) /\ Cut(b, q + Len(x), n, d) /\ Len(y) = Len(x) + Len(d)
  <2>1. x \in Seq(Nat) /\ d \in Seq(Nat) /\ n \in Nat /\ q \in Nat
    BY <1>1, <1>2
  <2> QED
    BY ONLY <2>1, <1>7, CutParts
<1> HIDE DEF y, v, w
<1>9. b[q + 1] = Dollar
  <2>1. 1 \in 1 .. Len(x) /\ q + 1 <= n
    BY <1>1, <1>2
  <2> QED
    BY <2>1, <1>2, <1>8 DEF Cut
<1>10. one[q] = StringAt(b, r, "panic")
  <2>1. one[q] = DecodeAt(b, q, n, one)
    BY DecodeOneIs
  <2>2. Dollar \notin {Plus, Minus} /\ Dollar # Colon /\ Dollar # Star
    BY DEF Dollar, Plus, Minus, Colon, Star
  <2> HIDE DEF one
  <2>3. DecodeAt(b, q, n, one) = readBulkString(b, q, n)
    BY <1>9, <2>2 DEF DecodeAt
  <2> QED
    BY <2>1, <2>3 DEF readBulkString
<1> DEFINE m == q + 1
<1>11. /\ m \in 0 .. n /\ q + Len(x) = m /\ q + Len(y) = m + Len(d) /\ q + Len(v) = m + Len(d) + 2
       /\ q + Len(encodeString(t)) = (q + Len(v)) + Len(t) + 2 /\ q + Len(v) \in Nat
  BY <1>1, <1>2, <1>5, <1>6, <1>7, <1>8
<1>12. /\ n <= m + Len(d) => /\ r = [length |-> 0, next |-> m]
                             /\ \A i \in m .. n - 1 : b[i + 1] \in Digits
       /\ n > m + Len(d) => r = [length |-> Len(t), next |-> m + Len(d) + 2]
  <2> DEFINE k == Len(t)
  <2>1. Cut(b, m, n, Decimal[k]) /\ Cut(b, m + Len(Decimal[k]), n, CRLF)
    BY <1>7, <1>8, <1>11 DEF d
  <2>2. k \in Nat /\ m \in 0 .. n /\ b \in Seq(Nat) /\ n \in 0 .. Len(b)
    BY <1>1, <1>11
  <2> HIDE DEF k, m
  <2>3. /\ n <= m + Len(Decimal[k]) => /\ readLength(b, m, n) = [length |-> 0, next |-> m]
                                       /\ \A i \in m .. n - 1 : b[i + 1] \in Digits
        /\ n > m + Len(Decimal[k]) => readLength(b, m, n) = [length |-> k, next |-> m + Len(Decimal[k]) + 2]
    BY ONLY <2>1, <2>2, LengthCut
  <2> QED
    BY <2>3 DEF k, m, d
<1> HIDE DEF r
<1>13. CASE n <= m + Len(d)
  <2>1. r.length = 0 /\ r.next = m
    BY <1>12, <1>13
  <2>2. Slice(b, m, m + 0) = <<>>
    BY <1>1 DEF Slice
  <2>3. StringAt(b, r, "panic") = Outcome("panic") \/ StringAt(b, r, "panic") = Value(Str(<<>>), q + 3)
    <3>1. m + 0 = m /\ m + 0 + 2 = q + 3
      BY <1>1
    <3> HIDE DEF m
    <3> QED
      BY <3>1, <2>1, <2>2 DEF StringAt
  <2>4. q + 3 < n => b[q + 4] \in Digits
    <3>1. q + 3 < n => q + 3 \in m .. n - 1 /\ (q + 3) + 1 = q + 4
      BY <1>1
    <3> QED
      BY <3>1, <1>12, <1>13
  <2> QED
    BY <1>10, <2>3, <2>4
<1>14. CASE n > m + Len(d)
  <2> DEFINE p == q + Len(v)   u == Slice(b, p, p + Len(t))   next == p + Len(t) + 2
  <2>1. r.length = Len(t) /\ r.next = p
    BY <1>11, <1>12, <1>14
  <2>2. p \in Nat /\ next \in Nat /\ next > n
    BY <1>1, <1>11
  <2>3. CASE p + Len(t) > Len(b)
    <3>1. StringAt(b, r, "panic") = Outcome("panic")
      BY <2>1, <2>3 DEF StringAt
    <3> QED
      BY <3>1, <1>10
  <2>4. CASE ~(p + Len(t) > Len(b))
    <3>1. StringAt(b, r, "panic") = Value(Str(u), next)
      BY <2>1, <2>4 DEF StringAt
    <3>2. Padded(u, t)
      <4>1. Cut(b, p, n, t) /\ p + Len(t) <= Len(b)
        BY <1>1, <1>6, <2>2, <2>4
      <4> HIDE DEF p
      <4> QED
        BY <4>1, <2>2, SlicePadded
    <3> HIDE DEF u, next
    <3> QED
      BY <1>10, <2>2, <3>1, <3>2
  <2> QED
    BY <2>3, <2>4
<1> QED
  BY <1>1, <1>11, <1>13, <1>14

\* A token as a read that ends within it leaves it.
SpoiltToken(u, t) == u \in Seq(Nat) /\ (u = <<>> \/ Padded(u, t))

\* After a value there is nothing more to read, or digits that are left over.
LeftOver(b, n, next) == next \in Nat /\ (next < n => b[next + 1] \in Digits)

\* An encoded string that a read cuts off panics or is a spoilt token.
LEMMA BulkSpoilt ==
  ASSUME NEW b \in Seq(Nat), NEW n \in 0 .. Len(b), NEW q \in 0 .. n - 1, NEW t \in Seq(Nat),
         Cut(b, q, n, encodeString(t)), q + Len(encodeString(t)) > n, Blank(b, n)
  PROVE  \/ DecodeOne(b, n)[q] = Outcome("panic")
         \/ \E u, next : /\ DecodeOne(b, n)[q] = Value(Str(u), next)
                         /\ SpoiltToken(u, t) /\ LeftOver(b, n, next)
<1> DEFINE v == DecodeOne(b, n)[q]   e == <<>>
<1>1. e \in Seq(Nat) /\ q + 3 \in Nat /\ n \in Nat /\ (q + 3) + 1 = q + 4
  OBVIOUS
<1>2. \/ v = Outcome("panic")
      \/ /\ v = Value(Str(e), q + 3)
         /\ q + 3 < n => b[q + 4] \in Digits
      \/ \E u, next : v = Value(Str(u), next) /\ next \in Nat /\ next > n /\ Padded(u, t)
  BY BulkCut
<1>3. SpoiltToken(e, t)
  BY <1>1 DEF SpoiltToken
<1> HIDE DEF v, e
<1>4. CASE v = Value(Str(e), q + 3) /\ (q + 3 < n => b[q + 4] \in Digits)
  <2>1. LeftOver(b, n, q + 3)
    BY <1>1, <1>4 DEF LeftOver
  <2> QED
    BY <2>1, <1>3, <1>4 DEF v
<1>5. CASE \E u, next : v = Value(Str(u), next) /\ next \in Nat /\ next > n /\ Padded(u, t)
  <2>1. PICK u, next : v = Value(Str(u), next) /\ next \in Nat /\ next > n /\ Padded(u, t)
    BY <1>5
  <2>2. SpoiltToken(u, t) /\ LeftOver(b, n, next)
    BY <2>1, <1>1 DEF SpoiltToken, LeftOver, Padded
  <2> QED
    BY <2>1, <2>2 DEF v
<1> QED
  BY <1>2, <1>4, <1>5 DEF v

\* A digit begins no value.
LEMMA DigitUnknown ==
  ASSUME NEW b \in Seq(Nat), NEW n \in 0 .. Len(b), NEW q \in 0 .. n - 1, b[q + 1] \in Digits
  PROVE  DecodeOne(b, n)[q] = Outcome("unknown")
<1> DEFINE one == DecodeOne(b, n)
<1>1. one[q] = DecodeAt(b, q, n, one)
  BY DecodeOneIs
<1>2. b[q + 1] \notin {Plus, Minus} /\ b[q + 1] # Colon /\ b[q + 1] # Dollar /\ b[q + 1] # Star
  <2>1. Plus = 43 /\ Minus = 45 /\ Colon = 58 /\ Dollar = 36 /\ Star = 42 /\ Digits = 48 .. 57
    BY DEF Digits, Plus, Minus, Colon, Dollar, Star
  <2>2. \A x \in 48 .. 57 : x # 43 /\ x # 45 /\ x # 58 /\ x # 36 /\ x # 42
    OBVIOUS
  <2> HIDE DEF one
  <2> QED
    BY <2>1, <2>2
<1> HIDE DEF one
<1> QED
  BY <1>1, <1>2 DEF DecodeAt, one

\* Where a concatenation is cut off, so is each of its sequences.
LEMMA CutJoins ==
  ASSUME NEW b, NEW n \in Nat, NEW p \in Nat, NEW seqs \in Seq(Seq(Nat)),
         NEW f \in [0 .. Len(seqs) -> Seq(Nat)], Joins(f, seqs),
         Cut(b, p, n, f[Len(seqs)])
  PROVE  /\ Len(f[0]) = 0 /\ \A i \in 0 .. Len(seqs) : Len(f[i]) \in Nat
         /\ \A i \in 1 .. Len(seqs) : /\ Len(f[i]) = Len(f[i - 1]) + Len(seqs[i])
                                      /\ Cut(b, p + Len(f[i - 1]), n, seqs[i])
<1> DEFINE m == Len(seqs)
<1>1. m \in Nat /\ \A i \in 1 .. m : seqs[i] \in Seq(Nat)
  BY LenProperties, ElementOfSeq
<1>2. Len(f[0]) = 0
  BY DEF Joins
<1>3. \A i \in 0 .. m : f[i] \in Seq(Nat) /\ Len(f[i]) \in Nat
  BY LenProperties
<1>4. ASSUME NEW i \in 1 .. m, Cut(b, p, n, f[i])
      PROVE  /\ Cut(b, p, n, f[i - 1]) /\ Cut(b, p + Len(f[i - 1]), n, seqs[i])
             /\ Len(f[i]) = Len(f[i - 1]) + Len(seqs[i])
  <2> DEFINE s == f[i - 1]   t == seqs[i]
  <2>1. f[i] = s \o t
    BY DEF Joins
  <2>2. s \in Seq(Nat) /\ t \in Seq(Nat)
    BY <1>1, <1>3
  <2>3. Cut(b, p, n, s \o t)
    BY <1>4, <2>1
  <2> HIDE DEF s, t
  <2>4. Cut(b, p, n, s) /\ Cut(b, p + Len(s), n, t) /\ Len(s \o t) = Len(s) + Len(t)
    BY <2>2, <2>3, CutParts
  <2> QED
    BY <2>1, <2>4 DEF s, t
<1> DEFINE there(j) == Cut(b, p, n, f[m - j])
           K == {j \in Nat : j <= m => there(j)}
<1>5. 0 \in K
  BY <1>1
<1>6. \A j \in Nat : j \in K => j + 1 \in K
  <2> HIDE DEF there
  <2> SUFFICES ASSUME NEW j \in Nat, j \in K, j + 1 <= m PROVE there(j + 1)
    OBVIOUS
  <2> USE DEF there
  <2>1. m - j \in 1 .. m /\ (m - j) - 1 = m - (j + 1) /\ Cut(b, p, n, f[m - j])
    BY <1>1
  <2> QED
    BY <2>1, <1>4
<1>7. ASSUME NEW i \in 1 .. m PROVE Cut(b, p, n, f[i])
  <2>1. m - i \in Nat /\ m - i <= m /\ m - (m - i) = i
    BY <1>1
  <2>2. m - i \in K
    <3> HIDE DEF K
    <3> QED
      BY <2>1, <1>5, <1>6, NatInSet
  <2> QED
    BY <2>1, <2>2
<1> QED
  BY <1>2, <1>3, <1>4, <1>7

\* What is left over ends an array, or leaves a hole in it.
LEMMA HoleAfter ==
  ASSUME NEW b \in Seq(Nat), NEW n \in 0 .. Len(b), NEW s, NEW next, LeftOver(b, n, next),
         NEW a, a = Value(s, next)
  PROVE  LET w == WithElement(DecodeOne(b, n), a, n)
         IN w.out \in {"panic", "error"} \/ w = Value(Append(s, NoValue), next)
<1> DEFINE one == DecodeOne(b, n)   w == WithElement(one, a, n)
<1>1. a.out = "value" /\ a.val = s /\ a.next = next /\ next \in Nat /\ n \in Nat
  BY DEF Value, LeftOver
<1>2. CASE next >= n
  <2>1. w = Outcome("panic") \/ w = Outcome("error")
    BY <1>1, <1>2 DEF WithElement
  <2> HIDE DEF w
  <2> QED
    BY <2>1 DEF Outcome, w
<1>3. CASE next < n
  <2>1. next \in 0 .. n - 1 /\ b[next + 1] \in Digits
    BY <1>1, <1>3 DEF LeftOver
  <2>2. one[next] = Outcome("unknown")
    BY <2>1, DigitUnknown
  <2>3. one[next].out = "unknown" /\ one[next].val = NoValue
    BY <2>2 DEF Outcome
  <2>4. ~(next > n) /\ next # n
    BY <1>1, <1>3
  <2> HIDE DEF one
  <2>5. w = Value(Append(s, NoValue), next)
    BY <1>1, <2>3, <2>4 DEF WithElement
  <2> QED
    BY <2>5 DEF one
<1> QED
  BY <1>1, <1>2, <1>3

\* An encoded string, of which a read may have got only a part, as an element.
LEMMA ElementCut ==
  ASSUME NEW b \in Seq(Nat), NEW n \in 0 .. Len(b), NEW q \in 0 .. n, NEW t \in Seq(Nat),
         Cut(b, q, n, encodeString(t)), Blank(b, n), NEW s, NEW a, a = Value(s, q)
  PROVE  LET w == WithElement(DecodeOne(b, n), a, n)
             to == q + Len(encodeString(t))
         IN \/ w.out \in {"panic", "error"}
            \/ to <= n /\ w = Value(Append(s, Str(t)), to)
            \/ \E u, next : /\ w = Value(Append(s, Str(u)), next)
                            /\ SpoiltToken(u, t) /\ LeftOver(b, n, next)
<1> DEFINE one == DecodeOne(b, n)   w == WithElement(one, a, n)   e == encodeString(t)
           to == q + Len(e)
<1>1. a.out = "value" /\ a.val = s /\ a.next = q /\ n \in Nat /\ q \in Nat
  BY DEF Value
<1>2. e \in Seq(Nat) /\ Len(e) \in Nat
  <2> DEFINE c == <<t>>
  <2>1. c \in Seq(Seq(Nat)) /\ Len(c) = 1 /\ c[1] = t
    OBVIOUS
  <2> HIDE DEF c, e
  <2> DEFINE seqs == [i \in DOMAIN c |-> encodeString(c[i])]
  <2>2. seqs \in Seq(Seq(Nat)) /\ Len(seqs) = Len(c) /\ \A i \in 1 .. Len(c) : seqs[i] = encodeString(c[i])
    BY <2>1, EncodedParts
  <2> HIDE DEF seqs
  <2>3. seqs[1] \in Seq(Nat) /\ seqs[1] = e
    <3> DEFINE S == Seq(Nat)
    <3>1. seqs \in Seq(S) /\ 1 \in 1 .. Len(seqs) /\ 1 \in 1 .. Len(c)
      BY <2>1, <2>2
    <3>2. seqs[1] = e
      BY <3>1, <2>1, <2>2 DEF e
    <3> HIDE DEF S
    <3>3. seqs[1] \in S
      BY ONLY <3>1, ElementOfSeq
    <3> QED
      BY <3>2, <3>3 DEF S
  <2> QED
    BY <2>3, LenProperties
<1>3. CASE q = n
  <2>1. w = Outcome("error")
    BY <1>1, <1>3 DEF WithElement
  <2> HIDE DEF w
  <2> QED
    BY <2>1 DEF Outcome, w
<1>4. ASSUME q # n, NEW v, NEW next, one[q] = Value(v, next) PROVE w = Value(Append(s, v), next)
  <2>1. one[q].out = "value" /\ one[q].val = v /\ one[q].next = next
    BY <1>4 DEF Value
  <2> HIDE DEF one
  <2> QED
    BY <2>1, <1>1, <1>4 DEF WithElement
<1>5. CASE q # n /\ to <= n
  <2>1. Holds(b, q, n, e)
    BY <1>1, <1>2, <1>5, CutHolds
  <2>2. one[q] = Value(Str(t), to)
    BY <2>1, <1>1, BulkStands
  <2>3. w = Value(Append(s, Str(t)), to)
    <3> HIDE DEF to, one, w
    <3> QED
      BY <2>2, <1>4, <1>5
  <2> QED
    BY <2>3, <1>5
<1>6. CASE q # n /\ ~(to <= n)
  <2>1. q \in 0 .. n - 1 /\ to > n
    BY <1>1, <1>2, <1>6
  <2>2. \/ one[q] = Outcome("panic")
        \/ \E u, next : one[q] = Value(Str(u), next) /\ SpoiltToken(u, t) /\ LeftOver(b, n, next)
    BY <2>1, BulkSpoilt
  <2>3. CASE one[q] = Outcome("panic")
    <3>1. one[q].out = "panic"
      BY <2>3 DEF Outcome
    <3> HIDE DEF one
    <3>2. w = one[q]
      BY <1>1, <1>6, <3>1 DEF WithElement
    <3> QED
      BY <3>1, <3>2 DEF one
  <2>4. CASE \E u, next : one[q] = Value(Str(u), next) /\ SpoiltToken(u, t) /\ LeftOver(b, n, next)
    <3>1. PICK u, next : one[q] = Value(Str(u), next) /\ SpoiltToken(u, t) /\ LeftOver(b, n, next)
      BY <2>4
    <3> DEFINE v == Str(u)
    <3>2. w = Value(Append(s, v), next)
      <4>1. one[q] = Value(v, next)
        BY <3>1
      <4> HIDE DEF v, w, one
      <4> QED
        BY <4>1, <1>4, <1>6
    <3> QED
      BY <3>1, <3>2
  <2> QED
    BY <2>2, <2>3, <2>4
<1> QED
  BY <1>3, <1>5, <1>6

\* What the elements of an array come to when a read cuts them off: nothing, a
\* hole where an element should be, or the tokens with the last one spoilt.
LEMMA ElementsCut ==
  ASSUME NEW b \in Seq(Nat), NEW n \in 0 .. Len(b), NEW p \in Nat, NEW c \in Seq(Seq(Nat)),
         c # <<>>,
         NEW seqs \in Seq(Seq(Nat)), Len(seqs) = Len(c),
         \A i \in 1 .. Len(c) : seqs[i] = encodeString(c[i]),
         NEW f \in [0 .. Len(seqs) -> Seq(Nat)], Joins(f, seqs),
         Cut(b, p, n, f[Len(seqs)]), p + Len(f[Len(seqs)]) > n, Blank(b, n)
  PROVE  LET a == Elements(DecodeOne(b, n), [length |-> Len(c), next |-> p], n)
         IN \/ a.out \in {"panic", "error"}
            \/ \E e, next : a = Value(e, next) /\ \E j \in DOMAIN e : e[j] = NoValue
            \/ \E u, next : /\ a = Value(Append([j \in 1 .. Len(c) - 1 |-> Str(c[j])], Str(u)), next)
                            /\ SpoiltToken(u, c[Len(c)]) /\ LeftOver(b, n, next)
<1> DEFINE one == DecodeOne(b, n)
           m == Len(c)
           read(i) == [j \in 1 .. i |-> Str(c[j])]
           r == [length |-> m, next |-> p]
<1>1. m \in Nat \ {0} /\ n \in Nat /\ \A i \in 1 .. m : c[i] \in Seq(Nat)
  BY EmptySeq, ElementOfSeq
<1>2. /\ Len(f[0]) = 0 /\ \A i \in 0 .. m : Len(f[i]) \in Nat
      /\ \A i \in 1 .. m : /\ Len(f[i]) = Len(f[i - 1]) + Len(seqs[i])
                           /\ Cut(b, p + Len(f[i - 1]), n, seqs[i])
  <2>1. /\ n \in Nat /\ p \in Nat /\ seqs \in Seq(Seq(Nat))
        /\ f \in [0 .. Len(seqs) -> Seq(Nat)] /\ Joins(f, seqs) /\ Cut(b, p, n, f[Len(seqs)])
    BY <1>1
  <2>2. /\ Len(f[0]) = 0 /\ \A i \in 0 .. Len(seqs) : Len(f[i]) \in Nat
        /\ \A i \in 1 .. Len(seqs) : /\ Len(f[i]) = Len(f[i - 1]) + Len(seqs[i])
                                     /\ Cut(b, p + Len(f[i - 1]), n, seqs[i])
    BY ONLY <2>1, CutJoins
  <2>3. Len(seqs) = m
    OBVIOUS
  <2> HIDE DEF m
  <2> QED
    BY ONLY <2>2, <2>3
<1>3. PICK g : Reads(g, one, Value(<<>>, p), n, m)
  BY <1>1, ReadsExist
<1>4. g[0] = Value(<<>>, p) /\ \A i \in 1 .. m : g[i] = WithElement(one, g[i - 1], n)
  <2> DEFINE v == Value(<<>>, p)
  <2> HIDE DEF v, m, one
  <2>1. g = [i \in 0 .. m |-> IF i = 0 THEN v ELSE WithElement(one, g[i - 1], n)]
    BY <1>3 DEF Reads, v
  <2>2. 0 \in 0 .. m /\ \A i \in 1 .. m : i \in 0 .. m /\ i # 0
    BY <1>1
  <2>3. g[0] = v
    BY ONLY <2>1, <2>2
  <2>4. \A i \in 1 .. m : g[i] = WithElement(one, g[i - 1], n)
    BY ONLY <2>1, <2>2
  <2> QED
    BY <2>3, <2>4 DEF v
<1> DEFINE T == {Str(t) : t \in Seq(Nat)} \cup {NoValue}
           whole(i) == p + Len(f[i]) <= n /\ g[i] = Value(read(i), p + Len(f[i]))
           over(i) == i = 0 /\ g[i] = Value(<<>>, p) /\ p > n
           failed(i) == g[i].out \in {"panic", "error"}
           holed(i) == \E s \in Seq(T) : \E next : /\ g[i] = Value(s, next) /\ LeftOver(b, n, next)
                                                   /\ \E j \in 1 .. Len(s) : s[j] = NoValue
           spoilt(i) == i # 0 /\ \E u, next : /\ g[i] = Value(Append(read(i - 1), Str(u)), next)
                                              /\ SpoiltToken(u, c[i]) /\ LeftOver(b, n, next)
           any(i) == whole(i) \/ over(i) \/ failed(i) \/ holed(i) \/ spoilt(i)
<1>5. any(0)
  <2>1. read(0) = <<>> /\ p + Len(f[0]) = p
    BY <1>2
  <2> QED
    BY <2>1, <1>1, <1>4
<1>6. ASSUME NEW i \in Nat, i + 1 <= m, any(i) PROVE any(i + 1)
  <2> DEFINE a == g[i]   k == i + 1   w == g[k]
  <2>1. k \in 1 .. m /\ k - 1 = i /\ i \in 0 .. m /\ k # 0
    <3>1. i + 1 <= m /\ m \in Nat /\ i \in Nat
      BY <1>1, <1>6, ZenonT(60)
    <3> HIDE DEF m
    <3> QED
      BY ONLY <3>1
  <2>2. w = WithElement(one, a, n)
    BY <1>4, <2>1
  <2>3. ASSUME NEW s \in Seq(T), NEW next, a = Value(s, next), LeftOver(b, n, next)
        PROVE  failed(k) \/ holed(k)
    <3> DEFINE s2 == Append(s, NoValue)
    <3>1. /\ s2 \in Seq(T) /\ Len(s2) = Len(s) + 1 /\ Len(s) \in Nat /\ s2[Len(s) + 1] = NoValue
      <4> DEFINE v == NoValue
      <4>1. v \in T
        OBVIOUS
      <4> HIDE DEF T, v
      <4> QED
        BY <4>1, AppendTypes, LenProperties DEF v
    <3>2. Len(s2) \in 1 .. Len(s2) /\ s2[Len(s2)] = NoValue
      BY <3>1
    <3>3. w.out \in {"panic", "error"} \/ w = Value(s2, next)
      BY <2>2, <2>3, HoleAfter
    <3> HIDE DEF s2, w, T
    <3> QED
      BY <3>1, <3>2, <3>3, <2>3 DEF w
  <2>4. CASE whole(i)
    <3> DEFINE q == p + Len(f[i])   t == c[k]   s == read(i)   e == encodeString(t)
    <3>1. q \in 0 .. n /\ t \in Seq(Nat) /\ Cut(b, q, n, e) /\ p + Len(f[k]) = q + Len(e)
      <4>1. Len(f[i]) \in Nat /\ Len(f[k]) = Len(f[k - 1]) + Len(seqs[k]) /\ seqs[k] = e
        BY <2>1, <1>2
      <4>2. Len(f[k]) \in Nat /\ Cut(b, p + Len(f[k - 1]), n, seqs[k]) /\ t \in Seq(Nat)
        <5>1. k \in 1 .. m /\ k \in 0 .. m
          BY <2>1
        <5> HIDE DEF k
        <5>2. Len(f[k]) \in Nat
          BY <5>1, <1>2
        <5>3. Cut(b, p + Len(f[k - 1]), n, seqs[k])
          BY <5>1, <1>2
        <5> QED
          BY <5>1, <5>2, <5>3, <1>1
      <4>3. Len(seqs[k]) \in Nat
        <5> DEFINE S == Seq(Nat)
        <5>1. seqs \in Seq(S) /\ k \in 1 .. Len(seqs)
          BY <2>1
        <5> HIDE DEF S, k
        <5>2. seqs[k] \in S
          BY ONLY <5>1, ElementOfSeq
        <5> QED
          BY <5>2, LenProperties DEF S
      <4> DEFINE x == Len(f[i])   y == Len(f[k])   z == Len(seqs[k])
      <4>4. x \in Nat /\ y \in Nat /\ z \in Nat /\ y = x + z /\ p + x <= n /\ q = p + x
        BY <4>1, <4>2, <4>3, <2>1, <2>4
      <4> HIDE DEF x, y, z, q
      <4>5. q \in 0 .. n /\ p + y = q + z
        BY <4>4, <1>1
      <4> QED
        BY <4>1, <4>2, <4>5, <2>1 DEF q, y, z
    <3>2. Append(s, Str(t)) = read(k)
      <4>1. i \in Nat /\ i + 1 <= Len(c) /\ c \in Seq(Seq(Nat))
        BY <1>6
      <4>2. Append([j \in 1 .. i |-> Str(c[j])], Str(c[i + 1])) = [j \in 1 .. i + 1 |-> Str(c[j])]
        BY ONLY <4>1, OneMore
      <4> QED
        BY <4>2
    <3>3. a = Value(s, q)
      BY <2>4
    <3> HIDE DEF a, q, t, s, e
    <3>4. \/ w.out \in {"panic", "error"}
          \/ q + Len(e) <= n /\ w = Value(Append(s, Str(t)), q + Len(e))
          \/ \E u, next : /\ w = Value(Append(s, Str(u)), next)
                          /\ SpoiltToken(u, t) /\ LeftOver(b, n, next)
      <4> HIDE DEF one, w
      <4>1. Cut(b, q, n, encodeString(t)) /\ q \in 0 .. n /\ t \in Seq(Nat)
        BY <3>1 DEF e
      <4>2. w = WithElement(DecodeOne(b, n), a, n)
        BY <2>2 DEF one
      <4> QED
        BY <4>1, <4>2, <3>3, ElementCut DEF e
    <3>5. CASE w.out \in {"panic", "error"}
      BY <3>5
    <3>6. CASE q + Len(e) <= n /\ w = Value(Append(s, Str(t)), q + Len(e))
      <4>1. whole(k)
        BY <3>1, <3>2, <3>6
      <4> HIDE DEF whole
      <4> QED
        BY <4>1
    <3>7. CASE \E u, next : /\ w = Value(Append(s, Str(u)), next)
                            /\ SpoiltToken(u, t) /\ LeftOver(b, n, next)
      <4>1. spoilt(k)
        BY <2>1, <3>7 DEF s, t
      <4> HIDE DEF spoilt
      <4> QED
        BY <4>1
    <3> HIDE DEF w, any
    <3> QED
      BY <3>4, <3>5, <3>6, <3>7
  <2>5. CASE over(i)
    <3>1. a.out = "value" /\ a.next = p /\ p > n
      BY <2>5 DEF Value
    <3> HIDE DEF a, w
    <3>2. w = Outcome("panic")
      BY <2>2, <3>1 DEF WithElement
    <3>3. w.out = "panic"
      BY <3>2 DEF Outcome
    <3>4. failed(k)
      BY <3>3 DEF w
    <3> HIDE DEF failed
    <3> QED
      BY <3>4
  <2>6. CASE failed(i)
    <3> HIDE DEF w
    <3>1. w = a /\ a.out \in {"panic", "error"}
      BY <2>2, <2>6 DEF WithElement
    <3>2. failed(k)
      BY <3>1 DEF w
    <3> HIDE DEF failed
    <3> QED
      BY <3>2
  <2>7. CASE holed(i)
    <3> HIDE DEF T, w
    <3>0. PICK s \in Seq(T) : \E next : a = Value(s, next) /\ LeftOver(b, n, next)
      BY <2>7
    <3>1. PICK next : a = Value(s, next) /\ LeftOver(b, n, next)
      BY <3>0
    <3>2. failed(k) \/ holed(k)
      <4> HIDE DEF failed, holed, a
      <4> QED
        BY <3>1, <2>3
    <3> HIDE DEF failed, holed
    <3> QED
      BY <3>2
  <2>8. CASE spoilt(i)
    <3>1. PICK u, next : /\ a = Value(Append(read(i - 1), Str(u)), next)
                         /\ SpoiltToken(u, c[i]) /\ LeftOver(b, n, next) /\ i # 0
      BY <2>8
    <3> DEFINE s == read(i - 1)   v == Str(u)   s2 == Append(s, v)
    <3>2. s2 \in Seq(T)
      <4>1. i - 1 \in Nat /\ \A j \in 1 .. i - 1 : j \in 1 .. m
        BY <3>1, <2>1
      <4>2. u \in Seq(Nat)
        BY <3>1 DEF SpoiltToken
      <4>3. v \in T /\ \A j \in 1 .. i - 1 : Str(c[j]) \in T
        BY <4>1, <4>2, <1>1
      <4> HIDE DEF T, v
      <4>4. s \in Seq(T)
        BY <4>1, <4>3, IsASeq
      <4> HIDE DEF s
      <4> QED
        BY <4>3, <4>4, AppendTypes
    <3>3. failed(k) \/ holed(k)
      <4>1. a = Value(s2, next)
        BY <3>1
      <4> HIDE DEF failed, holed, a, s2, T
      <4> QED
        BY <4>1, <3>1, <3>2, <2>3
    <3> HIDE DEF failed, holed
    <3> QED
      BY <3>3
  <2> HIDE DEF whole, over, failed, holed, spoilt
  <2> QED
    BY <1>6, <2>4, <2>5, <2>6, <2>7, <2>8
<1>7. any(m)
  <2> HIDE DEF any
  <2> DEFINE K == {i \in Nat : i <= m => any(i)}
  <2>1. 0 \in K
    BY <1>5
  <2>2. \A i \in Nat : i \in K => i + 1 \in K
    <3>1. m \in Nat /\ \A i \in Nat : i + 1 <= m /\ any(i) => any(i + 1)
      BY <1>1, <1>6
    <3> HIDE DEF m
    <3> QED
      BY ONLY <3>1
  <2>3. m \in K
    <3> HIDE DEF K
    <3> QED
      BY <1>1, <2>1, <2>2, NatInSet
  <2> QED
    BY <2>3, <1>1
<1>8. Elements(one, r, n) = g[m]
  <2>1. r.length = m /\ r.next = p
    OBVIOUS
  <2> HIDE DEF r, one
  <2>2. r.length \in Nat /\ Reads(g, one, Value(<<>>, r.next), n, r.length)
    BY <1>1, <1>3, <2>1
  <2>3. Elements(one, r, n) = g[r.length]
    BY ONLY <2>2, ElementsAre
  <2> QED
    BY <2>1, <2>3
<1>9. failed(m) \/ holed(m) \/ spoilt(m)
  <2>1. ~whole(m) /\ ~over(m)
    <3>1. p + Len(f[m]) > n /\ Len(f[m]) \in Nat /\ m # 0
      BY <1>1, <1>2
    <3> QED
      BY <3>1, <1>1
  <2> HIDE DEF whole, over, failed, holed, spoilt
  <2> QED
    BY <1>7, <2>1
<1> DEFINE a == Elements(one, r, n)
<1>10. ASSUME holed(m)
       PROVE  \E e, next : a = Value(e, next) /\ \E j \in DOMAIN e : e[j] = NoValue
  <2> HIDE DEF T
  <2>0. PICK s \in Seq(T) : \E next : a = Value(s, next) /\ \E j \in 1 .. Len(s) : s[j] = NoValue
    BY <1>8, <1>10
  <2>1. PICK next : a = Value(s, next) /\ \E j \in 1 .. Len(s) : s[j] = NoValue
    BY <2>0
  <2>2. DOMAIN s = 1 .. Len(s)
    BY LenProperties
  <2> HIDE DEF a
  <2> QED
    BY <2>1, <2>2
<1>11. ASSUME spoilt(m)
       PROVE  \E u, next : /\ a = Value(Append([j \in 1 .. Len(c) - 1 |-> Str(c[j])], Str(u)), next)
                           /\ SpoiltToken(u, c[Len(c)]) /\ LeftOver(b, n, next)
  BY <1>8, <1>11
<1> HIDE DEF holed, spoilt, r, one
<1> QED
  BY <1>8, <1>9, <1>10, <1>11 DEF r, one

\* The command that is left of one whose last token is spoilt.
LEMMA SpoilsIs ==
  ASSUME NEW c \in Seq(Seq(Nat)), c # <<>>, NEW u, SpoiltToken(u, c[Len(c)])
  PROVE  \E e \in Seq(Seq(Nat)) :
           /\ Spoils(e, c)
           /\ Tokens(e) = Append([j \in 1 .. Len(c) - 1 |-> Str(c[j])], Str(u))
<1> DEFINE m == Len(c)   e == [c EXCEPT ![m] = u]   T == Seq(Nat)
<1>1. /\ m \in Nat \ {0} /\ u \in T /\ c \in Seq(T) /\ m \in 1 .. m
      /\ u = <<>> \/ Padded(u, c[m])
  BY EmptySeq DEF SpoiltToken
<1> HIDE DEF T
<1>2. /\ e \in Seq(T) /\ Len(e) = m
      /\ \A j \in 1 .. m : e[j] = IF j = m THEN u ELSE c[j]
  BY <1>1, ExceptSeq
<1> HIDE DEF e
<1>3. e[m] = u /\ \A j \in 1 .. m - 1 : e[j] = c[j]
  BY <1>1, <1>2
<1>4. Front(e) = Front(c)
  <2> DEFINE x == SubSeq(e, 1, m - 1)   y == SubSeq(c, 1, m - 1)
  <2>1. m - 1 \in Int /\ 1 \in Int /\ (m - 1) - 1 + 1 = m - 1 /\ \A j \in 1 .. m - 1 : j \in 1 .. m /\ 1 + j - 1 = j
    BY <1>1
  <2>2. \A j \in 1 .. m - 1 : e[j] \in T /\ c[j] \in T
    BY <1>1, <1>2, <2>1, ElementOfSeq
  <2>3. /\ x \in Seq(T) /\ Len(x) = (IF 1 <= m - 1 THEN (m - 1) - 1 + 1 ELSE 0)
        /\ \A j \in 1 .. (m - 1) - 1 + 1 : x[j] = e[1 + j - 1]
    BY <2>1, <2>2, SubSeqProperties
  <2>4. /\ y \in Seq(T) /\ Len(y) = (IF 1 <= m - 1 THEN (m - 1) - 1 + 1 ELSE 0)
        /\ \A j \in 1 .. (m - 1) - 1 + 1 : y[j] = c[1 + j - 1]
    BY <2>1, <2>2, SubSeqProperties
  <2> HIDE DEF x, y
  <2>5. Len(x) = m - 1 /\ Len(y) = m - 1
    <3>1. m \in Nat \ {0}
      BY <1>1
    <3> HIDE DEF m
    <3>2. (IF 1 <= m - 1 THEN (m - 1) - 1 + 1 ELSE 0) = m - 1
      BY <3>1, SMTT(60)
    <3> QED
      BY ONLY <2>3, <2>4, <3>2
  <2>6. \A j \in 1 .. m - 1 : x[j] = y[j]
    BY <1>3, <2>1, <2>3, <2>4
  <2>7. x = y
    BY <2>3, <2>4, <2>5, <2>6, SeqEqual
  <2> QED
    BY <1>2, <2>7 DEF Front, x, y
<1>5. Last(e) = u /\ Last(c) = c[m]
  BY <1>2, <1>3 DEF Last
<1>6. Spoils(e, c)
  BY <1>1, <1>2, <1>4, <1>5 DEF Spoils, Padded
<1>7. Tokens(e) = Append([j \in 1 .. m - 1 |-> Str(c[j])], Str(u))
  <2>1. e \in Seq(Seq(Nat)) /\ m - 1 \in Nat /\ (m - 1) + 1 <= Len(e) /\ (m - 1) + 1 = m
    BY <1>1, <1>2 DEF T
  <2> DEFINE i == m - 1
  <2>2. e \in Seq(Seq(Nat)) /\ i \in Nat /\ i + 1 <= Len(e) /\ i + 1 = m
    BY <2>1
  <2> HIDE DEF i, m
  <2>3. Append([j \in 1 .. i |-> Str(e[j])], Str(e[i + 1])) = [j \in 1 .. i + 1 |-> Str(e[j])]
    BY ONLY <2>2, OneMore
  <2>4. [j \in 1 .. i |-> Str(e[j])] = [j \in 1 .. i |-> Str(c[j])]
    BY <1>3 DEF i
  <2> QED
    BY <1>2, <1>3, <2>2, <2>3, <2>4 DEF Tokens, i
<1> QED
  BY <1>2, <1>6, <1>7 DEF m, T

\* What becomes of an encoded command that a read cuts off.
LEMMA CommandCut ==
  ASSUME NEW b \in Seq(Nat), NEW n \in 0 .. Len(b), NEW p \in 0 .. n - 1, NEW c \in Seq(Seq(Nat)),
         c # <<>>, Cut(b, p, n, EncodeStrings(c)), p + Len(EncodeStrings(c)) > n, Blank(b, n)
  PROVE  LET v == DecodeOne(b, n)[p]
         IN \/ v.out \in {"panic", "error"}
            \/ v.out = "value" /\ NoCommandIn(v.val)
            \/ \E e \in Seq(Seq(Nat)) : \E next :
                 v = Value(Arr(Tokens(e)), next) /\ Spoils(e, c) /\ LeftOver(b, n, next)
<1> DEFINE one == DecodeOne(b, n)
           d == Decimal[Len(c)]
           x == <<Star>>
           u == x \o d
           v == u \o CRLF
           seqs == [i \in DOMAIN c |-> encodeString(c[i])]
           z == FlattenSeq(seqs)
           r == readLength(b, p + 1, n)
<1>1. /\ d \in Seq(Nat) /\ Len(d) \in Nat \ {0} /\ Len(c) \in Nat /\ n \in Nat /\ p \in Nat /\ p < n
      /\ CRLF \in Seq(Nat) /\ Len(CRLF) = 2 /\ x \in Seq(Nat) /\ Len(x) = 1 /\ x[1] = Star
  BY DecimalReads, DigitsAreNat DEF Star, CRLF, CR, LF
<1>2. /\ seqs \in Seq(Seq(Nat)) /\ Len(seqs) = Len(c)
      /\ \A i \in 1 .. Len(c) : seqs[i] = encodeString(c[i])
  BY EncodedParts
<1>3. EncodeStrings(c) = v \o z
  BY DEF EncodeStrings
<1> HIDE DEF seqs, d, x
<1>4. PICK f \in [0 .. Len(seqs) -> Seq(Nat)] : Joins(f, seqs)
  BY <1>2, JoinsExist
<1>5. z = f[Len(seqs)] /\ z \in Seq(Nat)
  <2>1. /\ seqs \in Seq(Seq(Nat)) /\ f \in [0 .. Len(seqs) -> Seq(Nat)] /\ Joins(f, seqs)
        /\ Len(seqs) \in 0 .. Len(seqs)
    BY <1>1, <1>2, <1>4
  <2>2. FlattenSeq(seqs) = f[Len(seqs)]
    BY ONLY <2>1, FlattenIs
  <2> QED
    BY <2>1, <2>2
<1> HIDE DEF z
<1>6. u \in Seq(Nat) /\ v \in Seq(Nat)
  <2>1. u \in Seq(Nat)
    BY <1>1, ConcatProperties
  <2> HIDE DEF u
  <2>2. v \in Seq(Nat)
    BY <1>1, <2>1, ConcatProperties
  <2> QED
    BY <2>1, <2>2
<1>7. Cut(b, p, n, v) /\ Cut(b, p + Len(v), n, z) /\ Len(EncodeStrings(c)) = Len(v) + Len(z)
  <2>1. v \in Seq(Nat) /\ z \in Seq(Nat) /\ n \in Nat /\ p \in Nat
    BY <1>1, <1>5, <1>6
  <2>2. Cut(b, p, n, v \o z)
    BY <1>3
  <2> HIDE DEF v
  <2>3. Cut(b, p, n, v) /\ Cut(b, p + Len(v), n, z) /\ Len(v \o z) = Len(v) + Len(z)
    BY ONLY <2>1, <2>2, CutParts
  <2> QED
    BY <2>3, <1>3
<1>8. Cut(b, p, n, u) /\ Cut(b, p + Len(u), n, CRLF) /\ Len(v) = Len(u) + Len(CRLF)
  <2>1. u \in Seq(Nat) /\ CRLF \in Seq(Nat) /\ n \in Nat /\ p \in Nat
    BY <1>1, <1>6
  <2> HIDE DEF u
  <2> QED
    BY ONLY <2>1, <1>7, CutParts
<1>9. Cut(b, p, n, x) /\ Cut(b, p + Len(x), n, d) /\ Len(u) = Len(x) + Len(d)
  <2>1. x \in Seq(Nat) /\ d \in Seq(Nat) /\ n \in Nat /\ p \in Nat
    BY <1>1
  <2> QED
    BY ONLY <2>1, <1>8, CutParts
<1> HIDE DEF u, v
<1>10. b[p + 1] = Star
  <2>1. 1 \in 1 .. Len(x) /\ p + 1 <= n
    BY <1>1
  <2> QED
    BY <2>1, <1>1, <1>9 DEF Cut
<1>11. one[p] = ArrayOf(Elements(one, r, n))
  <2>1. one[p] = DecodeAt(b, p, n, one)
    BY DecodeOneIs
  <2>2. Star \notin {Plus, Minus} /\ Star # Colon /\ Dollar # Star
    BY DEF Dollar, Plus, Minus, Colon, Star
  <2> HIDE DEF one
  <2>3. DecodeAt(b, p, n, one) = readArray(b, p, n, one)
    BY <1>10, <2>2 DEF DecodeAt
  <2> QED
    BY <2>1, <2>3 DEF readArray
<1> DEFINE m == p + 1   q == p + Len(v)
<1>12. /\ m \in 0 .. n /\ m \in Nat /\ p + Len(x) = m /\ p + Len(u) = m + Len(d) /\ q = m + Len(d) + 2 /\ q \in Nat
       /\ p + Len(EncodeStrings(c)) = q + Len(z)
  <2>1. Len(z) \in Nat
    BY <1>5, LenProperties
  <2> QED
    BY <2>1, <1>1, <1>7, <1>8, <1>9
<1>13. /\ n <= m + Len(d) => r = [length |-> 0, next |-> m]
       /\ n > m + Len(d) => r = [length |-> Len(c), next |-> q]
  <2> DEFINE k == Len(c)
  <2>1. Cut(b, m, n, Decimal[k]) /\ Cut(b, m + Len(Decimal[k]), n, CRLF)
    BY <1>8, <1>9, <1>12 DEF d
  <2>2. k \in Nat /\ m \in 0 .. n /\ b \in Seq(Nat) /\ n \in 0 .. Len(b)
    BY <1>1, <1>12
  <2>3. q = m + Len(Decimal[k]) + 2
    BY <1>12 DEF d
  <2> HIDE DEF k, m, q
  <2>4. /\ n <= m + Len(Decimal[k]) => /\ readLength(b, m, n) = [length |-> 0, next |-> m]
                                       /\ \A i \in m .. n - 1 : b[i + 1] \in Digits
        /\ n > m + Len(Decimal[k]) => readLength(b, m, n) = [length |-> k, next |-> m + Len(Decimal[k]) + 2]
    BY ONLY <2>1, <2>2, LengthCut
  <2> QED
    BY <2>3, <2>4 DEF k, m, d
<1> DEFINE a == Elements(one, r, n)
<1>14. CASE n <= m + Len(d)
  <2> DEFINE w == Value(<<>>, r.next)   e == <<>>
  <2>1. r.length = 0
    BY <1>13, <1>14
  <2>2. PICK g : Reads(g, one, w, n, 0)
    BY ReadsExist
  <2> HIDE DEF r, one, w
  <2>3. g[0] = w
    BY <2>2 DEF Reads
  <2>4. a = w
    <3>1. r.length \in Nat /\ Reads(g, one, Value(<<>>, r.next), n, r.length)
      BY <2>1, <2>2 DEF w
    <3>2. Elements(one, r, n) = g[r.length]
      BY ONLY <3>1, ElementsAre
    <3> QED
      BY <2>1, <2>3, <3>2
  <2> HIDE DEF a
  <2>5. ArrayOf(a) = Value(Arr(e), r.next)
    BY <2>4 DEF ArrayOf, Value, w
  <2>6. NoCommandIn(Arr(e)) /\ one[p].out = "value" /\ one[p].val = Arr(e)
    BY <1>11, <2>5 DEF NoCommandIn, Arr, Value, a
  <2> QED
    BY <2>6 DEF one
<1>15. CASE n > m + Len(d)
  <2>1. r = [length |-> Len(c), next |-> q]
    BY <1>13, <1>15
  <2> DEFINE row == [j \in 1 .. Len(c) - 1 |-> Str(c[j])]
  <2>2. \/ a.out \in {"panic", "error"}
        \/ \E e, next : a = Value(e, next) /\ \E j \in DOMAIN e : e[j] = NoValue
        \/ \E t, next : /\ a = Value(Append(row, Str(t)), next)
                        /\ SpoiltToken(t, c[Len(c)]) /\ LeftOver(b, n, next)
    <3>1. Cut(b, q, n, f[Len(seqs)]) /\ q + Len(f[Len(seqs)]) > n /\ q \in Nat
      BY <1>5, <1>7, <1>12
    <3> HIDE DEF q, r
    <3>2. /\ b \in Seq(Nat) /\ n \in 0 .. Len(b) /\ c \in Seq(Seq(Nat)) /\ c # <<>> /\ Blank(b, n)
          /\ f \in [0 .. Len(seqs) -> Seq(Nat)] /\ Joins(f, seqs)
      BY <1>4
    <3>3. LET w == Elements(DecodeOne(b, n), [length |-> Len(c), next |-> q], n)
          IN \/ w.out \in {"panic", "error"}
             \/ \E e, next : w = Value(e, next) /\ \E j \in DOMAIN e : e[j] = NoValue
             \/ \E t, next : /\ w = Value(Append([j \in 1 .. Len(c) - 1 |-> Str(c[j])], Str(t)), next)
                             /\ SpoiltToken(t, c[Len(c)]) /\ LeftOver(b, n, next)
      BY ONLY <1>2, <3>1, <3>2, ElementsCut
    <3> QED
      BY <3>3, <2>1
  <2> HIDE DEF r, q, row
  <2>3. CASE a.out \in {"panic", "error"}
    <3> HIDE DEF a
    <3>1. ArrayOf(a) = a
      BY <2>3 DEF ArrayOf
    <3>2. one[p] = a
      BY <3>1, <1>11 DEF a
    <3> HIDE DEF one
    <3> QED
      BY <3>2, <2>3 DEF one
  <2>4. ASSUME NEW e, NEW next, a = Value(e, next) PROVE one[p] = Value(Arr(e), next)
    <3> HIDE DEF a
    <3>1. ArrayOf(a) = Value(Arr(e), next)
      BY <2>4 DEF ArrayOf, Value
    <3> QED
      BY <3>1, <1>11 DEF a
  <2>5. CASE \E e, next : a = Value(e, next) /\ \E j \in DOMAIN e : e[j] = NoValue
    <3> HIDE DEF a
    <3>1. PICK e, next : a = Value(e, next) /\ \E j \in DOMAIN e : e[j] = NoValue
      BY <2>5
    <3>2. one[p] = Value(Arr(e), next)
      BY <3>1, <2>4
    <3>3. NoValue \in ToSet(e) /\ NoValue[1] # "string"
      BY <3>1 DEF ToSet, NoValue
    <3>4. NoCommandIn(Arr(e))
      BY <3>3 DEF NoCommandIn, Arr
    <3> HIDE DEF one
    <3>5. one[p].out = "value" /\ one[p].val = Arr(e)
      BY <3>2 DEF Value
    <3> QED
      BY <3>4, <3>5 DEF one
  <2>6. CASE \E t, next : /\ a = Value(Append(row, Str(t)), next)
                          /\ SpoiltToken(t, c[Len(c)]) /\ LeftOver(b, n, next)
    <3> HIDE DEF a
    <3>1. PICK t, next : /\ a = Value(Append(row, Str(t)), next)
                         /\ SpoiltToken(t, c[Len(c)]) /\ LeftOver(b, n, next)
      BY <2>6
    <3>2. PICK e \in Seq(Seq(Nat)) : Spoils(e, c) /\ Tokens(e) = Append(row, Str(t))
      BY <3>1, SpoilsIs DEF row
    <3>3. one[p] = Value(Arr(Tokens(e)), next)
      BY <3>1, <3>2, <2>4
    <3> HIDE DEF one
    <3> QED
      BY <3>1, <3>2, <3>3 DEF one
  <2> QED
    BY <2>2, <2>3, <2>5, <2>6
<1>16. n <= m + Len(d) \/ n > m + Len(d)
  <2> DEFINE y == m + Len(d)
  <2>1. y \in Nat /\ n \in Nat
    BY <1>1, <1>12
  <2> HIDE DEF y
  <2> QED
    BY <2>1
<1> HIDE DEF m, d, one
<1> QED
  BY <1>14, <1>15, <1>16 DEF one

\* What is read from a command on that a read cuts off: no values, or a first one
\* that is no command, or that command alone with its last token spoilt.
LEMMA CutTail ==
  ASSUME NEW b \in Seq(Nat), NEW n \in 0 .. Len(b), NEW p \in 0 .. n - 1, NEW c \in Seq(Seq(Nat)),
         c # <<>>, Cut(b, p, n, EncodeStrings(c)), p + Len(EncodeStrings(c)) > n, Blank(b, n)
  PROVE  LET a == Values(DecodeOne(b, n), n)[p]
         IN a.out = "value" =>
              \/ 1 \in 1 .. Len(a.val) /\ NoCommandIn(a.val[1])
              \/ \E e \in Seq(Seq(Nat)) : Spoils(e, c) /\ a.val = <<Arr(Tokens(e))>>
<1> DEFINE one == DecodeOne(b, n)   all == Values(one, n)   a == all[p]   v == one[p]
<1>1. n \in Nat /\ Advances(one, 0, n)
  BY DecodeOneIs
<1>2. \/ v.out \in {"panic", "error"}
      \/ v.out = "value" /\ NoCommandIn(v.val)
      \/ \E e \in Seq(Seq(Nat)) : \E next :
           v = Value(Arr(Tokens(e)), next) /\ Spoils(e, c) /\ LeftOver(b, n, next)
  BY CommandCut
<1>3. /\ a.out = "value" => Len(a.val) \in Nat \ {0} /\ a.val[1] = v.val
      /\ v.out # "value" => a.out # "value"
  <2> HIDE DEF one
  <2> DEFINE vals == {one[q].val : q \in 0 .. n - 1}
  <2>1. \A q \in 0 .. n - 1 :
          /\ all[q].out = "value" =>
               /\ all[q] = Value(all[q].val, all[q].next) /\ all[q].val \in Seq(vals)
               /\ Len(all[q].val) \in Nat \ {0} /\ all[q].val[1] = one[q].val
               /\ one[q].out = "value"
          /\ one[q].out # "value" => all[q].out # "value"
    BY ONLY <1>1, ValuesType
  <2> HIDE DEF vals
  <2> HIDE DEF all
  <2> QED
    BY <2>1
<1>4. \A q \in 0 .. n - 1 : all[q] = Onwards(one[q], all, n)
  <2> HIDE DEF one
  <2> QED
    BY <1>1, ValuesAre
<1>5. CASE v.out \in {"panic", "error"}
  BY <1>3, <1>5
<1>6. CASE v.out = "value" /\ NoCommandIn(v.val)
  <2> HIDE DEF a, v
  <2>1. a.out = "value" => 1 \in 1 .. Len(a.val) /\ NoCommandIn(a.val[1])
    BY <1>3, <1>6
  <2> QED
    BY <2>1 DEF a
<1>7. CASE \E e \in Seq(Seq(Nat)) : \E next :
             v = Value(Arr(Tokens(e)), next) /\ Spoils(e, c) /\ LeftOver(b, n, next)
  <2>0. PICK e \in Seq(Seq(Nat)) : \E next :
               v = Value(Arr(Tokens(e)), next) /\ Spoils(e, c) /\ LeftOver(b, n, next)
    BY <1>7
  <2>1. PICK next : v = Value(Arr(Tokens(e)), next) /\ Spoils(e, c) /\ LeftOver(b, n, next)
    BY <2>0
  <2> DEFINE x == Arr(Tokens(e))
  <2>2. v = Value(x, next)
    BY <2>1
  <2> HIDE DEF x, v
  <2>3. v.out = "value" /\ v.val = x /\ v.next = next /\ next \in Nat
    BY <2>1, <2>2 DEF Value, LeftOver
  <2>4. a = Onwards(v, all, n)
    BY <1>4 DEF v
  <2>5. CASE next >= n
    <3>1. a = Value(<<x>>, next)
      BY <2>3, <2>4, <2>5 DEF Onwards
    <3> HIDE DEF a
    <3>2. a.val = <<x>>
      BY <3>1 DEF Value
    <3> QED
      BY <3>2, <2>1 DEF a, x
  <2>6. CASE next < n
    <3>1. next \in 0 .. n - 1 /\ b[next + 1] \in Digits
      BY <1>1, <2>1, <2>3, <2>6 DEF LeftOver
    <3>2. one[next] = Outcome("unknown")
      BY <3>1, DigitUnknown
    <3>3. all[next] = Onwards(one[next], all, n)
      BY <3>1, <1>4
    <3> HIDE DEF one, all
    <3>4. all[next] = Outcome("unknown")
      BY <3>2, <3>3 DEF Onwards, Outcome
    <3>5. all[next].out # "value" /\ ~(v.next >= n)
      BY <3>4, <1>1, <2>3, <2>6 DEF Outcome
    <3>6. a = Before(v, all[next])
      BY <2>3, <2>4, <3>5 DEF Onwards
    <3>7. a.out # "value"
      BY <3>5, <3>6 DEF Before
    <3> QED
      BY <3>7 DEF all, one
  <2> QED
    BY <2>3, <2>5, <2>6, <1>1
<1> QED
  BY <1>2, <1>5, <1>6, <1>7

\* Commands that stand before something else are decoded before it.
LEMMA PrefixDecode ==
  ASSUME NEW b \in Seq(Nat), NEW n \in 0 .. Len(b), NEW cmds \in Seq(Commands),
         NEW ends \in [0 .. Len(cmds) -> Nat], ends[Len(cmds)] < n,
         \A i \in 1 .. Len(cmds) : /\ Holds(b, ends[i - 1], n, Encoded[cmds[i]])
                                   /\ ends[i] = ends[i - 1] + Len(Encoded[cmds[i]])
  PROVE  LET m == Len(cmds)
             one == DecodeOne(b, n)
             all == Values(one, n)
             a == all[ends[m]]
             d == all[ends[0]]
             S == {one[q].val : q \in 0 .. n - 1}
         IN /\ a.out # "value" => d.out # "value"
            /\ a.out = "value" =>
                 /\ d.out = "value" /\ d = Value(d.val, d.next)
                 /\ a.val \in Seq(S) /\ d.val \in Seq(S) /\ Len(d.val) = m + Len(a.val)
                 /\ \A i \in 1 .. m : d.val[i] = Arr(Tokens(cmds[i]))
                 /\ \A i \in 1 .. Len(a.val) : d.val[m + i] = a.val[i]
<1> DEFINE m == Len(cmds)
           one == DecodeOne(b, n)
           all == Values(one, n)
           S == {one[q].val : q \in 0 .. n - 1}
           val(i) == Arr(Tokens(cmds[i]))
           p == ends[m]
           a == all[p]
<1>1. m \in Nat /\ n \in Nat /\ p \in 0 .. n - 1 /\ \A i \in 1 .. m : cmds[i] \in Commands
  <2>1. m \in Nat /\ n \in Nat /\ \A i \in 1 .. m : cmds[i] \in Commands
    BY LenProperties, ElementOfSeq
  <2>2. m \in 0 .. m
    BY <2>1
  <2>3. p \in Nat /\ p < n
    BY <2>2
  <2> QED
    BY <2>1, <2>3
<1>2. ASSUME NEW i \in 1 .. m
      PROVE  ends[i - 1] \in 0 .. n - 1 /\ one[ends[i - 1]] = Value(val(i), ends[i])
  <2> DEFINE c == cmds[i]   q == ends[i - 1]
  <2>1. c \in Commands /\ q \in Nat
    <3>1. i - 1 \in 0 .. Len(cmds)
      BY <1>1
    <3> QED
      BY <3>1, <1>1
  <2>2. Holds(b, q, n, Encoded[c]) /\ ends[i] = q + Len(Encoded[c])
    OBVIOUS
  <2> HIDE DEF c, q
  <2>3. c \in Seq(Seq(Nat)) /\ Encoded[c] = EncodeStrings(c)
    BY <2>1, CommandsAre
  <2>4. Holds(b, q, n, EncodeStrings(c))
    BY <2>2, <2>3
  <2>5. q < n /\ one[q] = Value(Arr(Tokens(c)), q + Len(EncodeStrings(c)))
    <3>1. /\ b \in Seq(Nat) /\ n \in 0 .. Len(b) /\ q \in Nat /\ c \in Seq(Seq(Nat))
          /\ Holds(b, q, n, EncodeStrings(c))
      BY <2>1, <2>3, <2>4
    <3>2. /\ EncodeStrings(c) \in Seq(Nat) /\ Len(EncodeStrings(c)) \in Nat \ {0}
          /\ q + Len(EncodeStrings(c)) <= n /\ q < n
          /\ DecodeOne(b, n)[q] = Value(Arr(Tokens(c)), q + Len(EncodeStrings(c)))
      BY ONLY <3>1, CommandStands
    <3> QED
      BY <3>2
  <2> QED
    BY <2>1, <2>2, <2>3, <2>5, <1>1 DEF c, q
<1>3. Advances(one, 0, n)
  BY DecodeOneIs
<1> HIDE DEF one
<1>4. \A q \in 0 .. n - 1 : all[q] = Onwards(one[q], all, n)
  BY <1>1, <1>3, ValuesAre
<1>5. ASSUME a.out = "value" PROVE a = Value(a.val, a.next) /\ a.val \in Seq(S) /\ Len(a.val) \in Nat
  <2>1. \A q \in 0 .. n - 1 :
          /\ all[q].out = "value" =>
               /\ all[q] = Value(all[q].val, all[q].next) /\ all[q].val \in Seq(S)
               /\ Len(all[q].val) \in Nat \ {0} /\ all[q].val[1] = one[q].val
               /\ one[q].out = "value"
          /\ one[q].out # "value" => all[q].out # "value"
    BY ONLY <1>1, <1>3, ValuesType
  <2> HIDE DEF all, S, p
  <2>2. a = Value(a.val, a.next) /\ a.val \in Seq(S)
    BY <2>1, <1>1, <1>5
  <2> HIDE DEF a
  <2> QED
    BY <2>2, LenProperties
<1>6. \A q \in 0 .. n - 1 : one[q].val \in S
  OBVIOUS
<1>7. \A i \in 1 .. m : ends[i] \in 0 .. n - 1
  <2> SUFFICES ASSUME NEW i \in 1 .. m PROVE ends[i] \in 0 .. n - 1
    OBVIOUS
  <2>1. CASE i = m
    BY <2>1, <1>1
  <2>2. CASE i # m
    <3>1. i + 1 \in 1 .. m /\ (i + 1) - 1 = i
      BY <2>2, <1>1, SMTT(60)
    <3> DEFINE k == i + 1
    <3>2. k \in 1 .. m /\ k - 1 = i
      BY <3>1
    <3> HIDE DEF k, m
    <3>3. ends[k - 1] \in 0 .. n - 1
      BY <3>2, <1>2
    <3> QED
      BY <3>2, <3>3
  <2> QED
    BY <2>1, <2>2
<1> HIDE DEF all, S, p, a
<1> DEFINE right(j) ==
             LET d == all[ends[j]] IN
             /\ a.out # "value" => d.out # "value"
             /\ a.out = "value" =>
                  \E w \in Seq(S) :
                    /\ d = Value(w, a.next) /\ Len(w) = (m - j) + Len(a.val)
                    /\ \A i \in 1 .. m - j : w[i] = val(j + i)
                    /\ \A i \in 1 .. Len(a.val) : w[(m - j) + i] = a.val[i]
<1>8. right(m)
  <2>1. m - m = 0 /\ all[ends[m]] = a
    BY <1>1 DEF a, p
  <2>2. ASSUME a.out = "value"
        PROVE  \E w \in Seq(S) : /\ all[ends[m]] = Value(w, a.next) /\ Len(w) = (m - m) + Len(a.val)
                                 /\ \A i \in 1 .. m - m : w[i] = val(m + i)
                                 /\ \A i \in 1 .. Len(a.val) : w[(m - m) + i] = a.val[i]
    <3> DEFINE w == a.val
    <3>1. w \in Seq(S) /\ a = Value(w, a.next) /\ Len(w) \in Nat
      BY <2>2, <1>5
    <3> HIDE DEF w, m
    <3>2. \A i \in 1 .. Len(w) : 0 + i = i
      BY <3>1
    <3>3. Len(w) = 0 + Len(w)
      BY <3>1
    <3>4. 1 .. 0 = {}
      OBVIOUS
    <3> HIDE DEF val
    <3> QED
      BY <2>1, <3>1, <3>2, <3>3, <3>4 DEF w
  <2> QED
    BY <2>1, <2>2
<1>9. ASSUME NEW j \in 0 .. m - 1, right(j + 1) PROVE right(j)
  <2> DEFINE v == one[ends[j]]   x == val(j + 1)   s == <<x>>   q == ends[j + 1]   d == all[q]
  <2>1. j + 1 \in 1 .. m /\ (j + 1) - 1 = j /\ m - j = 1 + (m - (j + 1)) /\ m - (j + 1) \in Nat /\ j \in Nat
    BY <1>1, SMTT(60)
  <2>2. v = Value(x, q) /\ ends[j] \in 0 .. n - 1 /\ q \in 0 .. n - 1
    <3> DEFINE k == j + 1
    <3>1. k \in 1 .. m /\ k - 1 = j
      BY <2>1
    <3> HIDE DEF k, val
    <3>2. one[ends[k - 1]] = Value(val(k), ends[k]) /\ ends[k - 1] \in 0 .. n - 1 /\ ends[k] \in 0 .. n - 1
      BY <3>1, <1>2, <1>7
    <3> QED
      BY <3>1, <3>2 DEF k
  <2>3. all[ends[j]] = Onwards(v, all, n)
    BY <2>2, <1>4
  <2>4. x \in S
    <3>1. v.val = x
      <4> HIDE DEF v, x
      <4> QED
        BY <2>2 DEF Value
    <3> QED
      BY <3>1, <2>2, <1>6
  <2> HIDE DEF v, x, q, s
  <2>5. v.out = "value" /\ v.next = q /\ v.val = x /\ ~(v.next >= n)
    BY <2>2, <1>1 DEF Value
  <2>6. all[ends[j]] = Before(v, d)
    BY <2>3, <2>5 DEF Onwards
  <2>7. CASE a.out # "value"
    <3>1. d.out # "value"
      BY <2>7, <1>9 DEF q
    <3> HIDE DEF d
    <3>2. all[ends[j]] = d
      BY <3>1, <2>6 DEF Before
    <3> QED
      BY <2>7, <3>1, <3>2
  <2>8. CASE a.out = "value"
    <3> DEFINE l == m - (j + 1)   t == a.val
    <3>1. PICK w \in Seq(S) : /\ d = Value(w, a.next) /\ Len(w) = l + Len(t)
                              /\ \A i \in 1 .. l : w[i] = val((j + 1) + i)
                              /\ \A i \in 1 .. Len(t) : w[l + i] = t[i]
      BY <2>8, <1>9 DEF q
    <3>2. Len(t) \in Nat /\ l \in Nat /\ m - j = 1 + l
      BY <2>1, <2>8, <1>5
    <3>3. s \in Seq(S) /\ Len(s) = 1 /\ s[1] = x
      BY <2>4 DEF s
    <3> HIDE DEF d, l, t, val, m
    <3>4. all[ends[j]] = Value(s \o w, a.next)
      <4>1. d.out = "value" /\ d.val = w /\ d.next = a.next
        BY <3>1 DEF Value
      <4> QED
        BY <4>1, <2>5, <2>6 DEF Before, s
    <3>5. /\ s \o w \in Seq(S) /\ Len(s \o w) = Len(s) + Len(w)
          /\ \A i \in 1 .. Len(s) + Len(w) : (s \o w)[i] = IF i <= Len(s) THEN s[i] ELSE w[i - Len(s)]
      <4>1. s \in Seq(S) /\ w \in Seq(S)
        BY <3>1, <3>3
      <4> QED
        BY ONLY <4>1, ConcatProperties
    <3> DEFINE y == s \o w
    <3>6. y \in Seq(S) /\ Len(y) = 1 + (l + Len(t)) /\ y[1] = x /\ \A i \in 1 .. l + Len(t) : y[1 + i] = w[i]
      <4>1. Len(s) + Len(w) = 1 + (l + Len(t)) /\ l + Len(t) \in Nat
        BY <3>1, <3>2, <3>3
      <4>2. y[1] = x
        <5>1. 1 \in 1 .. Len(s) + Len(w) /\ 1 <= Len(s)
          BY <4>1, <3>3
        <5> QED
          BY <5>1, <3>3, <3>5
      <4>3. ASSUME NEW i \in 1 .. l + Len(t) PROVE y[1 + i] = w[i]
        <5>1. 1 + i \in 1 .. Len(s) + Len(w) /\ ~(1 + i <= Len(s)) /\ (1 + i) - Len(s) = i
          BY <4>1, <3>3
        <5> QED
          BY <5>1, <3>5
      <4> QED
        BY <4>1, <4>2, <4>3, <3>5
    <3> HIDE DEF y
    <3>7. Len(y) = (1 + l) + Len(t)
      BY <3>2, <3>6
    <3>8. ASSUME NEW i \in 1 .. 1 + l PROVE y[i] = val(j + i)
      <4>1. CASE i = 1
        BY <4>1, <3>6 DEF x
      <4>2. CASE i # 1
        <5>1. i - 1 \in 1 .. l /\ i - 1 \in 1 .. l + Len(t) /\ 1 + (i - 1) = i /\ (j + 1) + (i - 1) = j + i
          BY <4>2, <3>2, <2>1
        <5>2. y[1 + (i - 1)] = w[i - 1] /\ w[i - 1] = val((j + 1) + (i - 1))
          BY <5>1, <3>1, <3>6
        <5> QED
          BY <5>1, <5>2
      <4> QED
        BY <4>1, <4>2
    <3>9. ASSUME NEW i \in 1 .. Len(t) PROVE y[(1 + l) + i] = t[i]
      <4>1. l + i \in 1 .. l + Len(t) /\ 1 + (l + i) = (1 + l) + i
        BY <3>2
      <4>2. y[1 + (l + i)] = w[l + i] /\ w[l + i] = t[i]
        BY <4>1, <3>1, <3>6
      <4> QED
        BY <4>1, <4>2
    <3>10. /\ all[ends[j]] = Value(y, a.next) /\ Len(y) = (m - j) + Len(t)
           /\ \A i \in 1 .. m - j : y[i] = val(j + i)
           /\ \A i \in 1 .. Len(t) : y[(m - j) + i] = t[i]
      BY <3>2, <3>4, <3>7, <3>8, <3>9 DEF y
    <3> QED
      BY <2>8, <3>6, <3>10 DEF t
  <2> QED
    BY <2>7, <2>8
<1>10. right(0)
  <2> HIDE DEF right
  <2> DEFINE K == {k \in Nat : k <= m => right(m - k)}
  <2>1. 0 \in K
    <3>1. m - 0 = m
      BY <1>1
    <3> QED
      BY <3>1, <1>8
  <2>2. \A k \in Nat : k \in K => k + 1 \in K
    <3> SUFFICES ASSUME NEW k \in Nat, k \in K, k + 1 <= m PROVE right(m - (k + 1))
      OBVIOUS
    <3>1. m - (k + 1) \in 0 .. m - 1 /\ (m - (k + 1)) + 1 = m - k /\ right(m - k)
      BY <1>1
    <3> DEFINE j == m - (k + 1)
    <3>2. j \in 0 .. m - 1 /\ right(j + 1)
      BY <3>1
    <3> HIDE DEF j
    <3>3. right(j)
      BY <3>2, <1>9
    <3> QED
      BY <3>3 DEF j
  <2>3. m \in K /\ m - m = 0
    <3>1. m - m = 0
      BY <1>1
    <3> HIDE DEF K
    <3> QED
      BY <3>1, <1>1, <2>1, <2>2, NatInSet
  <2> QED
    BY <2>3, <1>1
<1> DEFINE d == all[ends[0]]
<1>11. m - 0 = m /\ \A i \in 1 .. m : 0 + i = i
  BY <1>1
<1>12. ASSUME a.out = "value"
       PROVE  /\ d.out = "value" /\ d = Value(d.val, d.next)
              /\ d.val \in Seq(S) /\ Len(d.val) = m + Len(a.val)
              /\ \A i \in 1 .. m : d.val[i] = val(i)
              /\ \A i \in 1 .. Len(a.val) : d.val[m + i] = a.val[i]
  <2>1. PICK w \in Seq(S) : /\ d = Value(w, a.next) /\ Len(w) = (m - 0) + Len(a.val)
                            /\ \A i \in 1 .. m - 0 : w[i] = val(0 + i)
                            /\ \A i \in 1 .. Len(a.val) : w[(m - 0) + i] = a.val[i]
    BY <1>10, <1>12
  <2> HIDE DEF d, val, m
  <2>2. d.out = "value" /\ d.val = w /\ d.next = a.next
    BY <2>1 DEF Value
  <2> QED
    BY <2>1, <2>2, <1>11
<1>13. a.out # "value" => d.out # "value"
  BY <1>10
<1> HIDE DEF d
<1> QED
  BY <1>5, <1>12, <1>13 DEF d, a, p, all, S, one

\* What is read is the commands and a spoilt one, or nothing.
ReadsSpoilt(r, cmds, c) ==
  r.out = "value" => \E e \in Seq(Seq(Nat)) : Spoils(e, c) /\ r = Value(Append(cmds, e), 0)

\* A read that ends within a command is those before it and that one spoilt, or
\* nothing.
LEMMA CutRead ==
  ASSUME NEW b \in Seq(Nat), NEW n \in 0 .. Len(b), NEW cmds \in Seq(Commands),
         NEW ends \in [0 .. Len(cmds) -> Nat], ends[0] = 0, ends[Len(cmds)] < n,
         \A i \in 1 .. Len(cmds) : /\ Holds(b, ends[i - 1], n, Encoded[cmds[i]])
                                   /\ ends[i] = ends[i - 1] + Len(Encoded[cmds[i]]),
         NEW c \in Commands, Cut(b, ends[Len(cmds)], n, Encoded[c]),
         ends[Len(cmds)] + Len(Encoded[c]) > n, Blank(b, n)
  PROVE  ReadsSpoilt(readCommands(b, n), cmds, c)
<1> DEFINE m == Len(cmds)
           one == DecodeOne(b, n)
           all == Values(one, n)
           S == {one[q].val : q \in 0 .. n - 1}
           p == ends[m]
           a == all[p]
           d == all[0]
           r == readCommands(b, n)
<1> SUFFICES r.out = "value" => \E e \in Seq(Seq(Nat)) : Spoils(e, c) /\ r = Value(Append(cmds, e), 0)
  BY DEF ReadsSpoilt
<1>1. m \in Nat /\ n \in Nat /\ p \in 0 .. n - 1 /\ n # 0 /\ m \in 0 .. m
  <2>1. m \in Nat
    BY LenProperties
  <2>2. m \in 0 .. m
    BY <2>1
  <2>3. p \in Nat /\ p < n
    BY <2>2
  <2> QED
    BY <2>1, <2>2, <2>3
<1>2. r = CommandsOf(d)
  BY <1>1 DEF readCommands, Decode
<1>3. c \in Seq(Seq(Nat)) /\ c # <<>> /\ Len(c) \in Nat \ {0} /\ Encoded[c] = EncodeStrings(c)
  BY CommandsAre, WireAssumption
<1>4. a.out = "value" =>
        \/ 1 \in 1 .. Len(a.val) /\ NoCommandIn(a.val[1])
        \/ \E e \in Seq(Seq(Nat)) : Spoils(e, c) /\ a.val = <<Arr(Tokens(e))>>
  <2>1. Cut(b, p, n, EncodeStrings(c)) /\ p + Len(EncodeStrings(c)) > n /\ Blank(b, n)
    BY <1>3
  <2> HIDE DEF p
  <2> QED
    BY <1>1, <1>3, <2>1, CutTail
<1>5. /\ a.out # "value" => d.out # "value"
      /\ a.out = "value" =>
           /\ d.out = "value" /\ d = Value(d.val, d.next)
           /\ a.val \in Seq(S) /\ d.val \in Seq(S) /\ Len(d.val) = m + Len(a.val)
           /\ \A i \in 1 .. m : d.val[i] = Arr(Tokens(cmds[i]))
           /\ \A i \in 1 .. Len(a.val) : d.val[m + i] = a.val[i]
  <2>1. /\ all[ends[Len(cmds)]].out # "value" => all[ends[0]].out # "value"
        /\ all[ends[Len(cmds)]].out = "value" =>
             /\ all[ends[0]].out = "value" /\ all[ends[0]] = Value(all[ends[0]].val, all[ends[0]].next)
             /\ all[ends[Len(cmds)]].val \in Seq(S) /\ all[ends[0]].val \in Seq(S)
             /\ Len(all[ends[0]].val) = Len(cmds) + Len(all[ends[Len(cmds)]].val)
             /\ \A i \in 1 .. Len(cmds) : all[ends[0]].val[i] = Arr(Tokens(cmds[i]))
             /\ \A i \in 1 .. Len(all[ends[Len(cmds)]].val) :
                  all[ends[0]].val[Len(cmds) + i] = all[ends[Len(cmds)]].val[i]
    BY PrefixDecode
  <2> HIDE DEF all, S
  <2> QED
    BY <2>1
<1> HIDE DEF all, S, p, a, d, r
<1>6. CASE a.out # "value"
  <2>1. r = d /\ d.out # "value"
    BY <1>2, <1>5, <1>6 DEF CommandsOf
  <2> QED
    BY <2>1
<1>7. CASE a.out = "value" /\ 1 \in 1 .. Len(a.val) /\ NoCommandIn(a.val[1])
  <2> DEFINE vals == d.val   i == m + 1   next == d.next
  <2>1. vals \in Seq(S) /\ i \in 1 .. Len(vals) /\ vals[i] = a.val[1] /\ d = Value(vals, next)
    <3>1. Len(a.val) \in Nat
      BY <1>5, <1>7, LenProperties
    <3> QED
      BY <3>1, <1>1, <1>5, <1>7, SMTT(60)
  <2> HIDE DEF vals, i, next
  <2>2. vals \in Seq(S) /\ i \in 1 .. Len(vals) /\ NoCommandIn(vals[i])
    BY <2>1, <1>7
  <2>3. CommandsOf(Value(vals, next)).out # "value"
    BY ONLY <2>2, SpoiltByOne
  <2> QED
    BY <1>2, <2>1, <2>3
<1>8. CASE a.out = "value" /\ \E e \in Seq(Seq(Nat)) : Spoils(e, c) /\ a.val = <<Arr(Tokens(e))>>
  <2>1. PICK e \in Seq(Seq(Nat)) : Spoils(e, c) /\ a.val = <<Arr(Tokens(e))>>
    BY <1>8
  <2> DEFINE T == Seq(Seq(Nat)) \ {<<>>}
             more == Append(cmds, e)
             x == Arr(Tokens(e))
  <2>2. e \in T
    <3>1. Len(e) = Len(c)
      BY <2>1 DEF Spoils
    <3> DEFINE none == <<>>
    <3>2. Len(none) = 0
      OBVIOUS
    <3> HIDE DEF none
    <3>3. e # none
      BY <1>3, <3>1, <3>2
    <3> QED
      BY <3>3 DEF none
  <2>3. cmds \in Seq(T)
    <3>1. Commands \subseteq T
      BY CommandsAre, WireAssumption
    <3> HIDE DEF T
    <3> QED
      BY <3>1, SeqWidens
  <2> HIDE DEF T
  <2>4. /\ more \in Seq(T) /\ Len(more) = m + 1 /\ more[m + 1] = e
        /\ \A i \in 1 .. m : more[i] = cmds[i]
    BY <2>2, <2>3, AppendTypes
  <2> DEFINE w == d.val   row == [i \in 1 .. Len(more) |-> Arr(Tokens(more[i]))]
  <2>5. w = row
    <3>1. Len(a.val) = 1 /\ a.val[1] = x
      <4> HIDE DEF x
      <4>1. Len(<<x>>) = 1 /\ <<x>>[1] = x
        OBVIOUS
      <4>2. a.val = <<x>>
        BY <2>1 DEF x
      <4> QED
        BY <4>1, <4>2
    <3> HIDE DEF more, x
    <3>2. /\ w \in Seq(S) /\ Len(w) = m + 1 /\ w[m + 1] = x
          /\ \A i \in 1 .. m : w[i] = Arr(Tokens(cmds[i]))
      <4>1. 1 \in 1 .. Len(a.val)
        BY <3>1
      <4> QED
        BY <1>5, <1>8, <3>1, <4>1
    <3> HIDE DEF w
    <3>3. w = [i \in 1 .. m + 1 |-> w[i]]
      BY <3>2, LenProperties
    <3>4. ASSUME NEW i \in 1 .. m + 1 PROVE w[i] = Arr(Tokens(more[i]))
      <4>1. CASE i = m + 1
        BY <4>1, <2>4, <3>2 DEF x
      <4>2. CASE i # m + 1
        <5>1. i \in 1 .. m
          BY <4>2, <1>1
        <5> QED
          BY <5>1, <2>4, <3>2
      <4> QED
        BY <4>1, <4>2
    <3>5. [i \in 1 .. m + 1 |-> w[i]] = [i \in 1 .. m + 1 |-> Arr(Tokens(more[i]))]
      BY <3>4
    <3> QED
      BY <2>4, <3>3, <3>5
  <2>6. d = Value(row, d.next)
    BY <1>5, <1>8, <2>5
  <2> HIDE DEF more, w
  <2> DEFINE next == d.next
  <2> HIDE DEF next
  <2>7. CommandsOf(Value(row, next)) = Value(more, 0)
    <3>1. more \in Seq(Seq(Seq(Nat)) \ {<<>>})
      BY <2>4 DEF T
    <3> QED
      BY ONLY <3>1, CommandsBack
  <2> HIDE DEF row
  <2>8. r = Value(more, 0)
    BY <1>2, <2>6, <2>7 DEF next
  <2> QED
    BY <2>1, <2>8 DEF more
<1> QED
  BY <1>4, <1>6, <1>7, <1>8

\* A read that begins where a command does and ends within one finds those
\* between and a spoilt one, or nothing.
LEMMA TornReads ==
  ASSUME NEW cmds \in Seq(Commands), NEW i \in 0 .. Len(cmds), NEW j \in i .. Len(cmds) - 1,
         NEW n \in Nat \ {0}, NEW size \in Nat, n <= size,
         BorderOf(cmds, j) < BorderOf(cmds, i) + n, BorderOf(cmds, i) + n < BorderOf(cmds, j + 1)
  PROVE  ReadsSpoilt(readCommands(Window(Stream(cmds), BorderOf(cmds, i), n, size), n),
                     SubSeq(cmds, i + 1, j), cmds[j + 1])
<1> DEFINE m == Len(cmds)   str == Stream(cmds)   len == Len(str)
           p == BorderOf(cmds, i)   to == BorderOf(cmds, j)   k == j + 1
           c == cmds[k]   s == Encoded[c]
           w == SubSeq(cmds, i + 1, j)
           b == Window(str, p, n, size)
<1>1. /\ m \in Nat /\ i \in 0 .. m /\ j \in i .. m /\ j \in 0 .. m /\ k \in 1 .. m /\ k - 1 = j
      /\ j - i \in 0 .. j - i
  BY LenProperties
<1>2. /\ str \in Seq(Nat) /\ p \in Nat /\ to \in Nat /\ BorderOf(cmds, k) = to + Len(s)
      /\ Holds(str, to, len, s)
  <2> HIDE DEF k
  <2>1. /\ str \in Seq(Nat) /\ \A x \in 0 .. m : BorderOf(cmds, x) \in Nat
        /\ BorderOf(cmds, k) = BorderOf(cmds, k - 1) + Len(Encoded[cmds[k]])
        /\ Holds(str, BorderOf(cmds, k - 1), len, Encoded[cmds[k]])
    BY <1>1, BordersAre
  <2> QED
    BY <2>1, <1>1
<1>3. c \in Commands /\ s \in Seq(Nat) /\ Len(s) \in Nat
  <2>1. c \in Commands
    BY <1>1, ElementOfSeq
  <2> QED
    BY <2>1, CommandsAre, LenProperties
<1>4. to < p + n /\ p + n < to + Len(s)
  BY <1>2
<1>5. w \in Seq(Commands) /\ Len(w) = j - i
  BY <1>1, Middle
<1> HIDE DEF c, s, k
<1>6. p + n <= len
  <2>1. to + Len(s) <= len /\ len \in Nat
    BY <1>2, LenProperties DEF Holds
  <2> QED
    BY <2>1, <1>2, <1>3, <1>4
<1>7. /\ b \in Seq(Nat) /\ Len(b) = size /\ \A x \in 1 .. n : b[x] = str[p + x]
      /\ Blank(b, n)
  <2> HIDE DEF p, str
  <2>1. str \in Seq(Nat) /\ p \in Nat /\ n \in Nat /\ p + n <= Len(str) /\ size \in Nat /\ n <= size
    BY <1>2, <1>6
  <2>2. Fills(Window(str, p, n, size), str, p, n, size)
    BY ONLY <2>1, WindowIs
  <2> QED
    BY <2>2 DEF Blank, Fills
<1> HIDE DEF b
<1>8. PICK ends : EndsAre(cmds, i, j, n, b, ends)
  <2>1. /\ cmds \in Seq(Commands) /\ i \in 0 .. Len(cmds) /\ j \in i .. Len(cmds) /\ n \in Nat
        /\ \A x \in 1 .. n : b[x] = Stream(cmds)[BorderOf(cmds, i) + x]
        /\ BorderOf(cmds, j) <= BorderOf(cmds, i) + n
    BY <1>1, <1>2, <1>4, <1>7
  <2> QED
    BY ONLY <2>1, EndsWithin
<1> DEFINE q == ends[j - i]
<1>9. /\ ends \in [0 .. Len(w) -> Nat] /\ ends[0] = 0 /\ p + q = to /\ q \in Nat /\ q = ends[Len(w)]
      /\ \A x \in 1 .. Len(w) : /\ Holds(b, ends[x - 1], n, Encoded[w[x]])
                                /\ ends[x] = ends[x - 1] + Len(Encoded[w[x]])
  <2>1. /\ ends \in [0 .. j - i -> Nat] /\ ends[0] = 0 /\ p + q = to
        /\ \A x \in 1 .. j - i : /\ Holds(b, ends[x - 1], n, Encoded[w[x]])
                                 /\ ends[x] = ends[x - 1] + Len(Encoded[w[x]])
    BY <1>8 DEF EndsAre
  <2>2. q \in Nat
    BY <2>1, <1>1
  <2> HIDE DEF w, p, to
  <2> QED
    BY <2>1, <2>2, <1>5
<1> HIDE DEF p, to, w, str, q
<1>10. q < n /\ q + Len(s) > n
  <2> DEFINE length == Len(s)
  <2>1. /\ p \in Nat /\ to \in Nat /\ q \in Nat /\ n \in Nat /\ length \in Nat
        /\ p + q = to /\ to < p + n /\ p + n < to + length
    BY <1>2, <1>3, <1>4, <1>9
  <2> HIDE DEF length
  <2>2. q < n /\ q + length > n
    BY ONLY <2>1
  <2> QED
    BY <2>2 DEF length
<1>11. Cut(b, q, n, s)
  <2> SUFFICES ASSUME NEW x \in 1 .. Len(s), q + x <= n PROVE b[q + x] = s[x]
    BY DEF Cut
  <2>1. q + x \in 1 .. n /\ p + (q + x) = to + x
    <3>1. /\ p \in Nat /\ to \in Nat /\ q \in Nat /\ n \in Nat /\ x \in Nat /\ x >= 1
          /\ p + q = to /\ q + x <= n
      BY <1>2, <1>3, <1>9
    <3> QED
      BY ONLY <3>1
  <2>2. b[q + x] = str[p + (q + x)]
    BY <2>1, <1>7
  <2>3. str[to + x] = s[x]
    BY <1>2 DEF Holds
  <2> QED
    BY <2>1, <2>2, <2>3
<1>12. ReadsSpoilt(readCommands(b, n), w, c)
  <2>1. /\ b \in Seq(Nat) /\ n \in 0 .. Len(b) /\ w \in Seq(Commands) /\ c \in Commands
        /\ ends \in [0 .. Len(w) -> Nat] /\ ends[0] = 0 /\ ends[Len(w)] < n
        /\ \A x \in 1 .. Len(w) : /\ Holds(b, ends[x - 1], n, Encoded[w[x]])
                                  /\ ends[x] = ends[x - 1] + Len(Encoded[w[x]])
        /\ Cut(b, ends[Len(w)], n, Encoded[c])
        /\ ends[Len(w)] + Len(Encoded[c]) > n /\ Blank(b, n)
    BY <1>3, <1>5, <1>7, <1>9, <1>10, <1>11, SMTT(60) DEF s
  <2> QED
    BY ONLY <2>1, CutRead
<1> QED
  BY <1>12 DEF b, c, k, w, p, str
-----------------------------------------------------------------------------
(* What is executed of a torn stream.                                      *)

\* The first commands have been executed, and one more that is spoilt.
SpoiltAt(cmds, i, exec) ==
  \E e \in Seq(Seq(Nat)) : Spoils(e, cmds[i]) /\ exec = Append(SubSeq(cmds, 1, i - 1), e)

\* A read that ends within the i-th command ends the connection, or executes that
\* command spoilt and leaves the connection within it.
TornAt(cmds, i, pos, exec, c) ==
  \/ c # "open" /\ exec = SubSeq(cmds, 1, i - 1)
  \/ /\ SpoiltAt(cmds, i, exec)
     /\ c = "open" => BorderOf(cmds, i - 1) < pos /\ pos < BorderOf(cmds, i)

TornIsLast ==
  torn /\ ~astray => \E i \in 1 .. Len(sent) : TornAt(sent, i, at, executed, conn)

\* An element appended to a part is appended to the whole.
LEMMA AppendLast ==
  ASSUME NEW S, NEW a \in Seq(S), NEW b \in Seq(S), NEW x \in S
  PROVE  a \o Append(b, x) = Append(a \o b, x)
OBVIOUS

\* The first read that ends within a command.
LEMMA FirstTorn ==
  ASSUME TypeOK, UncutIsExact, Read, ~torn, torn'
  PROVE  \E i \in 1 .. Len(sent) : TornAt(sent, i, at', executed', conn')
<1> DEFINE m == Len(sent)   len == Len(Stream(sent))   to(k) == BorderOf(sent, k)
<1>1. sent \in Seq(Commands) /\ at \in Nat
  BY DEF TypeOK
<1>2. PICK n \in Nat \ {0} :
        /\ n <= BufSize /\ at + n <= len /\ BufSize \in Nat
        /\ at' = at + n /\ torn' = (torn \/ at + n \notin Borders)
        /\ Serve(readCommands(Window(Stream(sent), at, n, BufSize), n))
        /\ conn = "open" /\ UNCHANGED <<sent, done>>
  BY <1>1, ReadIs
<1>3. PICK i \in 0 .. m : at = to(i) /\ executed = SubSeq(sent, 1, i)
  BY UncutIs DEF ReadTo
<1>4. /\ m \in Nat /\ to(m) = len /\ \A k \in 0 .. m : to(k) \in Nat
      /\ \A k \in 0 .. m : \A x \in k + 1 .. m : to(k) < to(x)
  BY <1>1, BordersAre
<1> DEFINE pos == at + n
<1>5. \A k \in 0 .. m : pos # to(k)
  <2>1. pos \notin Borders
    BY <1>2
  <2> QED
    BY <2>1, BorderIs DEF Borders
<1>6. pos \in Nat /\ pos < len /\ at < pos
  <2>1. pos \in Nat /\ pos <= len /\ at < pos /\ m \in 0 .. m
    BY <1>1, <1>2, <1>4
  <2>2. pos # len
    BY <2>1, <1>4, <1>5
  <2> HIDE DEF pos
  <2>3. len \in Nat
    BY <1>4, <2>1
  <2> QED
    BY <2>1, <2>2, <2>3
<1>7. PICK k \in 1 .. m : to(k - 1) <= pos /\ pos < to(k)
  <2> HIDE DEF pos
  <2> QED
    BY <1>1, <1>6, Between
<1> DEFINE j == k - 1
<1>8. j \in 0 .. m /\ j + 1 = k /\ j \in Nat /\ k \in Nat /\ k \in 0 .. m
  BY <1>4
<1> HIDE DEF to, pos, m, len
<1>9. to(j) < pos
  <2>1. to(j) <= pos /\ pos # to(j) /\ to(j) \in Nat
    BY <1>4, <1>5, <1>7, <1>8
  <2> QED
    BY <2>1, <1>6
<1>10. i <= j
  <2>1. ASSUME k <= i PROVE FALSE
    <3>1. to(k) \in Nat /\ to(i) \in Nat
      BY <1>4, <1>8
    <3>2. to(k) <= to(i)
      <4>1. CASE k = i
        BY <4>1, <3>1
      <4>2. CASE k # i
        <5>1. i \in k + 1 .. m
          BY <4>2, <2>1, <1>4, <1>8
        <5>2. to(k) < to(i)
          BY <5>1, <1>4, <1>8
        <5> QED
          BY <5>2, <3>1
      <4> QED
        BY <4>1, <4>2
    <3> QED
      BY <3>1, <3>2, <1>3, <1>6, <1>7
  <2>2. i \in Nat
    BY <1>4
  <2> QED
    BY <2>1, <2>2, <1>8
<1> DEFINE r == readCommands(Window(Stream(sent), at, n, BufSize), n)
<1>11. ReadsSpoilt(r, SubSeq(sent, i + 1, j), sent[j + 1])
  <2>1. /\ sent \in Seq(Commands) /\ i \in 0 .. Len(sent) /\ j \in i .. Len(sent) - 1
        /\ n \in Nat \ {0} /\ BufSize \in Nat /\ n <= BufSize
        /\ BorderOf(sent, j) < BorderOf(sent, i) + n /\ BorderOf(sent, i) + n < BorderOf(sent, j + 1)
    <3>1. j \in i .. m - 1
      BY <1>4, <1>8, <1>10
    <3>2. to(j) < to(i) + n /\ to(i) + n < to(j + 1)
      BY <1>3, <1>7, <1>8, <1>9 DEF pos
    <3> QED
      BY <3>1, <3>2, <1>1, <1>2 DEF m, to
  <2>2. ReadsSpoilt(readCommands(Window(Stream(sent), BorderOf(sent, i), n, BufSize), n),
                    SubSeq(sent, i + 1, j), sent[j + 1])
    <3> HIDE DEF j
    <3> QED
      BY ONLY <2>1, TornReads
  <2> QED
    BY <2>2, <1>3 DEF to
<1>12. Serve(r) /\ conn = "open"
  BY <1>2
<1> HIDE DEF r
<1>13. CASE r.out # "value"
  <2>1. conn' # "open" /\ executed' = executed
    BY <1>12, <1>13 DEF Serve
  <2>2. i + 1 \in 1 .. Len(sent) /\ (i + 1) - 1 = i
    BY <1>4, <1>8, <1>10 DEF m
  <2> DEFINE x == i + 1
  <2>3. x \in 1 .. Len(sent) /\ x - 1 = i
    BY <2>2
  <2> HIDE DEF x
  <2>4. TornAt(sent, x, at', executed', conn')
    BY <2>1, <2>3, <1>3 DEF TornAt
  <2> QED
    BY <2>3, <2>4
<1>14. CASE r.out = "value"
  <2>1. PICK e \in Seq(Seq(Nat)) :
               Spoils(e, sent[k]) /\ r = Value(Append(SubSeq(sent, i + 1, j), e), 0)
    BY <1>8, <1>11, <1>14 DEF ReadsSpoilt
  <2> DEFINE u == SubSeq(sent, 1, i)   w == SubSeq(sent, i + 1, j)   more == Append(w, e)
  <2>2. executed' = u \o more /\ conn' = conn
    <3>1. r = Value(more, 0)
      BY <2>1
    <3> HIDE DEF more, u
    <3>2. r.val = more
      BY <3>1 DEF Value
    <3> QED
      BY <3>2, <1>3, <1>12, <1>14 DEF Serve, u
  <2>3. u \o more = Append(SubSeq(sent, 1, j), e)
    <3> DEFINE T == Seq(Seq(Nat))   v == SubSeq(sent, 1, j)
    <3>1. j \in i .. Len(sent) /\ i \in 0 .. Len(sent) /\ i \in Int
      BY <1>4, <1>8, <1>10 DEF m
    <3>2. u \o w = v
      BY <3>1, <1>1, SentUpTo
    <3>3. u \in Seq(Commands) /\ w \in Seq(Commands) /\ v \in Seq(Commands)
      <4>1. u \in Seq(Commands) /\ v \in Seq(Commands)
        BY <3>1, <1>1, <1>8, Prefix DEF m
      <4>2. w \in Seq(Commands)
        BY <3>1, <1>1, Middle
      <4> QED
        BY <4>1, <4>2
    <3>4. Seq(Commands) \subseteq Seq(T)
      <4>1. Commands \subseteq T
        BY CommandsAre
      <4> HIDE DEF T
      <4> QED
        BY <4>1, SeqWidens
    <3> DEFINE one == <<e>>
    <3> HIDE DEF T, u, v, w
    <3>5. u \in Seq(T) /\ w \in Seq(T)
      BY <3>3, <3>4
    <3>6. e \in T
      BY <2>1 DEF T
    <3>7. u \o Append(w, e) = Append(u \o w, e)
      BY ONLY <3>5, <3>6, AppendLast
    <3> QED
      BY <3>2, <3>7 DEF v
  <2> HIDE DEF u, more
  <2>4. SpoiltAt(sent, k, executed')
    BY <2>1, <2>2, <2>3 DEF SpoiltAt
  <2>5. BorderOf(sent, k - 1) < at' /\ at' < BorderOf(sent, k)
    BY <1>2, <1>7, <1>9 DEF pos, to
  <2>6. TornAt(sent, k, at', executed', conn')
    BY <2>4, <2>5 DEF TornAt
  <2>7. k \in 1 .. Len(sent)
    BY DEF m
  <2> QED
    BY <2>6, <2>7
<1> QED
  BY <1>13, <1>14

\* TornIsLast says where the connection is.
LEMMA LastWithin == TypeOK /\ TornIsLast => TornWithin
<1> SUFFICES ASSUME TornIsLast, torn, ~astray, conn = "open"
             PROVE  \E i \in 1 .. Len(sent) : BorderOf(sent, i - 1) < at /\ at < BorderOf(sent, i)
  BY DEF TornWithin
<1> QED
  BY DEF TornIsLast, TornAt

\* TornIsLast is inductive.
LEMMA TornIsLastStep ==
  TypeOK /\ UncutIsExact /\ TornIsLast /\ [Next]_vars => TornIsLast'
<1> SUFFICES ASSUME TypeOK, UncutIsExact, TornIsLast, [Next]_vars, ~astray' PROVE TornIsLast'
  BY DEF TornIsLast
<1> DEFINE L(cmds, p, exec, c) == \E i \in 1 .. Len(cmds) : TornAt(cmds, i, p, exec, c)
<1>1. (torn' => L(sent', at', executed', conn')) => TornIsLast'
  BY DEF TornIsLast, TornAt, SpoiltAt, Spoils, BorderOf, Stream, Encoded
<1>2. torn => L(sent, at, executed, conn)
  <2>1. ~astray
    <3>1. CASE Read
      BY <3>1, ReadIs DEF TypeOK
    <3>2. CASE ~Read
      BY <3>2 DEF Next, Send, Receive, HangUp, ReadEnd, vars
    <3> QED
      BY <3>1, <3>2
  <2> QED
    BY <2>1 DEF TornIsLast
<1>3. sent \in Seq(Commands) /\ at \in Nat
  BY DEF TypeOK
<1>4. CASE Send
  <2>1. PICK c \in Commands : sent' = Append(sent, c)
    BY <1>4 DEF Send
  <2> DEFINE more == Append(sent, c)
  <2>2. /\ Len(more) = Len(sent) + 1 /\ Len(sent) \in Nat
        /\ \A i \in 0 .. Len(sent) : /\ SubSeq(more, 1, i) = SubSeq(sent, 1, i)
                                     /\ BorderOf(more, i) = BorderOf(sent, i)
    BY <1>3, BordersStay
  <2>3. \A i \in 1 .. Len(sent) : more[i] = sent[i]
    BY <1>3, AppendTypes
  <2> HIDE DEF more
  <2>4. \A i \in 1 .. Len(sent) : i \in 0 .. Len(sent) /\ i - 1 \in 0 .. Len(sent) /\ i \in 1 .. Len(more)
    BY <2>2
  <2>5. UNCHANGED <<torn, at, conn, executed>>
    BY <1>4 DEF Send
  <2>6. ASSUME NEW i \in 1 .. Len(sent), TornAt(sent, i, at, executed, conn)
        PROVE  TornAt(more, i, at, executed, conn)
    <3>1. /\ SubSeq(more, 1, i - 1) = SubSeq(sent, 1, i - 1) /\ more[i] = sent[i]
          /\ BorderOf(more, i - 1) = BorderOf(sent, i - 1) /\ BorderOf(more, i) = BorderOf(sent, i)
      BY <2>2, <2>3, <2>4
    <3> QED
      BY <2>6, <3>1 DEF TornAt, SpoiltAt
  <2>7. L(sent, at, executed, conn) => L(more, at, executed, conn)
    BY <2>4, <2>6
  <2> HIDE DEF L
  <2> QED
    BY <1>1, <1>2, <2>1, <2>5, <2>7 DEF more
<1>5. CASE Receive
  BY <1>1, <1>2, <1>5 DEF Receive
<1>6. CASE HangUp
  BY <1>1, <1>2, <1>6 DEF HangUp
<1>7. CASE Read
  <2>1. CASE torn
    <3>1. conn' # "open" /\ executed' = executed /\ sent' = sent
      BY <2>1, <1>7, ReadWithin, LastWithin
    <3>2. PICK i \in 1 .. Len(sent) : TornAt(sent, i, at, executed, conn)
      BY <1>2, <2>1
    <3>3. conn = "open"
      BY <1>7 DEF Read
    <3>4. TornAt(sent', i, at', executed', conn')
      BY <3>1, <3>2, <3>3 DEF TornAt
    <3> QED
      BY <1>1, <3>1, <3>4
  <2>2. CASE ~torn
    <3>1. sent' = sent
      BY <1>7 DEF Read
    <3>2. torn' => L(sent, at', executed', conn')
      BY <1>7, <2>2, FirstTorn
    <3> HIDE DEF L
    <3> QED
      BY <1>1, <3>1, <3>2
  <2> QED
    BY <2>1, <2>2
<1>8. CASE ReadEnd
  <2>1. UNCHANGED <<sent, at, torn, executed>> /\ conn = "open" /\ conn' = "closed"
    BY <1>8 DEF ReadEnd
  <2>2. ASSUME NEW i \in 1 .. Len(sent), TornAt(sent, i, at, executed, conn)
        PROVE  TornAt(sent', i, at', executed', conn')
    BY <2>1, <2>2 DEF TornAt
  <2> QED
    BY <1>1, <1>2, <2>1, <2>2
<1>9. CASE UNCHANGED vars
  BY <1>1, <1>2, <1>9 DEF vars
<1> QED
  BY <1>4, <1>5, <1>6, <1>7, <1>8, <1>9 DEF Next

\* The number of commands of which a byte has been read.
Begun(m, f, p) == Cardinality({x \in 1 .. m : f[x - 1] < p})

\* That number, when the first k have begun.
LEMMA BegunAre ==
  ASSUME NEW m \in Nat, NEW f \in [0 .. m -> Nat], NEW k \in 0 .. m, NEW p \in Nat,
         \A x \in 0 .. m : f[x] < p <=> x < k
  PROVE  Begun(m, f, p) = k
<1> DEFINE B == {x \in 1 .. m : f[x - 1] < p}
<1>1. B = 1 .. k
  <2>1. ASSUME NEW x \in 1 .. m PROVE f[x - 1] < p <=> x \in 1 .. k
    <3>1. x - 1 \in 0 .. m
      OBVIOUS
    <3>2. f[x - 1] < p <=> x - 1 < k
      BY <3>1
    <3>3. x - 1 < k <=> x \in 1 .. k
      OBVIOUS
    <3> QED
      BY <3>2, <3>3
  <2>2. 1 .. k \subseteq 1 .. m
    OBVIOUS
  <2> QED
    BY <2>1, <2>2
<1> HIDE DEF B
<1>2. Cardinality(1 .. k) = k
  <2>1. 1 \in Int /\ k \in Int /\ k - 1 + 1 = k /\ (1 > k => k = 0)
    OBVIOUS
  <2>2. Cardinality(1 .. k) = IF 1 > k THEN 0 ELSE k - 1 + 1
    BY <2>1, FS_Interval
  <2> QED
    BY <2>1, <2>2
<1> QED
  BY <1>1, <1>2 DEF B, Begun

\* What has been executed is the first commands, or those and a spoilt one.
ExecutedUpTo(cmds, i, exec) ==
  exec = SubSeq(cmds, 1, i) \/ (i \in 1 .. Len(cmds) /\ SpoiltAt(cmds, i, exec))

\* The commands executed, one by one.
LEMMA ExecutedAre ==
  ASSUME NEW cmds \in Seq(Commands), NEW i \in 0 .. Len(cmds), NEW exec, ExecutedUpTo(cmds, i, exec)
  PROVE  /\ Len(exec) = i
         /\ \A x \in 1 .. i : exec[x] = cmds[x] \/ (x = i /\ Spoils(exec[x], cmds[x]))
         /\ exec = SubSeq(cmds, 1, i) => \A x \in 1 .. i : exec[x] = cmds[x]
<1>1. CASE exec = SubSeq(cmds, 1, i)
  BY <1>1, Prefix
<1>2. CASE exec # SubSeq(cmds, 1, i)
  <2>1. i \in 1 .. Len(cmds) /\ SpoiltAt(cmds, i, exec)
    BY <1>2 DEF ExecutedUpTo
  <2>2. PICK e \in Seq(Seq(Nat)) : Spoils(e, cmds[i]) /\ exec = Append(SubSeq(cmds, 1, i - 1), e)
    BY <2>1 DEF SpoiltAt
  <2> DEFINE j == i - 1   u == SubSeq(cmds, 1, j)   T == Seq(Seq(Nat))
  <2>3. j \in 0 .. Len(cmds) /\ j + 1 = i /\ j \in Nat /\ \A x \in 1 .. i : x = i \/ x \in 1 .. j
    BY <2>1, LenProperties
  <2> HIDE DEF j
  <2>4. u \in Seq(Commands) /\ Len(u) = j /\ \A x \in 1 .. j : u[x] = cmds[x]
    BY <2>3, Prefix
  <2>5. u \in Seq(T)
    <3>1. Commands \subseteq T
      BY CommandsAre
    <3> HIDE DEF T, u
    <3> QED
      BY <2>4, <3>1, SeqWidens
  <2>6. e \in T
    OBVIOUS
  <2> HIDE DEF T, u
  <2>7. /\ Len(Append(u, e)) = Len(u) + 1 /\ Append(u, e)[Len(u) + 1] = e
        /\ \A x \in 1 .. Len(u) : Append(u, e)[x] = u[x]
    BY <2>5, <2>6, AppendTypes
  <2>8. exec = Append(u, e)
    BY <2>2 DEF u, j
  <2>9. Len(exec) = i /\ exec[i] = e /\ \A x \in 1 .. j : exec[x] = cmds[x]
    BY <2>3, <2>4, <2>7, <2>8
  <2> QED
    BY <1>2, <2>2, <2>3, <2>9
<1> QED
  BY <1>1, <1>2

\* Where the connection is and what it has executed.
LEMMA Standing ==
  ASSUME TypeOK, UncutIsExact, TornIsLast, ~astray
  PROVE  \E i \in 0 .. Len(sent) :
           /\ ExecutedUpTo(sent, i, executed)
           /\ ~torn => executed = SubSeq(sent, 1, i)
           /\ conn = "open" => \A x \in 0 .. Len(sent) : BorderOf(sent, x) < at <=> x < i
<1> DEFINE m == Len(sent)
<1>1. /\ m \in Nat /\ \A x \in 0 .. m : BorderOf(sent, x) \in Nat
      /\ \A x \in 0 .. m : \A y \in x + 1 .. m : BorderOf(sent, x) < BorderOf(sent, y)
  BY BordersAre DEF TypeOK
<1> DEFINE to == [x \in 0 .. m |-> BorderOf(sent, x)]
<1>2. to \in [0 .. m -> Nat] /\ \A x, y \in 0 .. m : x < y => to[x] < to[y]
  <2>1. \A x, y \in 0 .. m : x < y => y \in x + 1 .. m
    BY <1>1
  <2> QED
    BY <1>1, <2>1
<1>3. \A x \in 0 .. m : to[x] = BorderOf(sent, x)
  OBVIOUS
<1> HIDE DEF to
<1>4. CASE ~torn
  <2>1. PICK i \in 0 .. m : at = BorderOf(sent, i) /\ executed = SubSeq(sent, 1, i)
    BY <1>4, UncutIs DEF ReadTo
  <2>2. ASSUME NEW x \in 0 .. m PROVE to[x] < to[i] <=> x < i
    <3>1. x \in Int /\ i \in Int /\ to[x] \in Int /\ to[i] \in Int
      BY <1>1, <1>2, SMTT(60)
    <3>2. /\ x < i => to[x] < to[i]
          /\ i < x => to[i] < to[x]
      BY <1>2
    <3>3. x = i => to[x] = to[i]
      OBVIOUS
    <3> QED
      BY <3>1, <3>2, <3>3
  <2>3. \A x \in 0 .. m : BorderOf(sent, x) < at <=> x < i
    BY <1>3, <2>1, <2>2
  <2> QED
    BY <2>1, <2>3 DEF ExecutedUpTo
<1>5. CASE torn
  <2>1. PICK k \in 1 .. m : TornAt(sent, k, at, executed, conn)
    BY <1>5 DEF TornIsLast
  <2>2. k \in 0 .. m /\ k - 1 \in 0 .. m /\ k \in Int
    BY <1>1
  <2>3. CASE conn # "open" /\ executed = SubSeq(sent, 1, k - 1)
    BY <1>5, <2>2, <2>3 DEF ExecutedUpTo
  <2>4. CASE SpoiltAt(sent, k, executed) /\ (conn = "open" => BorderOf(sent, k - 1) < at /\ at < BorderOf(sent, k))
    <3>1. ASSUME conn = "open", NEW x \in 0 .. m PROVE BorderOf(sent, x) < at <=> x < k
      <4> DEFINE j == k - 1
      <4>1. to[j] < at /\ at < to[k] /\ at \in Int
        BY <1>3, <2>2, <2>4, <3>1 DEF TypeOK
      <4>2. j \in 0 .. m /\ x \in Int /\ j \in Int /\ (x < k <=> x < j \/ x = j) /\ (x = k \/ k < x \/ x < k)
        BY <2>2
      <4> HIDE DEF j
      <4>3. to[x] \in Int /\ to[j] \in Int /\ to[k] \in Int
        BY <1>2, <2>2, <4>2
      <4>4. x < j => to[x] < to[j]
        BY <1>2, <4>2
      <4>5. k < x => to[k] < to[x]
        BY <1>2, <2>2
      <4>6. to[x] < at <=> x < k
        <5>1. CASE x < k
          BY <5>1, <4>1, <4>2, <4>3, <4>4
        <5>2. CASE x = k
          BY <5>2, <2>2, <4>1, <4>3
        <5>3. CASE k < x
          BY <5>3, <2>2, <4>1, <4>2, <4>3, <4>5
        <5> QED
          BY <4>2, <5>1, <5>2, <5>3
      <4> QED
        BY <1>3, <4>6
    <3> QED
      BY <1>5, <2>2, <2>4, <3>1 DEF ExecutedUpTo
  <2> QED
    BY <2>1, <2>3, <2>4 DEF TornAt
<1> QED
  BY <1>4, <1>5

\* Nothing else is executed, in no other order.
LEMMA IntactIs == TypeOK /\ UncutIsExact /\ TornIsLast => Intact
<1> SUFFICES ASSUME TypeOK, UncutIsExact, TornIsLast, ~astray PROVE Intact
  BY DEF Intact
<1>1. sent \in Seq(Commands) /\ Len(sent) \in Nat
  BY LenProperties DEF TypeOK
<1>2. PICK i \in 0 .. Len(sent) :
        ExecutedUpTo(sent, i, executed) /\ (~torn => executed = SubSeq(sent, 1, i))
  BY Standing
<1>3. /\ Len(executed) = i
      /\ \A x \in 1 .. i : executed[x] = sent[x] \/ (x = i /\ Spoils(executed[x], sent[x]))
      /\ executed = SubSeq(sent, 1, i) => \A x \in 1 .. i : executed[x] = sent[x]
  BY <1>1, <1>2, ExecutedAre
<1>4. i <= Len(sent)
  BY <1>1
<1> QED
  BY <1>2, <1>3, <1>4 DEF Intact

\* What has begun has been executed.
LEMMA BegunIs == TypeOK /\ UncutIsExact /\ TornIsLast => BegunIsExecuted
<1> SUFFICES ASSUME TypeOK, UncutIsExact, TornIsLast, conn = "open", ~astray
             PROVE  Len(executed) = Cardinality({x \in 1 .. Len(sent) : Border(x - 1) < at})
  BY DEF BegunIsExecuted
<1>1. sent \in Seq(Commands) /\ Len(sent) \in Nat /\ at \in Nat
  BY LenProperties DEF TypeOK
<1>2. PICK i \in 0 .. Len(sent) :
        /\ ExecutedUpTo(sent, i, executed)
        /\ \A x \in 0 .. Len(sent) : BorderOf(sent, x) < at <=> x < i
  BY Standing
<1>3. Len(executed) = i
  BY <1>1, <1>2, ExecutedAre
<1> DEFINE m == Len(sent)   to == [x \in 0 .. m |-> BorderOf(sent, x)]
<1>4. to \in [0 .. m -> Nat]
  BY <1>1, BordersAre
<1>5. \A x \in 1 .. m : to[x - 1] = Border(x - 1)
  <2>1. \A x \in 1 .. m : x - 1 \in 0 .. m
    BY <1>1
  <2> QED
    BY <2>1, BorderIs
<1>6. \A x \in 0 .. m : to[x] < at <=> x < i
  BY <1>2
<1> HIDE DEF to, m
<1>7. m \in Nat /\ i \in 0 .. m
  BY <1>1 DEF m
<1>8. Begun(m, to, at) = i
  <2>1. /\ m \in Nat /\ to \in [0 .. m -> Nat] /\ i \in 0 .. m /\ at \in Nat
        /\ \A x \in 0 .. m : to[x] < at <=> x < i
    BY <1>1, <1>4, <1>6, <1>7
  <2> QED
    BY ONLY <2>1, BegunAre
<1>9. {x \in 1 .. m : to[x - 1] < at} = {x \in 1 .. m : Border(x - 1) < at}
  BY <1>5
<1> QED
  BY <1>3, <1>8, <1>9 DEF m, Begun

\* The invariant of a connection, torn or not.
TornInv == TypeOK /\ UncutIsExact /\ TornIsLast

\* It is inductive.
LEMMA TornInvHolds == Spec => []TornInv
<1>1. Init => TornInv
  BY TypeInit, UncutInit DEF Init, TornIsLast, TornInv
<1>2. TornInv /\ [Next]_vars => TornInv'
  BY TypeStep, UncutStep, TornIsLastStep DEF TornInv
<1> QED
  BY <1>1, <1>2, PTL DEF Spec

\* The server executes what was sent, in that order and nothing else, and at most
\* the last command is spoilt, by a read that ended within it (readCommands,
\* sync_tcp.go:19-50), until a read begins at a star within a command.
THEOREM OnlyTheLastIsSpoilt == Spec => []Intact
<1>1. TornInv => Intact
  BY IntactIs DEF TornInv
<1> QED
  BY <1>1, TornInvHolds, PTL

\* As long as the connection is open, every command of which a byte has been read
\* has been executed, whole or spoilt: none waits for its rest (Decode,
\* resp.go:120-131), until a read begins at a star within a command.
THEOREM NothingWaits == Spec => []BegunIsExecuted
<1>1. TornInv => BegunIsExecuted
  BY BegunIs DEF TornInv
<1> QED
  BY <1>1, TornInvHolds, PTL

-----------------------------------------------------------------------------
(* Lines.                                                                  *)

\* A text without a CR, and the CRLF after it: a search for CR finds its end.
LEMMA LineReads ==
  ASSUME NEW b \in Seq(Nat), NEW n \in 0 .. Len(b), NEW p \in Nat, NEW t \in Seq(Nat),
         \A i \in 1 .. Len(t) : t[i] # CR,
         Holds(b, p, n, t), Holds(b, p + Len(t), n, CRLF)
  PROVE  CRAt(b, p, n) = p + Len(t) /\ p + Len(t) + 2 <= n /\ Slice(b, p, p + Len(t)) = t
<1> DEFINE e == CRAt(b, p, n)   m == Len(t)
<1>1. CRLF \in Seq(Nat) /\ Len(CRLF) = 2 /\ CRLF[1] = CR
  BY DEF CRLF, CR, LF
<1>2. m \in Nat /\ n \in Nat /\ (p + m) + 2 <= n /\ p \in 0 .. n
  BY <1>1 DEF Holds
<1>3. b[(p + m) + 1] = CR
  BY <1>1 DEF Holds
<1>4. \A i \in 1 .. m : b[p + i] # CR
  BY DEF Holds
<1>5. e \in p .. n /\ (e = n \/ b[e + 1] = CR) /\ \A j \in p .. e - 1 : b[j + 1] # CR
  BY <1>2, CRAtIs
<1>6. Slice(b, p, p + m) = t
  BY SliceIs
<1> HIDE DEF e, m
<1>7. ASSUME e < p + m PROVE FALSE
  <2>1. (e + 1) - p \in 1 .. m /\ p + ((e + 1) - p) = e + 1 /\ e # n
    BY <1>7, <1>2, <1>5
  <2> QED
    BY <2>1, <1>4, <1>5
<1>8. ASSUME e > p + m PROVE FALSE
  <2>1. p + m \in p .. e - 1
    BY <1>8, <1>2, <1>5
  <2> QED
    BY <2>1, <1>3, <1>5
<1>9. e = p + m
  BY <1>2, <1>5, <1>7, <1>8
<1> QED
  BY <1>2, <1>6, <1>9 DEF e, m

\* Digits hold no CR.
LEMMA DigitsAreNoCR == \A s \in Seq(Digits) : \A i \in 1 .. Len(s) : s[i] # CR /\ s[i] \in Digits
<1>1. CR \notin Digits
  BY DEF CR, Digits
<1> QED
  BY <1>1, ElementOfSeq

\* Java reads a length as Go does once it is there.
LEMMA LenReads ==
  ASSUME NEW b \in Seq(Nat), NEW n \in 0 .. Len(b), NEW p \in Nat, NEW k \in Nat,
         Holds(b, p, n, Decimal[k]), Holds(b, p + Len(Decimal[k]), n, CRLF)
  PROVE  readLen(b, p, n) = [length |-> k, next |-> p + Len(Decimal[k]) + 2]
<1> DEFINE e == DigitsEnd(b, p, n)   next == p + Len(Decimal[k]) + 2
           r == [length |-> k, next |-> next]
<1>1. readLength(b, p, n) = r
  BY LengthReads
<1>2. readLength(b, p, n) = IF e < n THEN Length(b, p, e) ELSE [length |-> 0, next |-> p]
  BY DEF readLength, DigitsEnd
<1>3. readLen(b, p, n) = Length(b, p, e)
  BY DEF readLen, DigitsEnd
<1>4. next # p /\ r.next = next
  BY DecimalReads
<1>5. [length |-> 0, next |-> p].next = p
  OBVIOUS
<1> HIDE DEF e, next, r
<1>6. e < n
  BY <1>1, <1>2, <1>4, <1>5
<1> QED
  BY <1>1, <1>2, <1>3, <1>6 DEF r, next
-----------------------------------------------------------------------------
(* Java.                                                                   *)

\* Digits stand for the same number in Java: none of them has a sign.
LEMMA JavaCounts ==
  ASSUME NEW s \in Seq(Digits)
  PROVE  JavaNumber(s) = Number(s)
<1> DEFINE Digit(i) == (IF s[i] < 128 THEN s[i] ELSE s[i] - 256) - 48
           Rec(g) == g = [i \in 0 .. Len(s) |-> IF i = 0 THEN 0 ELSE g[i - 1] * 10 + Digit(i)]
           h == CHOOSE g : Rec(g)
<1>1. Len(s) \in Nat /\ s \in Seq(Nat)
  BY DigitsAreNat
<1>2. PICK f \in [0 .. Len(s) -> Nat] : Counts(f, s)
  BY <1>1, CountsExist
<1>3. Number(s) = f[Len(s)]
  BY <1>1, <1>2, NumberIs
<1>4. ASSUME NEW i \in 1 .. Len(s) PROVE (s[i] - 48) % 256 = Digit(i)
  <2>1. s[i] \in 48 .. 57
    BY ElementOfSeq DEF Digits
  <2> QED
    BY <2>1
<1>5. \A i \in 1 .. Len(s) : f[i] = f[i - 1] * 10 + Digit(i)
  <2> HIDE DEF Digit
  <2> QED
    BY <1>2, <1>4 DEF Counts
<1>6. f[0] = 0
  BY <1>2 DEF Counts
<1>7. Rec(f)
  <2> HIDE DEF Digit
  <2>1. f = [i \in 0 .. Len(s) |-> f[i]]
    OBVIOUS
  <2>2. \A i \in 0 .. Len(s) : f[i] = IF i = 0 THEN 0 ELSE f[i - 1] * 10 + Digit(i)
    BY <1>1, <1>5, <1>6
  <2> QED
    BY <2>1, <2>2
<1>8. Rec(h)
  <2> HIDE DEF Rec
  <2> QED
    BY <1>7
<1>9. JavaNumber(s) = h[Len(s)]
  BY DEF JavaNumber
<1> HIDE DEF h, Digit
<1> DEFINE K == {i \in Nat : i <= Len(s) => h[i] = f[i]}
<1>10. 0 \in K
  BY <1>1, <1>6, <1>8
<1>11. \A i \in Nat : i \in K => i + 1 \in K
  <2> SUFFICES ASSUME NEW i \in Nat, i \in K, i + 1 <= Len(s) PROVE h[i + 1] = f[i + 1]
    OBVIOUS
  <2>1. i + 1 \in 0 .. Len(s) /\ i + 1 \in 1 .. Len(s) /\ i + 1 # 0 /\ (i + 1) - 1 = i /\ h[i] = f[i]
    BY <1>1
  <2>2. h[i + 1] = h[i] * 10 + Digit(i + 1)
    BY <2>1, <1>8
  <2>3. f[i + 1] = f[i] * 10 + Digit(i + 1)
    BY <2>1, <1>5
  <2> QED
    BY <2>1, <2>2, <2>3
<1> HIDE DEF K
<1>12. Len(s) \in K
  BY <1>1, <1>10, <1>11, NatInSet
<1> QED
  BY <1>1, <1>3, <1>9, <1>12 DEF K

\* What Java reads as a length: the digits up to the first other byte, however
\* many have come.
LEMMA LenType ==
  ASSUME NEW b \in Seq(Nat), NEW n \in 0 .. Len(b), NEW p \in 0 .. n
  PROVE  /\ DigitsEnd(b, p, n) \in p .. n
         /\ readLen(b, p, n) = [length |-> Number(Slice(b, p, DigitsEnd(b, p, n))),
                                next |-> DigitsEnd(b, p, n) + 2]
         /\ readLen(b, p, n).length \in Nat /\ readLen(b, p, n).next \in Nat
         /\ readLen(b, p, n).next >= p
<1> DEFINE e == DigitsEnd(b, p, n)
<1>1. n \in Nat /\ Len(b) \in Nat
  OBVIOUS
<1>2. e \in p .. n
  BY <1>1, DigitsEndIs
<1>3. readLen(b, p, n) = [length |-> Number(Slice(b, p, e)), next |-> e + 2]
  BY DEF readLen, DigitsEnd, Length
<1> HIDE DEF e
<1>4. Number(Slice(b, p, e)) \in Nat
  <2>1. Slice(b, p, e) \in Seq(Nat)
    BY <1>1, <1>2, SliceType
  <2> QED
    BY <2>1, NumberAppend
<1> QED
  BY <1>1, <1>2, <1>3, <1>4 DEF e

\* What stands at p depends only on what stands after it, and ends after it.
LEMMA JavaAgrees ==
  ASSUME NEW b \in Seq(Nat), NEW n \in 0 .. Len(b), NEW p \in 0 .. n - 1,
         NEW one, NEW two, Advances(one, p + 1, n),
         Agree(one, two, p + 1, n)
  PROVE  /\ decodeAt(b, p, n, two) = decodeAt(b, p, n, one)
         /\ Beyond(decodeAt(b, p, n, one), p + 1)
<1> DEFINE m == p + 1
<1>1. n \in Nat /\ p \in Nat /\ m \in 0 .. n /\ m \in Nat
  OBVIOUS
<1>2. Beyond(readSimple(b, m, n), m)
  <2> DEFINE e == CRAt(b, m, n)
  <2>1. e \in m .. n
    BY <1>1, CRAtIs
  <2>2. readSimple(b, m, n) = IF e >= n THEN Outcome("error") ELSE Value(Str(Slice(b, m, e)), e + 2)
    BY DEF readSimple, CRAt
  <2> HIDE DEF e
  <2> QED
    BY <1>1, <2>1, <2>2, SMTT(60) DEF Beyond, Value, Outcome
<1>3. Beyond(readLong(b, m, n), m)
  <2> DEFINE signed == m < n /\ b[m + 1] \in {Plus, Minus}
             from == IF signed THEN m + 1 ELSE m
             e == CRAt(b, from, n)
             v == JavaNumber(Slice(b, from, e))
             i == Int64(IF signed /\ b[m + 1] = Minus THEN -v ELSE v)
  <2>1. from \in 0 .. n /\ from >= m
    BY <1>1
  <2>2. readLong(b, m, n) = IF e >= n THEN Outcome("error") ELSE Value(Integer(i), e + 2)
    BY DEF readLong, CRAt
  <2> HIDE DEF from
  <2>3. e \in from .. n
    BY <1>1, <2>1, CRAtIs
  <2> HIDE DEF e, i
  <2> QED
    BY <1>1, <2>1, <2>2, <2>3, SMTT(60) DEF Beyond, Value, Outcome
<1> DEFINE r == readLen(b, m, n)
<1>4. r.length \in Nat /\ r.next \in Nat /\ r.next >= m
  BY <1>1, LenType
<1> HIDE DEF r
<1>5. Beyond(StringAt(b, r, "error"), m)
  <2> DEFINE s == Str(Slice(b, r.next, r.next + r.length))
             next == r.next + r.length + 2
  <2>2. StringAt(b, r, "error") = Outcome("error") \/ StringAt(b, r, "error") = Value(s, next)
    BY DEF StringAt
  <2>3. next \in Nat /\ next >= m
    BY <1>4, <1>1
  <2> HIDE DEF s, next
  <2> QED
    BY <2>2, <2>3 DEF Beyond, Value, Outcome
<1>6. Elements(two, r, n) = Elements(one, r, n) /\ Beyond(Throws(ArrayOf(Elements(one, r, n))), m)
  <2> DEFINE a == Elements(one, r, n)
  <2>0. m \in Nat /\ r.next >= m /\ Advances(one, m, n) /\ Agree(one, two, m, n)
    BY <1>1, <1>4
  <2> HIDE DEF m
  <2>1. Elements(two, r, n) = a /\ Beyond(a, m)
    BY <1>1, <1>4, <2>0, ElementsAgree
  <2> HIDE DEF a
  <2>3. Beyond(Throws(ArrayOf(a)), m)
    <3>1. CASE a.out = "value"
      <4>1. a = Value(a.val, a.next) /\ a.next \in Nat /\ a.next >= m
        BY <3>1, <2>1 DEF Beyond
      <4>2. ArrayOf(a) = Value(Arr(a.val), a.next)
        BY <3>1, <4>1 DEF ArrayOf, Value
      <4>3. Throws(ArrayOf(a)) = Value(Arr(a.val), a.next)
        BY <4>2 DEF Throws, Value
      <4> QED
        BY <4>1, <4>3 DEF Beyond, Value
    <3>2. CASE a.out # "value"
      BY <3>2 DEF ArrayOf, Beyond, Throws, Outcome
    <3> QED
      BY <3>1, <3>2
  <2> QED
    BY <2>1, <2>3 DEF a
<1>7. Beyond(Outcome("error"), m)
  BY DEF Beyond, Outcome
<1> QED
  BY <1>2, <1>3, <1>5, <1>6, <1>7 DEF decodeAt, r

\* decodeOne exists, and what stands anywhere is read from what stands later.
LEMMA JavaOneIs ==
  ASSUME NEW b \in Seq(Nat)
  PROVE  LET one == decodeOne(b)
         IN \A p \in 0 .. Len(b) - 1 : one[p] = decodeAt(b, p, Len(b), one)
<1> DEFINE
     n == Len(b)
     From(one, m) == /\ one = [p \in 0 .. n - 1 |-> one[p]]
                     /\ Advances(one, n - m, n)
                     /\ \A p \in n - m .. n - 1 : one[p] = decodeAt(b, p, n, one)
     Rec(one) == one = [p \in 0 .. n - 1 |-> decodeAt(b, p, n, one)]
     K == {m \in Nat : m <= n => \E one : From(one, m)}
<1>0. n \in Nat /\ n \in 0 .. Len(b)
  OBVIOUS
<1>00. decodeOne(b) = CHOOSE x : Rec(x)
  BY DEF decodeOne
<1> HIDE DEF n
<1>1. 0 \in K
  <2> DEFINE one == [p \in 0 .. n - 1 |-> NoValue]
  <2>1. one = [p \in 0 .. n - 1 |-> one[p]]
    OBVIOUS
  <2> HIDE DEF one
  <2>2. From(one, 0)
    BY <1>0, <2>1 DEF Advances
  <2> HIDE DEF From
  <2> QED
    BY <2>2
<1>2. \A m \in Nat : m \in K => m + 1 \in K
  <2> SUFFICES ASSUME NEW m \in Nat, m \in K, m + 1 <= n PROVE \E one : From(one, m + 1)
    BY SMTT(60)
  <2>1. PICK one : From(one, m)
    BY <1>0
  <2> DEFINE g == [p \in 0 .. n - 1 |-> decodeAt(b, p, n, one)]
  <2>2. g = [p \in 0 .. n - 1 |-> g[p]]
    OBVIOUS
  <2>2a. \A p \in 0 .. n - 1 : g[p] = decodeAt(b, p, n, one)
    OBVIOUS
  <2> HIDE DEF g
  <2>2b. Advances(one, n - m, n) /\ \A p \in n - m .. n - 1 : one[p] = decodeAt(b, p, n, one)
    BY <2>1
  <2>3. \A p \in n - m .. n - 1 : g[p] = one[p]
    BY <1>0, <2>2a, <2>2b, SMTT(60)
  <2>4. ASSUME NEW p \in n - (m + 1) .. n - 1
        PROVE  g[p] = decodeAt(b, p, n, g) /\ Beyond(g[p], p + 1)
    <3>1. p \in 0 .. n - 1 /\ p + 1 \in n - m .. n
      BY <1>0, SMTT(60)
    <3>2. Advances(one, p + 1, n) /\ Agree(one, g, p + 1, n)
      BY <1>0, <2>3, <2>2b, <3>1, SMTT(60) DEF Advances, Agree
    <3>3. /\ decodeAt(b, p, n, g) = decodeAt(b, p, n, one)
          /\ Beyond(decodeAt(b, p, n, one), p + 1)
      BY <1>0, <3>1, <3>2, JavaAgrees
    <3> QED
      BY <2>2a, <3>1, <3>3
  <2>5. From(g, m + 1)
    BY <2>2, <2>4 DEF Advances
  <2> HIDE DEF From
  <2> QED
    BY <2>5
<1>3. PICK one : From(one, n)
  <2> HIDE DEF From
  <2>1. n \in K
    <3> HIDE DEF K
    <3> QED
      BY <1>0, <1>1, <1>2, NatInSet
  <2> QED
    BY <2>1
<1>4. Rec(one)
  <2>1. \A p \in 0 .. n - 1 : p \in n - n .. n - 1
    BY <1>0
  <2> QED
    BY <2>1, <1>3
<1> DEFINE o == CHOOSE x : Rec(x)
<1>5. Rec(o)
  <2> HIDE DEF Rec
  <2> QED
    BY <1>4
<1> HIDE DEF o
<1>7. \A p \in 0 .. n - 1 : o[p] = decodeAt(b, p, n, o)
  BY <1>5
<1>8. decodeOne(b) = o
  BY <1>00 DEF o
<1> QED
  BY <1>7, <1>8 DEF n
-----------------------------------------------------------------------------
(* Elements.                                                               *)

\* The first i of some values.
UpTo(vals, i) == [j \in 1 .. i |-> vals[j]]

\* One more value.
LEMMA UpToNext ==
  ASSUME NEW S, NEW vals \in Seq(S), NEW i \in Nat, i + 1 <= Len(vals)
  PROVE  Append(UpTo(vals, i), vals[i + 1]) = UpTo(vals, i + 1)
<1> DEFINE m == Len(vals)
           s == UpTo(vals, i)   u == vals[i + 1]   w == UpTo(vals, i + 1)
<1>1. m \in Nat /\ \A j \in 1 .. i + 1 : j \in 1 .. m
  BY LenProperties
<1>2. \A j \in 1 .. i + 1 : vals[j] \in S
  BY <1>1, ElementOfSeq
<1>3. s \in Seq(S) /\ w \in Seq(S) /\ Len(s) = i /\ Len(w) = i + 1 /\ u \in S
  BY <1>2, IsASeq, LenProperties DEF UpTo
<1>4. w[i + 1] = u /\ \A j \in 1 .. i : w[j] = s[j]
  BY DEF UpTo
<1> HIDE DEF s, u, w
<1>5. /\ Append(s, u) \in Seq(S) /\ Len(Append(s, u)) = i + 1 /\ Append(s, u)[i + 1] = u
      /\ \A j \in 1 .. i : Append(s, u)[j] = s[j]
  BY <1>3, AppendTypes
<1>6. \A j \in 1 .. i + 1 : Append(s, u)[j] = w[j]
  BY <1>4, <1>5
<1>7. Append(s, u) = w
  BY <1>3, <1>5, <1>6, SeqEqual
<1> QED
  BY <1>7 DEF s, u, w

\* Element i of an array stands at f[i - 1] and ends at f[i], for the first k.
Placed(one, n, k, vals, f) ==
  /\ \A i \in 0 .. k : f[i] \in Nat
  /\ \A i \in 1 .. k : f[i - 1] < n /\ one[f[i - 1]] = Value(vals[i], f[i])

\* An element that is a value is appended.
LEMMA ElementJoins ==
  ASSUME NEW n \in Nat, NEW one, NEW s, NEW u, NEW q \in Nat, NEW next, q < n,
         one[q] = Value(u, next)
  PROVE  WithElement(one, Value(s, q), n) = Value(Append(s, u), next)
<1> DEFINE a == Value(s, q)
<1>1. a.out = "value" /\ a.next = q /\ a.val = s /\ ~(q > n) /\ q # n
  BY DEF Value
<1>2. one[q].out = "value" /\ one[q].val = u /\ one[q].next = next
  BY DEF Value
<1> HIDE DEF a
<1>3. WithElement(one, a, n) = Value(Append(s, u), next)
  BY <1>1, <1>2 DEF WithElement
<1> QED
  BY <1>3 DEF a

\* After k elements their values have been read.
LEMMA PlacedRead ==
  ASSUME NEW n \in Nat, NEW one, NEW m \in Nat, NEW k \in 0 .. m, NEW S, NEW vals \in Seq(S),
         k <= Len(vals), NEW f, Placed(one, n, k, vals, f),
         NEW g, Reads(g, one, Value(<<>>, f[0]), n, m)
  PROVE  g[k] = Value(UpTo(vals, k), f[k])
<1>1. g[0] = Value(<<>>, f[0]) /\ \A i \in 1 .. m : g[i] = WithElement(one, g[i - 1], n)
  <2> DEFINE v == Value(<<>>, f[0])
  <2> HIDE DEF v
  <2>1. g = [i \in 0 .. m |-> IF i = 0 THEN v ELSE WithElement(one, g[i - 1], n)]
    BY DEF Reads, v
  <2>2. 0 \in 0 .. m /\ \A i \in 1 .. m : i \in 0 .. m /\ i # 0
    OBVIOUS
  <2>3. g[0] = v
    BY ONLY <2>1, <2>2
  <2>4. \A i \in 1 .. m : g[i] = WithElement(one, g[i - 1], n)
    BY ONLY <2>1, <2>2
  <2> QED
    BY <2>3, <2>4 DEF v
<1> DEFINE right(i) == g[i] = Value(UpTo(vals, i), f[i])
           K == {i \in Nat : i <= k => right(i)}
<1>2. 0 \in K
  <2>1. UpTo(vals, 0) = <<>>
    BY DEF UpTo
  <2> QED
    BY <1>1, <2>1
<1>3. ASSUME NEW i \in Nat, i + 1 <= k, right(i) PROVE right(i + 1)
  <2>1. i + 1 \in 1 .. m /\ i + 1 \in 1 .. k /\ (i + 1) - 1 = i /\ i \in 0 .. k /\ i + 1 <= Len(vals)
    BY <1>3, LenProperties
  <2> DEFINE q == f[i]   next == f[i + 1]   u == vals[i + 1]   s == UpTo(vals, i)
  <2>2. q \in Nat /\ q < n /\ one[q] = Value(u, next)
    <3>1. f[(i + 1) - 1] < n /\ one[f[(i + 1) - 1]] = Value(vals[i + 1], f[i + 1])
      BY <2>1 DEF Placed
    <3>2. f[i] \in Nat
      BY <2>1 DEF Placed
    <3> QED
      BY <3>1, <3>2, <2>1
  <2>3. g[i + 1] = WithElement(one, Value(s, q), n)
    BY <1>1, <1>3, <2>1
  <2>4. Append(s, u) = UpTo(vals, i + 1)
    BY <2>1, UpToNext
  <2> HIDE DEF q, next, u, s
  <2>5. WithElement(one, Value(s, q), n) = Value(Append(s, u), next)
    BY <2>2, ElementJoins
  <2> QED
    BY <2>3, <2>4, <2>5 DEF next
<1>4. \A i \in Nat : i \in K => i + 1 \in K
  <2>1. k \in Nat /\ \A i \in Nat : i + 1 <= k /\ right(i) => right(i + 1)
    BY <1>3
  <2> HIDE DEF right
  <2> QED
    BY ONLY <2>1
<1>5. k \in K
  <2> HIDE DEF K
  <2> QED
    BY <1>2, <1>4, NatInSet
<1> QED
  BY <1>5

\* An array whose elements are all placed is read.
LEMMA ElementsPlaced ==
  ASSUME NEW n \in Nat, NEW one, NEW S, NEW vals \in Seq(S), NEW f,
         Placed(one, n, Len(vals), vals, f),
         NEW r, r.length = Len(vals), r.next = f[0]
  PROVE  Elements(one, r, n) = Value(vals, f[Len(vals)])
<1> DEFINE m == Len(vals)
<1>1. m \in Nat /\ m \in 0 .. m
  BY LenProperties
<1>2. PICK g : Reads(g, one, Value(<<>>, f[0]), n, m)
  BY <1>1, ReadsExist
<1>3. UpTo(vals, m) = vals
  <2>1. vals = [j \in 1 .. m |-> vals[j]]
    BY LenProperties
  <2> QED
    BY <2>1 DEF UpTo
<1>4. m <= Len(vals) /\ Placed(one, n, m, vals, f)
  BY <1>1
<1>5. r.length = m
  OBVIOUS
<1> HIDE DEF m
<1>6. g[m] = Value(UpTo(vals, m), f[m])
  BY <1>1, <1>2, <1>4, PlacedRead
<1>7. Elements(one, r, n) = g[r.length]
  <2>1. r.length \in Nat /\ Reads(g, one, Value(<<>>, r.next), n, r.length)
    BY <1>1, <1>2, <1>5
  <2> QED
    BY ONLY <2>1, ElementsAre
<1> QED
  BY <1>3, <1>5, <1>6, <1>7 DEF m

\* An array is not read if one of its elements would stand at n or after it, or
\* is none.
LEMMA ElementsStop ==
  ASSUME NEW n \in Nat, NEW one, NEW m \in Nat, NEW k \in 0 .. m - 1, NEW S, NEW vals \in Seq(S),
         k <= Len(vals), NEW f, Placed(one, n, k, vals, f),
         f[k] >= n \/ one[f[k]].out \in {"panic", "error"},
         NEW r, r.length = m, r.next = f[0]
  PROVE  Elements(one, r, n).out # "value"
<1>1. PICK g : Reads(g, one, Value(<<>>, f[0]), n, m)
  BY ReadsExist
<1>2. k \in 0 .. m /\ k \in Nat /\ k + 1 \in 1 .. m
  OBVIOUS
<1>3. g[k] = Value(UpTo(vals, k), f[k])
  BY <1>1, <1>2, PlacedRead
<1>4. \A i \in 1 .. m : g[i] = WithElement(one, g[i - 1], n)
  <2> DEFINE v == Value(<<>>, f[0])
  <2> HIDE DEF v
  <2>1. g = [i \in 0 .. m |-> IF i = 0 THEN v ELSE WithElement(one, g[i - 1], n)]
    BY <1>1 DEF Reads, v
  <2>2. \A i \in 1 .. m : i \in 0 .. m /\ i # 0
    OBVIOUS
  <2> QED
    BY ONLY <2>1, <2>2
<1>5. g[k + 1].out # "value"
  <2> DEFINE a == g[k]   q == f[k]
  <2>1. a.out = "value" /\ a.next = q /\ q \in Nat
    BY <1>2, <1>3 DEF Value, Placed
  <2>2. g[k + 1] = WithElement(one, a, n)
    BY <1>2, <1>4
  <2>3. q >= n \/ one[q].out \in {"panic", "error"}
    OBVIOUS
  <2> HIDE DEF a, q
  <2>4. WithElement(one, a, n).out # "value"
    BY <2>1, <2>3 DEF WithElement, Outcome
  <2> QED
    BY <2>2, <2>4
<1> DEFINE K == {i \in Nat : i >= k + 1 /\ i <= m => g[i].out # "value"}
<1>6. 0 \in K
  OBVIOUS
<1>7. \A i \in Nat : i \in K => i + 1 \in K
  <2> SUFFICES ASSUME NEW i \in Nat, i \in K, i + 1 >= k + 1, i + 1 <= m PROVE g[i + 1].out # "value"
    OBVIOUS
  <2>1. CASE i = k
    BY <2>1, <1>5
  <2>2. CASE i # k
    <3>1. g[i].out # "value" /\ i + 1 \in 1 .. m /\ (i + 1) - 1 = i
      BY <2>2
    <3> HIDE DEF K
    <3>2. g[i + 1] = WithElement(one, g[i], n)
      BY <3>1, <1>4
    <3>3. WithElement(one, g[i], n) = g[i]
      BY <3>1 DEF WithElement
    <3> QED
      BY <3>1, <3>2, <3>3
  <2> QED
    BY <2>1, <2>2
<1>8. m \in K
  <2> HIDE DEF K
  <2> QED
    BY <1>6, <1>7, NatInSet
<1>9. Elements(one, r, n) = g[m]
  <2>1. r.length \in Nat /\ Reads(g, one, Value(<<>>, r.next), n, r.length)
    BY <1>1
  <2>2. Elements(one, r, n) = g[r.length]
    BY ONLY <2>1, ElementsAre
  <2> QED
    BY <2>2
<1> QED
  BY <1>2, <1>8, <1>9
-----------------------------------------------------------------------------
(* Arrays of anything.                                                     *)

\* The head of a gathering.
GatheredHead(seqs) == (<<Star>> \o Decimal[Len(seqs)]) \o CRLF

\* A gathering is made of bytes: a head and what is gathered.
LEMMA TxnType ==
  ASSUME NEW seqs \in Seq(Seq(Nat))
  PROVE  /\ TxnExec(seqs) \in Seq(Nat) /\ Len(TxnExec(seqs)) \in Nat \ {0}
         /\ TxnExec(seqs) = GatheredHead(seqs) \o FlattenSeq(seqs)
         /\ GatheredHead(seqs) \in Seq(Nat) /\ FlattenSeq(seqs) \in Seq(Nat)
<1> DEFINE x == <<Star>>   d == Decimal[Len(seqs)]   z == FlattenSeq(seqs)
<1>1. /\ d \in Seq(Nat) /\ Len(d) \in Nat \ {0} /\ CRLF \in Seq(Nat)
      /\ x \in Seq(Nat) /\ Len(x) = 1
  BY DecimalReads, DigitsAreNat, LenProperties DEF Star, CRLF, CR, LF
<1>2. z \in Seq(Nat)
  <2>1. <<>> \in Seq(Nat)
    OBVIOUS
  <2> QED
    BY <2>1, FlattenAppend
<1>3. TxnExec(seqs) = ((x \o d) \o CRLF) \o z
  BY DEF TxnExec
<1>4. GatheredHead(seqs) = (x \o d) \o CRLF
  BY DEF GatheredHead
<1> HIDE DEF x, d, z
<1>5. x \o d \in Seq(Nat) /\ Len(x \o d) = 1 + Len(d)
  BY <1>1, ConcatProperties
<1> DEFINE u == x \o d
<1>6. u \in Seq(Nat) /\ Len(u) \in Nat \ {0}
  BY <1>1, <1>5
<1> HIDE DEF u
<1>7. u \o CRLF \in Seq(Nat) /\ Len(u \o CRLF) \in Nat \ {0}
  <2>1. u \o CRLF \in Seq(Nat) /\ Len(u \o CRLF) = Len(u) + Len(CRLF) /\ Len(CRLF) \in Nat
    BY <1>1, <1>6, ConcatProperties, LenProperties
  <2> QED
    BY <2>1, <1>6
<1> DEFINE v == u \o CRLF
<1>8. v \in Seq(Nat) /\ Len(v) \in Nat \ {0}
  BY <1>7
<1> HIDE DEF v
<1>9. v \o z \in Seq(Nat) /\ Len(v \o z) \in Nat \ {0}
  <2>1. v \o z \in Seq(Nat) /\ Len(v \o z) = Len(v) + Len(z) /\ Len(z) \in Nat
    BY <1>2, <1>8, ConcatProperties, LenProperties
  <2> QED
    BY <2>1, <1>8
<1>10. GatheredHead(seqs) = v /\ TxnExec(seqs) = v \o z
  BY <1>3, <1>4 DEF v, u
<1> QED
  BY <1>2, <1>8, <1>9, <1>10 DEF z

\* A gathering stands at p: its head is read, and f[i] is where the i-th of what
\* is gathered ends.
Gathered(b, p, n, seqs, f) ==
  /\ p < n /\ b[p + 1] = Star
  /\ readLength(b, p + 1, n) = [length |-> Len(seqs), next |-> f[0]]
  /\ readLen(b, p + 1, n) = [length |-> Len(seqs), next |-> f[0]]
  /\ \A i \in 0 .. Len(seqs) : f[i] \in Nat
  /\ \A i \in 1 .. Len(seqs) : Holds(b, f[i - 1], n, seqs[i]) /\ f[i] = f[i - 1] + Len(seqs[i])
  /\ f[Len(seqs)] = p + Len(TxnExec(seqs)) /\ f[Len(seqs)] <= n

\* So it does where its bytes stand.
LEMMA GatheredStands ==
  ASSUME NEW b \in Seq(Nat), NEW n \in 0 .. Len(b), NEW p \in Nat, NEW seqs \in Seq(Seq(Nat)),
         Holds(b, p, n, TxnExec(seqs))
  PROVE  \E f : Gathered(b, p, n, seqs, f)
<1> DEFINE m == Len(seqs)
           d == Decimal[m]
           x == <<Star>>
           u == x \o d
           v == u \o CRLF
           z == FlattenSeq(seqs)
<1>1. /\ d \in Seq(Nat) /\ Len(d) \in Nat \ {0} /\ m \in Nat /\ n \in Nat
      /\ CRLF \in Seq(Nat) /\ Len(CRLF) = 2 /\ x \in Seq(Nat) /\ Len(x) = 1 /\ x[1] = Star
  BY DecimalReads, DigitsAreNat, LenProperties DEF Star, CRLF, CR, LF
<1>2. TxnExec(seqs) = v \o z /\ v \in Seq(Nat) /\ z \in Seq(Nat)
  BY TxnType DEF GatheredHead
<1> HIDE DEF d, x
<1>3. u \in Seq(Nat)
  BY <1>1, ConcatProperties
<1>4. PICK g \in [0 .. m -> Seq(Nat)] : Joins(g, seqs)
  BY JoinsExist
<1>5. z = g[m]
  BY <1>4, FlattenIs
<1> HIDE DEF z
<1>7. Holds(b, p, n, v) /\ Holds(b, p + Len(v), n, z) /\ Len(TxnExec(seqs)) = Len(v) + Len(z)
  <2>1. v \in Seq(Nat) /\ z \in Seq(Nat) /\ n \in Nat /\ p \in Nat
    BY <1>1, <1>2
  <2>2. Holds(b, p, n, v \o z)
    BY <1>2
  <2> HIDE DEF v
  <2>3. Holds(b, p, n, v) /\ Holds(b, p + Len(v), n, z) /\ Len(v \o z) = Len(v) + Len(z)
    BY ONLY <2>1, <2>2, HoldsParts
  <2> QED
    BY <2>3, <1>2
<1>8. Holds(b, p, n, u) /\ Holds(b, p + Len(u), n, CRLF) /\ Len(v) = Len(u) + Len(CRLF)
  <2>1. u \in Seq(Nat) /\ CRLF \in Seq(Nat) /\ n \in Nat /\ p \in Nat
    BY <1>1, <1>3
  <2> HIDE DEF u
  <2> QED
    BY ONLY <2>1, <1>7, HoldsParts
<1>9. Holds(b, p, n, x) /\ Holds(b, p + Len(x), n, d) /\ Len(u) = Len(x) + Len(d)
  <2>1. x \in Seq(Nat) /\ d \in Seq(Nat) /\ n \in Nat /\ p \in Nat
    BY <1>1
  <2> QED
    BY ONLY <2>1, <1>8, HoldsParts
<1> HIDE DEF u, v
<1> DEFINE q == p + Len(v)
           f == [i \in 0 .. m |-> q + Len(g[i])]
<1>10. /\ q \in Nat /\ q = (p + 1) + Len(d) + 2 /\ p + Len(TxnExec(seqs)) = q + Len(z)
       /\ p + Len(u) = (p + 1) + Len(d) /\ p + Len(x) = p + 1
       /\ q + Len(z) <= n /\ b[p + 1] = Star /\ p < n
  <2>1. Len(z) \in Nat /\ (p + Len(v)) + Len(z) <= n
    BY <1>2, <1>7, LenProperties DEF Holds
  <2>2. b[p + 1] = Star
    BY <1>1, <1>9 DEF Holds
  <2> DEFINE lz == Len(z)   lv == Len(v)   lu == Len(u)   ld == Len(d)   le == Len(TxnExec(seqs))
  <2>3. /\ lz \in Nat /\ ld \in Nat \ {0} /\ lu = 1 + ld /\ lv = lu + 2 /\ le = lv + lz
        /\ (p + lv) + lz <= n /\ Len(x) = 1 /\ n \in Nat
    BY <1>1, <1>7, <1>8, <1>9, <2>1
  <2> HIDE DEF lz, lv, lu, ld, le
  <2>4. /\ p + lv \in Nat /\ p + lv = (p + 1) + ld + 2 /\ p + le = (p + lv) + lz
        /\ p + lu = (p + 1) + ld /\ p + Len(x) = p + 1 /\ p < n
    BY <2>3
  <2> QED
    BY <2>1, <2>2, <2>4 DEF lz, lv, lu, ld, le
<1>11. /\ readLength(b, p + 1, n) = [length |-> m, next |-> q]
       /\ readLen(b, p + 1, n) = [length |-> m, next |-> q]
  <2>1. Holds(b, p + 1, n, Decimal[m]) /\ Holds(b, (p + 1) + Len(Decimal[m]), n, CRLF)
    BY <1>8, <1>9, <1>10 DEF d
  <2> DEFINE s == p + 1
  <2>2. Holds(b, s, n, Decimal[m]) /\ Holds(b, s + Len(Decimal[m]), n, CRLF)
    BY ONLY <2>1
  <2>3. s \in Nat /\ m \in Nat /\ b \in Seq(Nat) /\ n \in 0 .. Len(b)
    BY <1>1
  <2> HIDE DEF s, m
  <2>4. readLength(b, s, n) = [length |-> m, next |-> s + Len(Decimal[m]) + 2]
    BY ONLY <2>2, <2>3, LengthReads
  <2>5. readLen(b, s, n) = [length |-> m, next |-> s + Len(Decimal[m]) + 2]
    BY ONLY <2>2, <2>3, LenReads
  <2> QED
    BY <2>4, <2>5, <1>10 DEF s, d
<1>12. /\ Len(g[0]) = 0 /\ \A i \in 0 .. m : Len(g[i]) \in Nat
       /\ \A i \in 1 .. m : /\ Len(g[i]) = Len(g[i - 1]) + Len(seqs[i])
                            /\ Holds(b, q + Len(g[i - 1]), n, seqs[i])
  <2>1. /\ n \in Nat /\ q \in Nat /\ seqs \in Seq(Seq(Nat))
        /\ g \in [0 .. Len(seqs) -> Seq(Nat)] /\ Joins(g, seqs) /\ Holds(b, q, n, g[Len(seqs)])
    BY <1>1, <1>4, <1>5, <1>7, <1>10
  <2> HIDE DEF q
  <2> QED
    BY ONLY <2>1, HoldsJoins
<1>13. \A i \in 1 .. m : Len(seqs[i]) \in Nat
  BY ElementOfSeq, LenProperties
<1> HIDE DEF q
<1>14. \A i \in 0 .. m : f[i] = q + Len(g[i]) /\ f[i] \in Nat
  BY <1>10, <1>12
<1>15. f[0] = q /\ f[m] = q + Len(z)
  <2>1. 0 \in 0 .. m /\ m \in 0 .. m
    BY <1>1
  <2>2. f[0] = q + Len(g[0]) /\ f[m] = q + Len(g[m])
    BY <2>1, <1>14
  <2> HIDE DEF f
  <2>3. q + 0 = q
    BY <1>10
  <2> QED
    BY <2>2, <2>3, <1>5, <1>12
<1>16. ASSUME NEW i \in 1 .. m
       PROVE  Holds(b, f[i - 1], n, seqs[i]) /\ f[i] = f[i - 1] + Len(seqs[i])
  <2>1. i \in 0 .. m /\ i - 1 \in 0 .. m
    BY <1>1
  <2>2. f[i] = q + Len(g[i]) /\ f[i - 1] = q + Len(g[i - 1])
    BY <2>1, <1>14
  <2> HIDE DEF f
  <2> DEFINE y == Len(g[i - 1])   w == Len(seqs[i])
  <2>3. y \in Nat /\ w \in Nat /\ Len(g[i]) = y + w
    BY <2>1, <1>12, <1>13
  <2> HIDE DEF y, w
  <2>4. q + (y + w) = (q + y) + w
    BY <2>3, <1>10
  <2>5. f[i] = f[i - 1] + w
    BY <2>2, <2>3, <2>4 DEF y
  <2> QED
    BY <2>2, <2>5, <1>12 DEF w
<1> HIDE DEF f
<1>17. Gathered(b, p, n, seqs, f)
  BY <1>10, <1>11, <1>14, <1>15, <1>16 DEF Gathered
<1> QED
  BY <1>17

\* What stands where s stands is v, and takes all of s.
Sees(one, n, q, v, s) == q < n /\ one[q] = Value(v, q + Len(s))

\* Wherever s stands, Go reads g and all of s, and Java j and all of s.
ReadByBoth(s, g, j) ==
  /\ s \in Seq(Nat) /\ Len(s) \in Nat \ {0}
  /\ \A b \in Seq(Nat) : \A n \in 0 .. Len(b) : \A q \in Nat :
       Holds(b, q, n, s) => Sees(DecodeOne(b, n), n, q, g, s)
  /\ \A b \in Seq(Nat) : \A q \in Nat :
       Holds(b, q, Len(b), s) => Sees(decodeOne(b), Len(b), q, j, s)

\* Where each part of a gathering is read, its elements are placed.
LEMMA GatheredPlaced ==
  ASSUME NEW b, NEW n \in Nat, NEW p, NEW seqs \in Seq(Seq(Nat)), NEW vals, NEW f,
         Gathered(b, p, n, seqs, f), NEW one,
         \A i \in 1 .. Len(seqs) : \A q \in Nat :
           Holds(b, q, n, seqs[i]) => Sees(one, n, q, vals[i], seqs[i])
  PROVE  Placed(one, n, Len(seqs), vals, f)
<1>1. \A i \in 0 .. Len(seqs) : f[i] \in Nat
  BY DEF Gathered
<1>2. ASSUME NEW i \in 1 .. Len(seqs)
      PROVE  f[i - 1] < n /\ one[f[i - 1]] = Value(vals[i], f[i])
  <2>1. i - 1 \in 0 .. Len(seqs)
    BY LenProperties
  <2>2. Holds(b, f[i - 1], n, seqs[i]) /\ f[i] = f[i - 1] + Len(seqs[i]) /\ f[i - 1] \in Nat
    BY <2>1 DEF Gathered
  <2>3. Sees(one, n, f[i - 1], vals[i], seqs[i])
    BY <2>2
  <2> QED
    BY <2>2, <2>3 DEF Sees
<1> QED
  BY <1>1, <1>2 DEF Placed

\* A gathering of what both decoders read is read by both.
LEMMA GatheringsRead ==
  ASSUME NEW seqs \in Seq(Seq(Nat)), NEW S, NEW vals \in Seq(S), Len(vals) = Len(seqs),
         NEW R, NEW others \in Seq(R), Len(others) = Len(seqs),
         \A i \in 1 .. Len(seqs) : ReadByBoth(seqs[i], vals[i], others[i])
  PROVE  ReadByBoth(TxnExec(seqs), Arr(vals), Arr(others))
<1> DEFINE s == TxnExec(seqs)   m == Len(seqs)   v == Arr(vals)   o == Arr(others)
<1>1. s \in Seq(Nat) /\ Len(s) \in Nat \ {0}
  BY TxnType
<1>2. ASSUME NEW b \in Seq(Nat), NEW n \in 0 .. Len(b), NEW q \in Nat, Holds(b, q, n, s)
      PROVE  Sees(DecodeOne(b, n), n, q, v, s)
  <2> DEFINE one == DecodeOne(b, n)   r == readLength(b, q + 1, n)
  <2>0. n \in Nat
    OBVIOUS
  <2>1. PICK f : Gathered(b, q, n, seqs, f)
    BY <1>2, GatheredStands
  <2>2. /\ q < n /\ b[q + 1] = Star /\ r = [length |-> m, next |-> f[0]]
        /\ f[m] = q + Len(s)
    BY <2>1 DEF Gathered
  <2>3. r.length = Len(vals) /\ r.next = f[0]
    BY <2>2
  <2>4. \A i \in 1 .. m : \A p \in Nat : Holds(b, p, n, seqs[i]) => Sees(one, n, p, vals[i], seqs[i])
    BY DEF ReadByBoth
  <2>5. one[q] = DecodeAt(b, q, n, one)
    <3>1. q \in 0 .. n - 1
      BY <2>0, <2>2
    <3> QED
      BY <3>1, DecodeOneIs
  <2> HIDE DEF one, r, s
  <2>6. Placed(one, n, m, vals, f)
    BY <2>0, <2>1, <2>4, GatheredPlaced
  <2>7. Elements(one, r, n) = Value(vals, f[m])
    <3>1. Placed(one, n, Len(vals), vals, f)
      BY <2>6
    <3>2. Elements(one, r, n) = Value(vals, f[Len(vals)])
      BY <2>0, <2>3, <3>1, ElementsPlaced
    <3> QED
      BY <3>2
  <2>8. DecodeAt(b, q, n, one) = ArrayOf(Elements(one, r, n))
    <3>1. Star \notin {Plus, Minus} /\ Star # Colon /\ Dollar # Star
      BY DEF Dollar, Plus, Minus, Colon, Star
    <3> QED
      BY <2>2, <3>1 DEF DecodeAt, readArray, r
  <2>9. ArrayOf(Value(vals, f[m])) = Value(v, f[m])
    BY DEF ArrayOf, Value
  <2>10. Sees(one, n, q, v, s)
    BY <2>2, <2>5, <2>7, <2>8, <2>9 DEF Sees
  <2> QED
    BY <2>10 DEF one
<1>3. ASSUME NEW b \in Seq(Nat), NEW q \in Nat, Holds(b, q, Len(b), s)
      PROVE  Sees(decodeOne(b), Len(b), q, o, s)
  <2> DEFINE n == Len(b)   one == decodeOne(b)   r == readLen(b, q + 1, n)
  <2>0. n \in Nat /\ n \in 0 .. Len(b)
    OBVIOUS
  <2>00. Holds(b, q, n, s)
    BY <1>3
  <2>4. \A i \in 1 .. m : \A p \in Nat : Holds(b, p, n, seqs[i]) => Sees(one, n, p, others[i], seqs[i])
    BY DEF ReadByBoth
  <2>40. \A x \in 0 .. n - 1 : one[x] = decodeAt(b, x, n, one)
    BY JavaOneIs
  <2> HIDE DEF n
  <2>1. PICK f : Gathered(b, q, n, seqs, f)
    BY <2>0, <2>00, GatheredStands
  <2>2. /\ q < n /\ b[q + 1] = Star /\ r = [length |-> m, next |-> f[0]]
        /\ f[m] = q + Len(s)
    BY <2>1 DEF Gathered
  <2>3. r.length = Len(others) /\ r.next = f[0]
    BY <2>2
  <2>5. one[q] = decodeAt(b, q, n, one)
    <3>1. q \in 0 .. n - 1
      BY <2>0, <2>2
    <3> QED
      BY <3>1, <2>40
  <2> HIDE DEF one, r, s
  <2>6. Placed(one, n, m, others, f)
    BY <2>0, <2>1, <2>4, GatheredPlaced
  <2>7. Elements(one, r, n) = Value(others, f[m])
    <3>1. Placed(one, n, Len(others), others, f)
      BY <2>6
    <3>2. Elements(one, r, n) = Value(others, f[Len(others)])
      BY <2>0, <2>3, <3>1, ElementsPlaced
    <3> QED
      BY <3>2
  <2>8. decodeAt(b, q, n, one) = Throws(ArrayOf(Elements(one, r, n)))
    <3>1. Star \notin {Plus, Minus} /\ Star # Colon /\ Dollar # Star
      BY DEF Dollar, Plus, Minus, Colon, Star
    <3> QED
      BY <2>2, <3>1 DEF decodeAt, r
  <2>9. Throws(ArrayOf(Value(others, f[m]))) = Value(o, f[m])
    BY DEF ArrayOf, Value, Throws
  <2>10. Sees(one, n, q, o, s)
    BY <2>2, <2>5, <2>7, <2>8, <2>9 DEF Sees
  <2> QED
    BY <2>10 DEF n, one
<1> HIDE DEF s, v, o
<1>4. ReadByBoth(s, v, o)
  BY <1>1, <1>2, <1>3 DEF ReadByBoth
<1> QED
  BY <1>4 DEF s, v, o

\* Alone, it is the one value there is.
LEMMA ReadAlone ==
  ASSUME NEW s, NEW g, NEW j, ReadByBoth(s, g, j)
  PROVE  Decode(s, Len(s)) = Value(<<g>>, Len(s)) /\ decode(s) = Value(j, Len(s))
<1> DEFINE n == Len(s)   one == DecodeOne(s, n)   all == Values(one, n)
<1>1. s \in Seq(Nat) /\ n \in Nat \ {0} /\ n \in 0 .. Len(s)
  BY DEF ReadByBoth
<1>2. Holds(s, 0, n, s)
  <2>1. 0 + Len(s) <= n /\ \A i \in 1 .. Len(s) : 0 + i = i
    BY <1>1
  <2> QED
    BY <2>1 DEF Holds
<1>3. one[0] = Value(g, n) /\ decodeOne(s)[0] = Value(j, n)
  <2>1. Sees(DecodeOne(s, n), n, 0, g, s) /\ Sees(decodeOne(s), Len(s), 0, j, s)
    BY <1>1, <1>2 DEF ReadByBoth
  <2>2. 0 + Len(s) = n
    BY <1>1
  <2> QED
    BY <2>1, <2>2 DEF Sees
<1>4. all[0] = Onwards(one[0], all, n)
  <2>1. Advances(one, 0, n)
    BY <1>1, DecodeOneIs
  <2>2. 0 \in 0 .. n - 1 /\ n \in Nat
    BY <1>1
  <2> HIDE DEF n, one
  <2> QED
    BY <2>1, <2>2, ValuesAre
<1>5. Decode(s, n) = all[0]
  BY <1>1 DEF Decode
<1>6. decode(s) = decodeOne(s)[0]
  <2>1. s # <<>>
    BY <1>1
  <2> QED
    BY <2>1 DEF decode
<1>7. n >= n
  BY <1>1
<1> HIDE DEF n, one, all
<1>8. Onwards(Value(g, n), all, n) = Value(<<g>>, n)
  BY <1>7 DEF Onwards, Value
<1> QED
  BY <1>3, <1>4, <1>5, <1>6, <1>8 DEF n

\* A type, a text and a CRLF.
Line(c, t) == <<c>> \o t \o CRLF

\* They stand where they stand together.
LEMMA LineStands ==
  ASSUME NEW c \in Nat, NEW t \in Seq(Nat)
  PROVE  /\ Line(c, t) \in Seq(Nat) /\ Len(Line(c, t)) = Len(t) + 3 /\ Len(t) \in Nat
         /\ \A b \in Seq(Nat) : \A n \in Nat : \A q \in Nat : Holds(b, q, n, Line(c, t)) =>
              /\ q < n /\ b[q + 1] = c /\ q + Len(Line(c, t)) = (q + 1) + Len(t) + 2
              /\ Holds(b, q + 1, n, t) /\ Holds(b, (q + 1) + Len(t), n, CRLF)
<1> DEFINE x == <<c>>   u == x \o t   s == u \o CRLF
<1>1. /\ x \in Seq(Nat) /\ Len(x) = 1 /\ x[1] = c /\ CRLF \in Seq(Nat) /\ Len(CRLF) = 2
      /\ Len(t) \in Nat
  BY DEF CRLF, CR, LF
<1>2. Line(c, t) = s
  BY DEF Line
<1> HIDE DEF x
<1>3. u \in Seq(Nat) /\ Len(u) = 1 + Len(t)
  <2>1. x \o t \in Seq(Nat) /\ Len(x \o t) = Len(x) + Len(t)
    BY <1>1, ConcatProperties
  <2> QED
    BY <2>1, <1>1
<1> HIDE DEF u
<1>4. s \in Seq(Nat) /\ Len(s) = Len(t) + 3
  <2>1. u \o CRLF \in Seq(Nat) /\ Len(u \o CRLF) = Len(u) + Len(CRLF)
    BY <1>1, <1>3, ConcatProperties
  <2>2. (1 + Len(t)) + 2 = Len(t) + 3
    BY <1>1
  <2> QED
    BY <2>1, <2>2, <1>1, <1>3
<1>5. ASSUME NEW b \in Seq(Nat), NEW n \in Nat, NEW q \in Nat, Holds(b, q, n, s)
      PROVE  /\ q < n /\ b[q + 1] = c /\ q + Len(s) = (q + 1) + Len(t) + 2
             /\ Holds(b, q + 1, n, t) /\ Holds(b, (q + 1) + Len(t), n, CRLF)
  <2>1. Holds(b, q, n, u) /\ Holds(b, q + Len(u), n, CRLF)
    BY <1>1, <1>3, <1>5, HoldsParts
  <2>2. Holds(b, q, n, x \o t)
    BY <2>1 DEF u
  <2>3. Holds(b, q, n, x) /\ Holds(b, q + Len(x), n, t)
    BY ONLY <2>2, <1>1, <1>5, HoldsParts
  <2>4. q < n /\ b[q + 1] = c
    BY <2>3, <1>1 DEF Holds
  <2>5. q + Len(u) = (q + 1) + Len(t) /\ q + Len(s) = (q + 1) + Len(t) + 2
    BY <1>1, <1>3, <1>4
  <2> QED
    BY <2>1, <2>3, <2>4, <2>5, <1>1
<1> HIDE DEF s
<1> QED
  BY <1>1, <1>2, <1>3, <1>4, <1>5

\* Simple strings, and errors, are read as strings.
LEMMA SimpleRead ==
  ASSUME NEW c \in {Plus, Minus}, NEW t \in Seq(Nat), \A i \in 1 .. Len(t) : t[i] # CR
  PROVE  ReadByBoth(Line(c, t), Str(t), Str(t))
<1> DEFINE s == Line(c, t)
<1>0. c \in Nat
  BY DEF Plus, Minus
<1>1. /\ s \in Seq(Nat) /\ Len(s) = Len(t) + 3 /\ Len(t) \in Nat
      /\ \A b \in Seq(Nat) : \A n \in Nat : \A q \in Nat : Holds(b, q, n, s) =>
           /\ q < n /\ b[q + 1] = c /\ q + Len(s) = (q + 1) + Len(t) + 2
           /\ Holds(b, q + 1, n, t) /\ Holds(b, (q + 1) + Len(t), n, CRLF)
  BY <1>0, LineStands
<1> HIDE DEF s
<1>2. ASSUME NEW b \in Seq(Nat), NEW n \in 0 .. Len(b), NEW q \in Nat, Holds(b, q, n, s)
      PROVE  /\ q < n /\ b[q + 1] \in {Plus, Minus}
             /\ readSimpleString(b, q, n) = Value(Str(t), q + Len(s))
             /\ readSimple(b, q + 1, n) = Value(Str(t), q + Len(s))
  <2> DEFINE p == q + 1   e == p + Len(t)
  <2>0. n \in Nat /\ p \in Nat
    OBVIOUS
  <2>1. /\ q < n /\ b[q + 1] = c /\ q + Len(s) = e + 2
        /\ Holds(b, p, n, t) /\ Holds(b, e, n, CRLF)
    BY <1>1, <1>2, <2>0
  <2> HIDE DEF p
  <2>2. CRAt(b, p, n) = e /\ e + 2 <= n /\ Slice(b, p, e) = t
    BY <2>0, <2>1, LineReads
  <2>3. e \in Nat /\ e # n /\ ~(e >= n)
    BY <2>0, <2>2, <1>1
  <2> HIDE DEF e
  <2>4. readSimple(b, p, n) = Value(Str(t), e + 2)
    BY <2>2, <2>3 DEF readSimple, CRAt
  <2>5. readSimpleString(b, q, n) = Value(Str(t), e + 2)
    BY <2>2, <2>3 DEF readSimpleString, CRAt, p
  <2> QED
    BY <2>1, <2>4, <2>5 DEF p
<1>3. ASSUME NEW b \in Seq(Nat), NEW n \in 0 .. Len(b), NEW q \in Nat, Holds(b, q, n, s)
      PROVE  Sees(DecodeOne(b, n), n, q, Str(t), s)
  <2>1. q < n /\ b[q + 1] \in {Plus, Minus} /\ readSimpleString(b, q, n) = Value(Str(t), q + Len(s))
    BY <1>2, <1>3
  <2>2. q \in 0 .. n - 1
    BY <2>1
  <2> DEFINE one == DecodeOne(b, n)
  <2>3. one[q] = DecodeAt(b, q, n, one)
    BY <2>2, DecodeOneIs
  <2> HIDE DEF one
  <2>4. DecodeAt(b, q, n, one) = readSimpleString(b, q, n)
    BY <2>1, SMTT(60) DEF DecodeAt, Plus, Minus, Colon, Dollar, Star
  <2> QED
    BY <2>1, <2>3, <2>4 DEF Sees, one
<1>4. ASSUME NEW b \in Seq(Nat), NEW q \in Nat, Holds(b, q, Len(b), s)
      PROVE  Sees(decodeOne(b), Len(b), q, Str(t), s)
  <2> DEFINE one == decodeOne(b)   n == Len(b)
  <2>0. n \in Nat /\ n \in 0 .. Len(b)
    OBVIOUS
  <2>1. q < n /\ b[q + 1] \in {Plus, Minus} /\ readSimple(b, q + 1, n) = Value(Str(t), q + Len(s))
    BY <2>0, <1>2, <1>4
  <2>2. q \in 0 .. n - 1
    BY <2>0, <2>1
  <2>3. one[q] = decodeAt(b, q, n, one)
    BY <2>2, JavaOneIs
  <2> HIDE DEF one, n
  <2>4. decodeAt(b, q, n, one) = readSimple(b, q + 1, n)
    BY <2>1, SMTT(60) DEF decodeAt, Plus, Minus, Colon, Dollar, Star
  <2>5. Sees(one, n, q, Str(t), s)
    BY <2>1, <2>3, <2>4 DEF Sees
  <2> QED
    BY <2>5 DEF one, n
<1>5. Len(s) \in Nat \ {0}
  BY <1>1
<1>6. ReadByBoth(s, Str(t), Str(t))
  BY <1>1, <1>3, <1>4, <1>5 DEF ReadByBoth
<1> QED
  BY <1>6 DEF s

\* An integer of 64 bits, with its sign if it has one.
LEMMA SignedIs ==
  ASSUME NEW i \in Int
  PROVE  /\ Signed(i) \in Seq(Nat) /\ Len(Signed(i)) \in Nat \ {0}
         /\ \A k \in 1 .. Len(Signed(i)) : Signed(i)[k] # CR
         /\ i >= 0 => /\ Signed(i) \in Seq(Digits) /\ Signed(i)[1] \in Digits
                      /\ Number(Signed(i)) = i
         /\ i < 0 => /\ Signed(i) = <<Minus>> \o Decimal[-i] /\ Signed(i)[1] = Minus
                     /\ Decimal[-i] \in Seq(Digits) /\ Number(Decimal[-i]) = -i
                     /\ Len(Decimal[-i]) \in Nat /\ Len(Signed(i)) = 1 + Len(Decimal[-i])
<1>1. CASE i >= 0
  <2> DEFINE d == Decimal[i]
  <2>1. Signed(i) = d /\ i \in Nat /\ ~(i < 0)
    BY <1>1 DEF Signed
  <2>2. d \in Seq(Digits) /\ Len(d) \in Nat \ {0} /\ Number(d) = i
    BY <2>1, DecimalReads
  <2> HIDE DEF d
  <2>3. d \in Seq(Nat) /\ \A k \in 1 .. Len(d) : d[k] # CR /\ d[k] \in Digits
    BY <2>2, DigitsAreNat, DigitsAreNoCR
  <2>4. 1 \in 1 .. Len(d)
    BY <2>2
  <2> QED
    BY <2>1, <2>2, <2>3, <2>4
<1>2. CASE i < 0
  <2> DEFINE d == Decimal[-i]   x == <<Minus>>   u == x \o d
  <2>1. Signed(i) = u /\ -i \in Nat /\ ~(i >= 0)
    BY <1>2 DEF Signed
  <2>2. d \in Seq(Digits) /\ Len(d) \in Nat \ {0} /\ Number(d) = -i
    BY <2>1, DecimalReads
  <2>3. x \in Seq(Nat) /\ Len(x) = 1 /\ x[1] = Minus /\ Minus # CR
    BY DEF Minus, CR
  <2> HIDE DEF d, x
  <2>4. d \in Seq(Nat) /\ \A k \in 1 .. Len(d) : d[k] # CR
    BY <2>2, DigitsAreNat, DigitsAreNoCR
  <2>5. /\ u \in Seq(Nat) /\ Len(u) = 1 + Len(d)
        /\ \A k \in 1 .. 1 + Len(d) : u[k] = IF k <= 1 THEN x[k] ELSE d[k - 1]
    <3>1. /\ x \o d \in Seq(Nat) /\ Len(x \o d) = Len(x) + Len(d)
          /\ \A k \in 1 .. Len(x) + Len(d) : (x \o d)[k] = IF k <= Len(x) THEN x[k] ELSE d[k - Len(x)]
      BY ONLY <2>3, <2>4, ConcatProperties
    <3> QED
      BY <3>1, <2>3
  <2> HIDE DEF u
  <2>6. \A k \in 1 .. 1 + Len(d) : u[k] # CR
    <3> SUFFICES ASSUME NEW k \in 1 .. 1 + Len(d) PROVE u[k] # CR
      OBVIOUS
    <3>1. CASE k = 1
      BY <3>1, <2>3, <2>5
    <3>2. CASE k # 1
      <4>1. k - 1 \in 1 .. Len(d) /\ ~(k <= 1)
        BY <3>2, <2>2
      <4> QED
        BY <4>1, <2>4, <2>5
    <3> QED
      BY <3>1, <3>2
  <2>7. u[1] = Minus
    <3>1. 1 \in 1 .. 1 + Len(d)
      BY <2>2
    <3> QED
      BY <3>1, <2>3, <2>5
  <2>8. 1 + Len(d) \in Nat \ {0}
    BY <2>2
  <2> QED
    BY <2>1, <2>2, <2>5, <2>6, <2>7, <2>8 DEF u, x, d
<1> QED
  BY <1>1, <1>2

\* Java reads the integer; Go reads the bytes as digits, the sign among them.
LEMMA IntegerRead ==
  ASSUME NEW i \in -Half .. Half - 1
  PROVE  ReadByBoth(Line(Colon, Signed(i)), Integer(Int64(Number(Signed(i)))), Integer(i))
<1> DEFINE t == Signed(i)   s == Line(Colon, t)   g == Int64(Number(t))
<1>000. i \in Int /\ Int64(i) = i
  BY WireAssumption DEF Int64
<1>0. /\ t \in Seq(Nat) /\ Len(t) \in Nat \ {0}
      /\ \A j \in 1 .. Len(t) : t[j] # CR
      /\ i >= 0 => t \in Seq(Digits) /\ t[1] \in Digits /\ Number(t) = i
      /\ i < 0 => /\ t = <<Minus>> \o Decimal[-i] /\ t[1] = Minus
                  /\ Decimal[-i] \in Seq(Digits) /\ Number(Decimal[-i]) = -i
                  /\ Len(Decimal[-i]) \in Nat /\ Len(t) = 1 + Len(Decimal[-i])
  BY <1>000, SignedIs
<1> HIDE DEF t
<1>00. Colon \in Nat /\ {Plus, Minus} \cap Digits = {}
  BY DEF Colon, Plus, Minus, Digits
<1>1. /\ s \in Seq(Nat) /\ Len(s) = Len(t) + 3 /\ Len(t) \in Nat
      /\ \A b \in Seq(Nat) : \A n \in Nat : \A q \in Nat : Holds(b, q, n, s) =>
           /\ q < n /\ b[q + 1] = Colon /\ q + Len(s) = (q + 1) + Len(t) + 2
           /\ Holds(b, q + 1, n, t) /\ Holds(b, (q + 1) + Len(t), n, CRLF)
  BY <1>0, <1>00, LineStands
<1> HIDE DEF s
<1>2. ASSUME NEW b \in Seq(Nat), NEW n \in 0 .. Len(b), NEW q \in Nat, Holds(b, q, n, s)
      PROVE  /\ q < n /\ b[q + 1] = Colon
             /\ readInt64(b, q, n) = Value(Integer(g), q + Len(s))
             /\ readLong(b, q + 1, n) = Value(Integer(i), q + Len(s))
  <2> DEFINE p == q + 1   e == p + Len(t)
  <2>0. n \in Nat /\ p \in Nat
    OBVIOUS
  <2>1. /\ q < n /\ b[q + 1] = Colon /\ q + Len(s) = e + 2
        /\ Holds(b, p, n, t) /\ Holds(b, e, n, CRLF)
    BY <1>1, <1>2, <2>0
  <2>5. readInt64(b, q, n) = IF CRAt(b, p, n) = n THEN Outcome("panic")
                             ELSE Value(Integer(Int64(Number(Slice(b, p, CRAt(b, p, n))))), CRAt(b, p, n) + 2)
    BY DEF readInt64, CRAt
  <2> HIDE DEF p
  <2>2. CRAt(b, p, n) = e /\ e + 2 <= n /\ Slice(b, p, e) = t
    BY <1>0, <2>0, <2>1, LineReads, SMTT(60)
  <2>3. e \in Nat /\ e # n /\ ~(e >= n)
    BY <2>0, <2>2, <1>1
  <2>4. b[p + 1] = t[1]
    <3>1. 1 \in 1 .. Len(t)
      BY <1>0
    <3> QED
      BY <3>1, <2>1 DEF Holds
  <2>6. readLong(b, p, n) = Value(Integer(i), e + 2)
    <3>1. CASE i >= 0
      <4>1. b[p + 1] \notin {Plus, Minus}
        BY <3>1, <2>4, <1>0, <1>00
      <4>2. JavaNumber(t) = i
        BY <3>1, <1>0, JavaCounts
      <4> HIDE DEF e
      <4> QED
        BY <1>000, <2>2, <2>3, <4>1, <4>2 DEF readLong, CRAt
    <3>2. CASE i < 0
      <4> DEFINE d == Decimal[-i]   x == <<Minus>>   f == p + 1
      <4>1. /\ d \in Seq(Digits) /\ Number(d) = -i /\ Len(d) \in Nat /\ Len(t) = 1 + Len(d)
            /\ t = x \o d /\ t[1] = Minus
        BY <3>2, <1>0
      <4>2. x \in Seq(Nat) /\ Len(x) = 1 /\ f \in Nat
        BY <2>0 DEF Minus
      <4> HIDE DEF d, x
      <4>3. d \in Seq(Nat) /\ \A k \in 1 .. Len(d) : d[k] # CR
        BY <4>1, DigitsAreNat, DigitsAreNoCR
      <4>4. Holds(b, f, n, d)
        <5>1. Holds(b, p, n, x \o d)
          BY <2>1, <4>1
        <5>2. Holds(b, p + Len(x), n, d)
          BY ONLY <5>1, <4>2, <4>3, <2>0, HoldsParts
        <5> QED
          BY <5>2, <4>2
      <4>5. e = f + Len(d)
        <5> DEFINE y == Len(d)
        <5>1. y \in Nat /\ Len(t) = 1 + y
          BY <4>1
        <5> HIDE DEF y
        <5>2. e = (p + 1) + y
          BY <5>1, <2>0
        <5> QED
          BY <5>2 DEF y
      <4>6. Holds(b, f + Len(d), n, CRLF)
        BY <4>5, <2>1
      <4> HIDE DEF f, e
      <4>7. CRAt(b, f, n) = e /\ Slice(b, f, e) = d
        BY <2>0, <4>2, <4>3, <4>4, <4>5, <4>6, LineReads
      <4>8. JavaNumber(d) = -i /\ -(-i) = i
        BY <4>1, <1>000, JavaCounts
      <4>9. p < n /\ b[p + 1] \in {Plus, Minus} /\ b[p + 1] = Minus
        <5>1. p < n
          <6>1. f + Len(d) <= n /\ f = p + 1
            BY <4>4 DEF Holds, f
          <6> DEFINE y == Len(d)
          <6>2. y \in Nat /\ f + y <= n
            BY <6>1, <4>1
          <6> HIDE DEF y
          <6> QED
            BY <6>1, <6>2, <2>0
        <5> QED
          BY <5>1, <2>4, <4>1
      <4> QED
        BY <1>000, <2>3, <4>7, <4>8, <4>9 DEF readLong, CRAt, f
    <3> QED
      BY <3>1, <3>2, <1>000
  <2> HIDE DEF e
  <2>7. readInt64(b, q, n) = Value(Integer(g), e + 2)
    BY <2>2, <2>3, <2>5
  <2> QED
    BY <2>1, <2>6, <2>7 DEF p
<1>3. ASSUME NEW b \in Seq(Nat), NEW n \in 0 .. Len(b), NEW q \in Nat, Holds(b, q, n, s)
      PROVE  Sees(DecodeOne(b, n), n, q, Integer(g), s)
  <2>1. q < n /\ b[q + 1] = Colon /\ readInt64(b, q, n) = Value(Integer(g), q + Len(s))
    BY <1>2, <1>3
  <2>2. q \in 0 .. n - 1
    BY <2>1
  <2> DEFINE one == DecodeOne(b, n)
  <2>3. one[q] = DecodeAt(b, q, n, one)
    BY <2>2, DecodeOneIs
  <2> HIDE DEF one
  <2>4. DecodeAt(b, q, n, one) = readInt64(b, q, n)
    BY <2>1 DEF DecodeAt, Plus, Minus, Colon, Dollar, Star
  <2> QED
    BY <2>1, <2>3, <2>4 DEF Sees, one
<1>4. ASSUME NEW b \in Seq(Nat), NEW q \in Nat, Holds(b, q, Len(b), s)
      PROVE  Sees(decodeOne(b), Len(b), q, Integer(i), s)
  <2> DEFINE one == decodeOne(b)   n == Len(b)
  <2>0. n \in Nat /\ n \in 0 .. Len(b)
    OBVIOUS
  <2>1. q < n /\ b[q + 1] = Colon /\ readLong(b, q + 1, n) = Value(Integer(i), q + Len(s))
    BY <2>0, <1>2, <1>4
  <2>2. q \in 0 .. n - 1
    BY <2>0, <2>1
  <2>3. one[q] = decodeAt(b, q, n, one)
    BY <2>2, JavaOneIs
  <2> HIDE DEF one, n
  <2>4. decodeAt(b, q, n, one) = readLong(b, q + 1, n)
    BY <2>1 DEF decodeAt, Plus, Minus, Colon, Dollar, Star
  <2>5. Sees(one, n, q, Integer(i), s)
    BY <2>1, <2>3, <2>4 DEF Sees
  <2> QED
    BY <2>5 DEF one, n
<1>5. Len(s) \in Nat \ {0}
  BY <1>1
<1>6. ReadByBoth(s, Integer(g), Integer(i))
  BY <1>1, <1>3, <1>4, <1>5 DEF ReadByBoth
<1> QED
  BY <1>6 DEF s, t, g

\* The number no bytes stand for.
LEMMA NumberOfNone == Number(<<>>) = 0
<1>1. <<>> \in Seq(Nat) /\ Len(<<>>) = 0
  OBVIOUS
<1>2. PICK f \in [0 .. Len(<<>>) -> Nat] : Counts(f, <<>>)
  BY <1>1, CountsExist
<1> QED
  BY <1>1, <1>2, NumberIs DEF Counts

\* Bytes from p to p - 1 are none.
LEMMA SliceOfNone ==
  ASSUME NEW b \in Seq(Nat), NEW p \in 0 .. Len(b)
  PROVE  Slice(b, p, p) = <<>>
<1>1. p \in Nat /\ p \in p .. Len(b) /\ p - p = 0
  BY LenProperties
<1>2. Slice(b, p, p) \in Seq(Nat) /\ Len(Slice(b, p, p)) = 0
  BY <1>1, SliceType
<1> QED
  BY <1>2, EmptySeq

\* Nil is read as an empty string: its length is no digit.
LEMMA NilRead == ReadByBoth(RESP_NIL, Str(<<>>), Str(<<>>))
<1> DEFINE x == <<Dollar, Minus, 49>>   s == RESP_NIL
<1>1. s = x \o CRLF /\ s \in Seq(Nat) /\ Len(s) = 5 /\ s[1] = Dollar /\ s[2] = Minus
  BY DEF RESP_NIL, CRLF, CR, LF, Dollar, Minus
<1>2. Minus \notin Digits
  BY DEF Minus, Digits
<1> HIDE DEF s, x
<1>3. ASSUME NEW b \in Seq(Nat), NEW n \in 0 .. Len(b), NEW q \in Nat, Holds(b, q, n, s)
      PROVE  /\ q < n /\ b[q + 1] = Dollar
             /\ readBulkString(b, q, n) = Value(Str(<<>>), q + Len(s))
             /\ StringAt(b, readLen(b, q + 1, n), "error") = Value(Str(<<>>), q + Len(s))
  <2> DEFINE p == q + 1   e == DigitsEnd(b, p, n)   r == [length |-> 0, next |-> q + 3]
  <2>1. n \in Nat /\ Len(b) \in Nat /\ q + 5 <= n /\ p \in 0 .. n
    BY <1>1, <1>3 DEF Holds
  <2>2. b[q + 1] = Dollar /\ b[q + 2] = Minus
    <3>1. 1 \in 1 .. Len(s) /\ 2 \in 1 .. Len(s)
      BY <1>1
    <3>2. \A i \in 1 .. Len(s) : b[q + i] = s[i]
      BY <1>3 DEF Holds
    <3> QED
      BY <3>1, <3>2, <1>1
  <2>3. /\ e \in p .. n /\ (e = n \/ b[e + 1] \notin Digits)
        /\ \A j \in p .. e - 1 : b[j + 1] \in Digits
    BY <2>1, DigitsEndIs
  <2>4. readLen(b, p, n) = [length |-> Number(Slice(b, p, e)), next |-> e + 2]
    BY <2>1, LenType
  <2>5. readLength(b, p, n) = IF e < n THEN [length |-> Number(Slice(b, p, e)), next |-> e + 2]
                              ELSE [length |-> 0, next |-> p]
    BY DEF readLength, DigitsEnd, Length
  <2> HIDE DEF e
  <2>6. e = p
    <3>1. ASSUME e > p PROVE FALSE
      <4>1. p \in p .. e - 1 /\ p + 1 = q + 2
        BY <3>1, <2>1, <2>3
      <4> QED
        BY <4>1, <2>2, <2>3, <1>2
    <3> QED
      BY <3>1, <2>1, <2>3
  <2>7. Number(Slice(b, p, e)) = 0
    <3>1. p \in 0 .. Len(b)
      BY <2>1
    <3> QED
      BY <3>1, <2>6, SliceOfNone, NumberOfNone
  <2>8. e < n /\ e + 2 = q + 3
    BY <2>1, <2>6
  <2>9. readLen(b, p, n) = r /\ readLength(b, p, n) = r
    BY <2>4, <2>5, <2>7, <2>8
  <2>10. r.length = 0 /\ r.next = q + 3
    OBVIOUS
  <2> HIDE DEF r
  <2>11. /\ ~(r.next + r.length > Len(b)) /\ r.next + r.length + 2 = q + Len(s)
         /\ r.next + r.length = r.next /\ r.next \in 0 .. Len(b)
    <3> DEFINE z == r.next   k == Len(b)
    <3>1. k \in Nat /\ q + 5 <= k /\ z = q + 3 /\ r.length = 0 /\ Len(s) = 5
      BY <2>1, <2>10, <1>1
    <3> HIDE DEF z, k
    <3>2. ~(z + 0 > k) /\ z + 0 + 2 = q + 5 /\ z + 0 = z /\ z \in 0 .. k
      BY <3>1
    <3> QED
      BY <3>1, <3>2 DEF z, k
  <2>12. Slice(b, r.next, r.next + r.length) = <<>>
    BY <2>11, SliceOfNone
  <2>13. StringAt(b, r, "error") = Value(Str(<<>>), q + Len(s)) /\ StringAt(b, r, "panic") = Value(Str(<<>>), q + Len(s))
    BY <2>11, <2>12 DEF StringAt
  <2>14. q < n
    BY <2>1
  <2> QED
    BY <2>2, <2>9, <2>13, <2>14 DEF readBulkString
<1>4. ASSUME NEW b \in Seq(Nat), NEW n \in 0 .. Len(b), NEW q \in Nat, Holds(b, q, n, s)
      PROVE  Sees(DecodeOne(b, n), n, q, Str(<<>>), s)
  <2>1. q < n /\ b[q + 1] = Dollar /\ readBulkString(b, q, n) = Value(Str(<<>>), q + Len(s))
    BY <1>3, <1>4
  <2>2. q \in 0 .. n - 1
    BY <2>1
  <2> DEFINE one == DecodeOne(b, n)
  <2>3. one[q] = DecodeAt(b, q, n, one)
    BY <2>2, DecodeOneIs
  <2> HIDE DEF one
  <2>4. DecodeAt(b, q, n, one) = readBulkString(b, q, n)
    BY <2>1 DEF DecodeAt, Plus, Minus, Colon, Dollar, Star
  <2> QED
    BY <2>1, <2>3, <2>4 DEF Sees, one
<1>5. ASSUME NEW b \in Seq(Nat), NEW q \in Nat, Holds(b, q, Len(b), s)
      PROVE  Sees(decodeOne(b), Len(b), q, Str(<<>>), s)
  <2> DEFINE one == decodeOne(b)   n == Len(b)
  <2>0. n \in Nat /\ n \in 0 .. Len(b)
    OBVIOUS
  <2>1. q < n /\ b[q + 1] = Dollar /\ StringAt(b, readLen(b, q + 1, n), "error") = Value(Str(<<>>), q + Len(s))
    BY <2>0, <1>3, <1>5
  <2>2. q \in 0 .. n - 1
    BY <2>0, <2>1
  <2>3. one[q] = decodeAt(b, q, n, one)
    BY <2>2, JavaOneIs
  <2> HIDE DEF one, n
  <2>4. decodeAt(b, q, n, one) = StringAt(b, readLen(b, q + 1, n), "error")
    BY <2>1 DEF decodeAt, Plus, Minus, Colon, Dollar, Star
  <2>5. Sees(one, n, q, Str(<<>>), s)
    BY <2>1, <2>3, <2>4 DEF Sees
  <2> QED
    BY <2>5 DEF one, n
<1>6. ReadByBoth(s, Str(<<>>), Str(<<>>))
  BY <1>1, <1>4, <1>5 DEF ReadByBoth
<1> QED
  BY <1>6 DEF s

\* A length of which Java may have got only a part.
LEMMA LenCut ==
  ASSUME NEW b \in Seq(Nat), NEW n \in 0 .. Len(b), NEW p \in 0 .. n, NEW k \in Nat,
         Cut(b, p, n, Decimal[k]), Cut(b, p + Len(Decimal[k]), n, CRLF)
  PROVE  /\ n <= p + Len(Decimal[k]) =>
              readLen(b, p, n) = [length |-> Number(Slice(b, p, n)), next |-> n + 2]
         /\ n > p + Len(Decimal[k]) =>
              readLen(b, p, n) = [length |-> k, next |-> p + Len(Decimal[k]) + 2]
<1> DEFINE e == DigitsEnd(b, p, n)   m == p + Len(Decimal[k])
<1>1. /\ n <= m => /\ readLength(b, p, n) = [length |-> 0, next |-> p]
                   /\ \A x \in p .. n - 1 : b[x + 1] \in Digits
      /\ n > m => readLength(b, p, n) = [length |-> k, next |-> m + 2]
  BY LengthCut
<1>2. m \in Nat /\ m > p /\ n \in Nat /\ p \in Nat
  BY DecimalReads
<1>3. /\ e \in p .. n /\ (e = n \/ b[e + 1] \notin Digits)
      /\ \A j \in p .. e - 1 : b[j + 1] \in Digits
  BY <1>2, DigitsEndIs
<1>4. readLen(b, p, n) = [length |-> Number(Slice(b, p, e)), next |-> e + 2]
  BY LenType
<1>5. readLength(b, p, n) = IF e < n THEN [length |-> Number(Slice(b, p, e)), next |-> e + 2]
                            ELSE [length |-> 0, next |-> p]
  BY DEF readLength, DigitsEnd, Length
<1> HIDE DEF e, m
<1>6. ASSUME n <= m PROVE e = n
  <2>1. ASSUME e # n PROVE FALSE
    <3>1. e \in p .. n - 1
      BY <2>1, <1>2, <1>3
    <3> QED
      BY <3>1, <2>1, <1>1, <1>3, <1>6
  <2> QED
    BY <2>1
<1>7. ASSUME n > m PROVE e < n
  <2>1. [length |-> 0, next |-> p].next = p /\ [length |-> k, next |-> m + 2].next = m + 2
    OBVIOUS
  <2>2. p # m + 2
    BY <1>2
  <2> QED
    BY <2>1, <2>2, <1>1, <1>5, <1>7
<1> QED
  BY <1>1, <1>4, <1>5, <1>6, <1>7 DEF m

\* The parts of an encoded string, and how long it is.
LEMMA BulkParts ==
  ASSUME NEW t \in Seq(Nat)
  PROVE  LET d == Decimal[Len(t)]
         IN /\ d \in Seq(Nat) /\ Len(d) \in Nat \ {0} /\ Len(t) \in Nat
            /\ encodeString(t) \in Seq(Nat) /\ Len(encodeString(t)) = Len(d) + Len(t) + 5
            /\ \A b : \A n \in Nat : \A q \in Nat : Cut(b, q, n, encodeString(t)) =>
                 /\ (q < n => b[q + 1] = Dollar)
                 /\ Cut(b, q + 1, n, d) /\ Cut(b, (q + 1) + Len(d), n, CRLF)
                 /\ Cut(b, (q + 1) + Len(d) + 2, n, t)
<1> DEFINE d == Decimal[Len(t)]
           x == <<Dollar>>
           u == x \o d
           v == u \o CRLF
           w == v \o t
           s == w \o CRLF
<1>1. d \in Seq(Nat) /\ Len(d) \in Nat \ {0} /\ Len(t) \in Nat
  BY DecimalReads, DigitsAreNat
<1>2. /\ x \in Seq(Nat) /\ CRLF \in Seq(Nat) /\ Len(CRLF) = 2
      /\ Len(x) = 1 /\ x[1] = Dollar
  BY DEF Dollar, CRLF, CR, LF
<1>3. encodeString(t) = s
  BY DEF encodeString
<1> HIDE DEF d, x
<1>4. u \in Seq(Nat) /\ Len(u) = Len(x) + Len(d)
  BY <1>1, <1>2, ConcatProperties
<1> HIDE DEF u
<1>5. v \in Seq(Nat) /\ Len(v) = Len(u) + Len(CRLF)
  BY <1>2, <1>4, ConcatProperties
<1> HIDE DEF v
<1>6. w \in Seq(Nat) /\ Len(w) = Len(v) + Len(t)
  BY <1>5, ConcatProperties
<1> HIDE DEF w
<1>7. s \in Seq(Nat) /\ Len(s) = Len(w) + Len(CRLF)
  BY <1>2, <1>6, ConcatProperties
<1>8. ASSUME NEW b, NEW n \in Nat, NEW q \in Nat, Cut(b, q, n, s)
      PROVE  /\ (q < n => b[q + 1] = Dollar)
             /\ Cut(b, q + 1, n, d) /\ Cut(b, (q + 1) + Len(d), n, CRLF)
             /\ Cut(b, (q + 1) + Len(d) + 2, n, t)
  <2>1. Cut(b, q, n, w)
    BY <1>2, <1>6, <1>8, CutParts
  <2>2. Cut(b, q, n, v) /\ Cut(b, q + Len(v), n, t)
    <3>1. Cut(b, q, n, v \o t)
      BY <2>1 DEF w
    <3> QED
      BY ONLY <3>1, <1>5, <1>8, t \in Seq(Nat), CutParts
  <2>3. Cut(b, q, n, u) /\ Cut(b, q + Len(u), n, CRLF)
    <3>1. Cut(b, q, n, u \o CRLF)
      BY <2>2 DEF v
    <3> QED
      BY ONLY <3>1, <1>2, <1>4, <1>8, CutParts
  <2>4. Cut(b, q, n, x) /\ Cut(b, q + Len(x), n, d)
    <3>1. Cut(b, q, n, x \o d)
      BY <2>3 DEF u
    <3> QED
      BY ONLY <3>1, <1>1, <1>2, <1>8, CutParts
  <2>5. q < n => b[q + 1] = Dollar
    <3>1. q < n => q + 1 <= n
      OBVIOUS
    <3> QED
      BY <3>1, <2>4, <1>2 DEF Cut
  <2>6. q + Len(x) = q + 1 /\ q + Len(u) = (q + 1) + Len(d) /\ q + Len(v) = (q + 1) + Len(d) + 2
    BY <1>1, <1>2, <1>4, <1>5
  <2> QED
    BY <2>2, <2>3, <2>4, <2>5, <2>6
<1>9. Len(s) = Len(d) + Len(t) + 5
  BY <1>1, <1>2, <1>4, <1>5, <1>6, <1>7
<1> HIDE DEF s
<1> QED
  BY <1>1, <1>3, <1>7, <1>8, <1>9 DEF d

\* Java reads an encoded string once it has all of it but the CRLF.
LEMMA TokenCut ==
  ASSUME NEW b \in Seq(Nat), NEW q \in 0 .. Len(b) - 1, NEW t \in Seq(Nat),
         Cut(b, q, Len(b), encodeString(t))
  PROVE  /\ q + Len(encodeString(t)) <= Len(b) + 2 =>
              decodeOne(b)[q] = Value(Str(t), q + Len(encodeString(t)))
         /\ q + Len(encodeString(t)) > Len(b) + 2 => decodeOne(b)[q] = Outcome("error")
<1> DEFINE n == Len(b)   one == decodeOne(b)   k == Len(t)   d == Decimal[k]   s == encodeString(t)
           p == q + 1   r == readLen(b, p, n)   e == p + Len(d)
<1>0. n \in Nat /\ n \in 0 .. Len(b) /\ q \in Nat /\ q < n /\ p \in Nat /\ p \in 0 .. n
  BY LenProperties
<1>1. /\ d \in Seq(Nat) /\ Len(d) \in Nat \ {0} /\ k \in Nat
      /\ Len(s) = Len(d) + k + 5
      /\ b[q + 1] = Dollar
      /\ Cut(b, p, n, d) /\ Cut(b, e, n, CRLF) /\ Cut(b, e + 2, n, t)
  BY <1>0, BulkParts, ZenonT(60)
<1>2. one[q] = decodeAt(b, q, n, one)
  BY JavaOneIs
<1>3. /\ n <= e => r = [length |-> Number(Slice(b, p, n)), next |-> n + 2]
      /\ n > e => r = [length |-> k, next |-> e + 2]
  BY <1>0, <1>1, LenCut, ZenonT(90)
<1>30. r.length \in Nat /\ r.next \in Nat
  BY <1>0, LenType
<1>4. n \in 0 .. Len(b) /\ e \in Nat /\ q + Len(s) = (e + 2) + k + 2 /\ n = Len(b)
  <2> DEFINE x == Len(d)   y == Len(s)
  <2>1. x \in Nat /\ k \in Nat /\ y = x + k + 5
    BY <1>1
  <2> HIDE DEF x, y, k
  <2>2. (q + 1) + x \in Nat /\ q + y = (((q + 1) + x) + 2) + k + 2
    BY <2>1, <1>0
  <2> QED
    BY <2>2, <1>0 DEF x, y
<1>5. decodeAt(b, q, n, one) = StringAt(b, r, "error")
  <2> HIDE DEF n, one, r
  <2> QED
    BY <1>1 DEF decodeAt, Plus, Minus, Colon, Dollar, Star, r
<1> HIDE DEF one, s, e, d, r, k, n, p
<1>6. CASE n <= e
  <2>1. r.next = n + 2
    BY <1>3, <1>6
  <2>2. r.next + r.length > n /\ q + Len(s) > n + 2
    <3> DEFINE x == r.length   y == q + Len(s)
    <3>1. x \in Nat /\ k \in Nat /\ n \in Nat /\ e \in Nat /\ n <= e /\ y = (e + 2) + k + 2
      BY <1>0, <1>1, <1>4, <1>6, <1>30
    <3> HIDE DEF x, y
    <3>2. (n + 2) + x > n /\ y > n + 2
      BY <3>1
    <3> QED
      BY <3>2, <2>1 DEF x, y
  <2>3. StringAt(b, r, "error") = Outcome("error")
    BY <2>2, <1>4 DEF StringAt
  <2>4. ~(q + Len(s) <= n + 2)
    BY <2>2, <1>0, <1>1, <1>4
  <2> QED
    BY <2>3, <2>4, <1>2, <1>5 DEF one, s, n
<1>7. CASE n > e
  <2>1. r.next = e + 2 /\ r.length = k
    BY <1>3, <1>7
  <2>2. CASE (e + 2) + k > n
    <3>1. StringAt(b, r, "error") = Outcome("error")
      BY <2>1, <2>2, <1>4 DEF StringAt
    <3>2. ~(q + Len(s) <= n + 2)
      BY <2>2, <1>0, <1>1, <1>4
    <3> QED
      BY <3>1, <3>2, <1>2, <1>5 DEF one, s, n
  <2>3. CASE ~((e + 2) + k > n)
    <3> DEFINE f == e + 2
    <3>1. f \in Nat /\ f + Len(t) <= n /\ n \in Nat
      BY <2>3, <1>0, <1>1, <1>4 DEF k
    <3>2. Cut(b, f, n, t)
      BY <1>1
    <3> HIDE DEF f
    <3>3. Holds(b, f, n, t)
      BY <3>1, <3>2, CutHolds
    <3>4. Slice(b, f, f + k) = t
      BY <3>1, <3>3, <1>4, SliceIs DEF k
    <3>5. r.next = f /\ ~(f + k > Len(b)) /\ q + Len(s) = f + k + 2
      BY <2>1, <2>3, <1>4 DEF f
    <3>6. StringAt(b, r, "error") = Value(Str(t), q + Len(s))
      BY <2>1, <3>4, <3>5 DEF StringAt
    <3>7. ~(q + Len(s) > n + 2)
      BY <3>1, <3>5, <1>1 DEF k
    <3> QED
      BY <3>6, <3>7, <1>2, <1>5 DEF one, s, n
  <2> QED
    BY <2>2, <2>3
<1> QED
  BY <1>0, <1>4, <1>6, <1>7

\* Encoded strings are read as they were.
LEMMA BulkRead ==
  ASSUME NEW t \in Seq(Nat)
  PROVE  ReadByBoth(encodeString(t), Str(t), Str(t))
<1> DEFINE s == encodeString(t)
<1>1. s \in Seq(Nat) /\ Len(s) \in Nat \ {0}
  <2> DEFINE d == Decimal[Len(t)]
  <2>1. s \in Seq(Nat) /\ Len(s) = Len(d) + Len(t) + 5 /\ Len(d) \in Nat /\ Len(t) \in Nat
    BY BulkParts
  <2> HIDE DEF s, d
  <2> QED
    BY <2>1
<1>2. ASSUME NEW b \in Seq(Nat), NEW n \in 0 .. Len(b), NEW q \in Nat, Holds(b, q, n, s)
      PROVE  Sees(DecodeOne(b, n), n, q, Str(t), s)
  BY <1>2, BulkStands DEF Sees
<1>3. ASSUME NEW b \in Seq(Nat), NEW q \in Nat, Holds(b, q, Len(b), s)
      PROVE  Sees(decodeOne(b), Len(b), q, Str(t), s)
  <2> DEFINE n == Len(b)
  <2>1. n \in Nat /\ q + Len(s) <= n
    BY <1>3 DEF Holds
  <2>2. Cut(b, q, n, s)
    BY <1>3 DEF Holds, Cut
  <2> DEFINE m == Len(s)
  <2>3. q \in 0 .. n - 1 /\ q < n /\ q + m <= n + 2
    <3>1. m \in Nat \ {0} /\ q + m <= n
      BY <1>1, <2>1
    <3> HIDE DEF m, n
    <3> QED
      BY <3>1, <2>1
  <2>4. decodeOne(b)[q] = Value(Str(t), q + Len(s))
    BY <2>2, <2>3, TokenCut
  <2> QED
    BY <2>3, <2>4 DEF Sees
<1> HIDE DEF s
<1>4. ReadByBoth(s, Str(t), Str(t))
  BY <1>1, <1>2, <1>3 DEF ReadByBoth
<1> QED
  BY <1>4 DEF s
-----------------------------------------------------------------------------
(* Replies.                                                                *)

\* Texts a simple string can carry.
Lines == {t \in Seq(Nat) : \A i \in 1 .. Len(t) : t[i] # CR}

\* What the server may encode as a reply, and how: the replies of the model,
\* with any text and any integer of 64 bits.
AnyReply ==
  ({Str(t) : t \in Seq(Nat)} \X {FALSE}) \cup ({Str(t) : t \in Lines} \X {TRUE})
    \cup (({Error(t) : t \in Lines} \cup {Integer(i) : i \in -Half .. Half - 1} \cup {NoValue}) \X {FALSE})

BytesOf(r) == Encode(r[1], r[2])

\* A pair with one choice for its second.
LEMMA PairWith ==
  ASSUME NEW V, NEW x, NEW r \in V \X {x}
  PROVE  \E v \in V : r = <<v, x>>
<1> DEFINE X == {x}
<1>1. r \in V \X X
  OBVIOUS
<1> HIDE DEF X
<1>2. PICK v \in V, y \in X : r = <<v, y>>
  BY <1>1
<1>3. y = x
  BY DEF X
<1> QED
  BY <1>2, <1>3

\* Both decoders read each of them.
LEMMA ReplyRead ==
  ASSUME NEW r \in AnyReply
  PROVE  ReadByBoth(BytesOf(r), SeenByGo(r[1]), Seen(r[1]))
<1>1. ASSUME NEW t \in Seq(Nat), r = <<Str(t), FALSE>> PROVE ReadByBoth(BytesOf(r), SeenByGo(r[1]), Seen(r[1]))
  <2>1. BytesOf(r) = encodeString(t)
    BY <1>1 DEF BytesOf, Encode, Str
  <2>2. SeenByGo(r[1]) = Str(t) /\ Seen(r[1]) = Str(t)
    BY <1>1 DEF SeenByGo, Seen, Str, NoValue
  <2> QED
    BY <2>1, <2>2, BulkRead
<1>2. ASSUME NEW t \in Lines, r = <<Str(t), TRUE>> PROVE ReadByBoth(BytesOf(r), SeenByGo(r[1]), Seen(r[1]))
  <2>1. BytesOf(r) = Line(Plus, t)
    BY <1>2 DEF BytesOf, Encode, Str, Line
  <2>2. SeenByGo(r[1]) = Str(t) /\ Seen(r[1]) = Str(t)
    BY <1>2 DEF SeenByGo, Seen, Str, NoValue
  <2> QED
    BY <2>1, <2>2, SimpleRead DEF Lines
<1>3. ASSUME NEW t \in Lines, r = <<Error(t), FALSE>> PROVE ReadByBoth(BytesOf(r), SeenByGo(r[1]), Seen(r[1]))
  <2>1. BytesOf(r) = Line(Minus, t)
    BY <1>3 DEF BytesOf, Encode, Error, Line
  <2>2. r[1][1] = "error" /\ r[1][2] = t /\ r[1] # NoValue
    BY <1>3 DEF Error, NoValue
  <2>3. SeenByGo(r[1]) = Str(t) /\ Seen(r[1]) = Str(t)
    BY <2>2 DEF SeenByGo, Seen
  <2> QED
    BY <2>1, <2>3, SimpleRead DEF Lines
<1>4. ASSUME NEW i \in -Half .. Half - 1, r = <<Integer(i), FALSE>>
      PROVE  ReadByBoth(BytesOf(r), SeenByGo(r[1]), Seen(r[1]))
  <2>0. r[1] = Integer(i) /\ r[1][1] = "int" /\ r[1][2] = i /\ i \in Int
    BY <1>4, WireAssumption DEF Integer
  <2>1. BytesOf(r) = Line(Colon, Signed(i))
    BY <2>0 DEF BytesOf, Encode, Line
  <2>2. Seen(r[1]) = Integer(i)
    BY <2>0 DEF Seen, Integer, NoValue
  <2>3. SeenByGo(r[1]) = Integer(Int64(Number(Signed(i))))
    <3>1. CASE i < 0
      BY <3>1, <2>0 DEF SeenByGo
    <3>2. CASE i >= 0
      <4>1. Number(Signed(i)) = i /\ Int64(i) = i
        BY <3>2, <2>0, SignedIs DEF Int64
      <4> QED
        BY <3>2, <4>1, <2>0, <2>2 DEF SeenByGo
    <3> QED
      BY <3>1, <3>2, <2>0
  <2> QED
    BY <2>1, <2>2, <2>3, IntegerRead
<1>5. ASSUME r = <<NoValue, FALSE>> PROVE ReadByBoth(BytesOf(r), SeenByGo(r[1]), Seen(r[1]))
  <2>1. BytesOf(r) = RESP_NIL
    BY <1>5 DEF BytesOf, Encode, NoValue
  <2>2. SeenByGo(r[1]) = Str(<<>>) /\ Seen(r[1]) = Str(<<>>)
    BY <1>5 DEF SeenByGo, Seen, NoValue
  <2> QED
    BY <2>1, <2>2, NilRead
<1> DEFINE A == {Str(t) : t \in Seq(Nat)}
           B == {Str(t) : t \in Lines}
           C == {Error(t) : t \in Lines} \cup {Integer(i) : i \in -Half .. Half - 1} \cup {NoValue}
<1>6. \/ \E v \in A : r = <<v, FALSE>>
      \/ \E v \in B : r = <<v, TRUE>>
      \/ \E v \in C : r = <<v, FALSE>>
  <2> DEFINE F == FALSE   T == TRUE
  <2>1. r \in A \X {F} \/ r \in B \X {T} \/ r \in C \X {F}
    BY DEF AnyReply
  <2> HIDE DEF A, B, C, F, T
  <2>2. \/ \E v \in A : r = <<v, F>>
        \/ \E v \in B : r = <<v, T>>
        \/ \E v \in C : r = <<v, F>>
    BY <2>1, PairWith
  <2> QED
    BY <2>2 DEF F, T
<1> QED
  BY <1>1, <1>2, <1>3, <1>4, <1>5, <1>6

\* The replies of the model are among them.
LEMMA RepliesAre == Replies \subseteq AnyReply
<1>1. ASSUME NEW t \in Texts PROVE t \in Seq(Nat) /\ t \in Lines
  <2>1. PICK c \in Commands : t \in ToSet(c)
    BY DEF Texts
  <2>2. c \in Seq(Seq(Nat))
    BY CommandsAre
  <2>3. t \in Seq(Nat)
    BY <2>1, <2>2, ElementOfSeq, LenProperties DEF ToSet
  <2>4. CR \notin ToSet(t)
    BY DEF Texts
  <2>5. \A i \in 1 .. Len(t) : t[i] # CR
    BY <2>3, <2>4, LenProperties DEF ToSet
  <2> QED
    BY <2>3, <2>5 DEF Lines
<1> SUFFICES ASSUME NEW r \in Replies PROVE r \in AnyReply
  OBVIOUS
<1> DEFINE tokens == UNION {ToSet(c) : c \in Commands}
<1>0. ASSUME NEW t \in tokens PROVE t \in Seq(Nat)
  <2>1. PICK c \in Commands : t \in ToSet(c)
    OBVIOUS
  <2>2. c \in Seq(Seq(Nat))
    BY CommandsAre
  <2> QED
    BY <2>1, <2>2, ElementOfSeq, LenProperties DEF ToSet
<1> HIDE DEF tokens
<1>2. CASE r \in {Str(t) : t \in Texts} \X {TRUE}
  <2>1. {Str(t) : t \in Texts} \subseteq {Str(t) : t \in Lines}
    BY <1>1
  <2>2. r \in {Str(t) : t \in Lines} \X {TRUE}
    BY <1>2, <2>1
  <2> QED
    BY <2>2 DEF AnyReply
<1>3. CASE r \in ({Str(t) : t \in tokens} \cup {Error(t) : t \in Texts}
                  \cup {Integer(i) : i \in -120 .. 120} \cup {NoValue}) \X {FALSE}
  <2> DEFINE V == {Str(t) : t \in tokens} \cup {Error(t) : t \in Texts}
                    \cup {Integer(i) : i \in -120 .. 120} \cup {NoValue}
             B == {Str(t) : t \in Seq(Nat)}
             W == {Error(t) : t \in Lines} \cup {Integer(i) : i \in -Half .. Half - 1} \cup {NoValue}
  <2>1. PICK v \in V : r = <<v, FALSE>>
    <3> DEFINE F == FALSE
    <3>1. r \in V \X {F}
      BY <1>3
    <3> HIDE DEF V, F
    <3>2. \E v \in V : r = <<v, F>>
      BY <3>1, PairWith
    <3> QED
      BY <3>2 DEF F
  <2>2. {Error(t) : t \in Texts} \subseteq {Error(t) : t \in Lines}
    BY <1>1
  <2>3. {Integer(i) : i \in -120 .. 120} \subseteq {Integer(i) : i \in -Half .. Half - 1}
    <3>1. \A i \in -120 .. 120 : i \in -Half .. Half - 1
      BY WireAssumption
    <3> QED
      BY <3>1
  <2>4. {Str(t) : t \in tokens} \subseteq B
    BY <1>0
  <2>5. v \in B \/ v \in W
    BY <2>2, <2>3, <2>4
  <2>6. r \in B \X {FALSE} \/ r \in W \X {FALSE}
    <3> HIDE DEF B, W
    <3> QED
      BY <2>1, <2>5
  <2> QED
    BY <2>6 DEF AnyReply
<1> QED
  BY <1>2, <1>3 DEF Replies, tokens

\* A list of replies, gathered, and what each decoder should read of it.
GatheredReplies(rs) == TxnExec([i \in DOMAIN rs |-> BytesOf(rs[i])])
SeenReplies(rs) == Arr([i \in DOMAIN rs |-> Seen(rs[i][1])])
SeenByGoReplies(rs) == Arr([i \in DOMAIN rs |-> SeenByGo(rs[i][1])])

\* Both decoders read it.
LEMMA RepliesGathered ==
  ASSUME NEW rs \in Seq(AnyReply)
  PROVE  ReadByBoth(GatheredReplies(rs), SeenByGoReplies(rs), SeenReplies(rs))
<1> DEFINE m == Len(rs)
           seqs == [i \in DOMAIN rs |-> BytesOf(rs[i])]
           vals == [i \in DOMAIN rs |-> SeenByGo(rs[i][1])]
           others == [i \in DOMAIN rs |-> Seen(rs[i][1])]
           S == {SeenByGo(rs[i][1]) : i \in 1 .. m}
           R == {Seen(rs[i][1]) : i \in 1 .. m}
<1>1. m \in Nat /\ DOMAIN rs = 1 .. m /\ \A i \in 1 .. m : rs[i] \in AnyReply
  BY LenProperties, ElementOfSeq
<1>2. \A i \in 1 .. m : ReadByBoth(BytesOf(rs[i]), SeenByGo(rs[i][1]), Seen(rs[i][1]))
  BY <1>1, ReplyRead
<1>3. \A i \in 1 .. m : BytesOf(rs[i]) \in Seq(Nat)
  BY <1>2 DEF ReadByBoth
<1>4. seqs \in Seq(Seq(Nat)) /\ Len(seqs) = m /\ \A i \in 1 .. m : seqs[i] = BytesOf(rs[i])
  <2> HIDE DEF m
  <2>1. seqs = [i \in 1 .. m |-> BytesOf(rs[i])]
    BY <1>1
  <2> HIDE DEF seqs
  <2>2. seqs \in Seq(Seq(Nat))
    BY <1>1, <1>3, <2>1, IsASeq
  <2> QED
    BY <1>1, <2>1, <2>2, LenProperties
<1>5. vals \in Seq(S) /\ Len(vals) = m /\ \A i \in 1 .. m : vals[i] = SeenByGo(rs[i][1])
  <2>0. \A i \in 1 .. m : SeenByGo(rs[i][1]) \in S
    OBVIOUS
  <2> HIDE DEF m, S
  <2>1. vals = [i \in 1 .. m |-> SeenByGo(rs[i][1])]
    BY <1>1
  <2> HIDE DEF vals
  <2>2. vals \in Seq(S)
    BY <1>1, <2>0, <2>1, IsASeq
  <2> QED
    BY <1>1, <2>1, <2>2, LenProperties
<1>6. others \in Seq(R) /\ Len(others) = m /\ \A i \in 1 .. m : others[i] = Seen(rs[i][1])
  <2>0. \A i \in 1 .. m : Seen(rs[i][1]) \in R
    OBVIOUS
  <2> HIDE DEF m, R
  <2>1. others = [i \in 1 .. m |-> Seen(rs[i][1])]
    BY <1>1
  <2> HIDE DEF others
  <2>2. others \in Seq(R)
    BY <1>1, <2>0, <2>1, IsASeq
  <2> QED
    BY <1>1, <2>1, <2>2, LenProperties
<1> HIDE DEF seqs, vals, others, S, R, m
<1>7. ReadByBoth(TxnExec(seqs), Arr(vals), Arr(others))
  <2>1. /\ Len(vals) = Len(seqs) /\ Len(others) = Len(seqs)
        /\ \A i \in 1 .. Len(seqs) : ReadByBoth(seqs[i], vals[i], others[i])
    BY <1>2, <1>4, <1>5, <1>6
  <2> QED
    BY <1>4, <1>5, <1>6, <2>1, GatheringsRead
<1> QED
  BY <1>7 DEF GatheredReplies, SeenReplies, SeenByGoReplies, seqs, vals, others

\* The replies of a transaction: any number of them, of any kind, encoded one by
\* one and gathered by EXEC, are read by both decoders as one array that takes
\* all the bytes.  Java's elements are those sent, but that nil is empty; Go
\* takes the sign of an integer for a digit, so a TTL of -1 or -2 within is
\* another number to it (TxnExec, comm.go; Decode, resp.go; RESPDecoder.java).
THEOREM TransactionsAreRead ==
  \A rs \in Seq(AnyReply) :
    LET s == GatheredReplies(rs)
    IN /\ Decode(s, Len(s)) = Value(<<SeenByGoReplies(rs)>>, Len(s))
       /\ decode(s) = Value(SeenReplies(rs), Len(s))
BY RepliesGathered, ReadAlone

\* Both decoders read every reply, and every pair of replies.
LEMMA RoundTrip == RepliesRoundTrip
<1> DEFINE bytes(r) == Encode(r[1], r[2])
           read(b, g, j) ==
             /\ Decode(b, Len(b)) = Value(<<g>>, Len(b))
             /\ decode(b) = Value(j, Len(b))
<1>1. ASSUME NEW r \in Replies PROVE read(bytes(r), SeenByGo(r[1]), Seen(r[1]))
  <2>1. ReadByBoth(bytes(r), SeenByGo(r[1]), Seen(r[1]))
    BY RepliesAre, ReplyRead DEF BytesOf
  <2> QED
    BY <2>1, ReadAlone
<1>2. ASSUME NEW r \in Replies, NEW v \in {NoValue, Integer(7), Integer(-2)}
      PROVE  read(TxnExec(<<bytes(r), Encode(v, FALSE)>>),
                  Arr(<<SeenByGo(r[1]), SeenByGo(v)>>), Arr(<<Seen(r[1]), Seen(v)>>))
  <2> DEFINE s == <<v, FALSE>>   rs == <<r, s>>
  <2>0. s[1] = v /\ s[2] = FALSE
    OBVIOUS
  <2>1. r \in AnyReply /\ s \in AnyReply
    <3> DEFINE W == {Error(t) : t \in Lines} \cup {Integer(i) : i \in -Half .. Half - 1} \cup {NoValue}
    <3>1. v \in W
      <4>1. 7 \in -Half .. Half - 1 /\ -2 \in -Half .. Half - 1
        BY WireAssumption
      <4> QED
        BY <4>1
    <3>2. s \in W \X {FALSE}
      <4> HIDE DEF W
      <4> QED
        BY <3>1
    <3> QED
      BY <3>2, RepliesAre DEF AnyReply
  <2> HIDE DEF s
  <2>2. rs \in Seq(AnyReply) /\ DOMAIN rs = 1 .. 2 /\ rs[1] = r /\ rs[2] = s
    <3> HIDE DEF AnyReply
    <3> QED
      BY <2>1
  <2>3. [i \in DOMAIN rs |-> BytesOf(rs[i])] = <<bytes(r), Encode(v, FALSE)>>
    <3>1. BytesOf(r) = bytes(r) /\ BytesOf(s) = Encode(v, FALSE)
      BY <2>0 DEF BytesOf
    <3>2. [i \in DOMAIN rs |-> BytesOf(rs[i])] = <<BytesOf(r), BytesOf(s)>>
      BY <2>2
    <3> QED
      BY <3>1, <3>2
  <2>4. [i \in DOMAIN rs |-> Seen(rs[i][1])] = <<Seen(r[1]), Seen(v)>>
    BY <2>0, <2>2
  <2>5. [i \in DOMAIN rs |-> SeenByGo(rs[i][1])] = <<SeenByGo(r[1]), SeenByGo(v)>>
    BY <2>0, <2>2
  <2>6. ReadByBoth(GatheredReplies(rs), SeenByGoReplies(rs), SeenReplies(rs))
    BY <2>2, RepliesGathered
  <2> QED
    BY <2>3, <2>4, <2>5, <2>6, ReadAlone DEF GatheredReplies, SeenReplies, SeenByGoReplies
<1> QED
  BY <1>1, <1>2 DEF RepliesRoundTrip
-----------------------------------------------------------------------------
(* What Java makes of a command that has not come whole.                   *)

\* A number but 0 is not written with a leading 0.
LEMMA FirstDigit ==
  ASSUME NEW k \in Nat, k > 0
  PROVE  Decimal[k][1] # 48
<1> DEFINE Good(i) == i > 0 => Decimal[i][1] # 48
           K == {m \in Nat : \A i \in 0 .. m : Good(i)}
<1>1. ASSUME NEW i \in Nat, i >= 10 => Good(i \div 10), i > 0 PROVE Decimal[i][1] # 48
  <2>1. CASE i < 10
    <3>1. Decimal[i] = <<48 + i>>
      <4>1. Decimal[i] = Written(Decimal, i)
        BY DecimalIs
      <4> QED
        BY <4>1, <2>1 DEF Written
    <3>2. 48 + i # 48
      BY <1>1
    <3> QED
      BY <3>1, <3>2
  <2>2. CASE i >= 10
    <3> DEFINE j == i \div 10   r == i % 10   c == 48 + r   s == Decimal[j]
    <3>1. j \in Nat /\ j > 0 /\ c \in Nat
      <4>1. j \in Nat /\ r \in 0 .. 9 /\ i = j * 10 + r
        BY <2>2, Tenth
      <4> HIDE DEF j, r
      <4>2. j > 0
        BY <4>1, <2>2
      <4> QED
        BY <4>1, <4>2
    <3>2. Decimal[i] = Append(s, c)
      <4>1. Decimal[i] = Written(Decimal, i)
        BY DecimalIs
      <4> QED
        BY <4>1, <2>2 DEF Written
    <3>3. s[1] # 48
      BY <3>1, <2>2, <1>1
    <3>4. s \in Seq(Nat) /\ Len(s) \in Nat \ {0}
      BY <3>1, DecimalReads, DigitsAreNat
    <3> HIDE DEF s, c, j
    <3>5. 1 \in 1 .. Len(s)
      BY <3>4
    <3>6. Append(s, c)[1] = s[1]
      BY <3>1, <3>4, <3>5, AppendTypes
    <3> QED
      BY <3>2, <3>3, <3>6
  <2> QED
    BY <2>1, <2>2
<1> HIDE DEF Good
<1>10. ASSUME NEW i \in Nat, i >= 10 => Good(i \div 10) PROVE Good(i)
  BY <1>10, <1>1 DEF Good
<1>2. 0 \in K
  BY <1>10
<1>3. \A m \in Nat : m \in K => m + 1 \in K
  <2> SUFFICES ASSUME NEW m \in Nat, m \in K PROVE Good(m + 1)
    OBVIOUS
  <2>1. m + 1 >= 10 => Good((m + 1) \div 10)
    BY Tenth
  <2> QED
    BY <2>1, <1>10
<1>4. k \in K
  <2> HIDE DEF K
  <2> QED
    BY <1>2, <1>3, NatInSet
<1> QED
  BY <1>4 DEF Good

\* Digits with no leading 0 stand for no 0, however many of them there are.
LEMMA NumberPositive ==
  ASSUME NEW s \in Seq(Digits), Len(s) > 0, s[1] # 48
  PROVE  Number(s) \in Nat /\ Number(s) > 0
<1> DEFINE m == Len(s)
<1>1. s \in Seq(Nat) /\ m \in Nat /\ m > 0 /\ \A i \in 1 .. m : s[i] \in Digits
  BY DigitsAreNat, DigitsAreNoCR, LenProperties
<1>2. PICK f \in [0 .. m -> Nat] : Counts(f, s)
  BY <1>1, CountsExist
<1>3. Number(s) = f[m]
  BY <1>1, <1>2, NumberIs
<1>4. f[0] = 0 /\ \A i \in 1 .. m : f[i] = f[i - 1] * 10 + ((s[i] - 48) % 256)
  BY <1>2 DEF Counts
<1> DEFINE K == {i \in Nat : i + 1 <= m => f[i + 1] > 0}
<1>5. 0 \in K
  <2>1. 1 \in 1 .. m /\ s[1] \in 49 .. 57
    BY <1>1 DEF Digits
  <2>2. f[1] = f[1 - 1] * 10 + ((s[1] - 48) % 256)
    BY <2>1, <1>4
  <2>3. 1 - 1 = 0 /\ (s[1] - 48) % 256 > 0 /\ 0 * 10 + ((s[1] - 48) % 256) = (s[1] - 48) % 256
    BY <2>1
  <2>4. f[1] > 0
    BY <2>2, <2>3, <1>4
  <2> QED
    BY <2>4
<1>6. ASSUME NEW i \in Nat, i \in K PROVE i + 1 \in K
  <2> SUFFICES ASSUME (i + 1) + 1 <= m PROVE f[(i + 1) + 1] > 0
    OBVIOUS
  <2> DEFINE j == i + 1   x == (s[j + 1] - 48) % 256   y == f[j]
  <2>1. j \in 0 .. m /\ j + 1 \in 1 .. m /\ (j + 1) - 1 = j
    BY <1>1
  <2>2. y > 0 /\ y \in Nat
    BY <1>1, <1>6, <2>1, SMTT(60)
  <2>3. s[j + 1] \in 48 .. 57
    BY <2>1, <1>1 DEF Digits
  <2>4. x \in Nat
    BY <2>3
  <2>5. f[j + 1] = y * 10 + x
    BY <2>1, <1>4
  <2> HIDE DEF x, y
  <2> QED
    BY <2>2, <2>4, <2>5
<1>7. m - 1 \in K
  <2> HIDE DEF K
  <2>1. m - 1 \in Nat
    BY <1>1
  <2> QED
    BY <2>1, <1>5, <1>6, NatInSet
<1>8. f[m] > 0 /\ f[m] \in Nat
  <2>1. (m - 1) + 1 = m /\ m \in 0 .. m
    BY <1>1
  <2> QED
    BY <2>1, <1>7
<1> QED
  BY <1>3, <1>8

\* Where the tokens of a command would end, from its first byte on.
TokensEnd(c, f) ==
  /\ \A i \in 0 .. Len(c) : f[i] \in Nat
  /\ f[0] = Len(Decimal[Len(c)]) + 3 /\ f[Len(c)] = Len(EncodeStrings(c))
  /\ \A i \in 1 .. Len(c) : f[i] = f[i - 1] + Len(encodeString(c[i]))

\* The parts of a command that has come as far as n.
LEMMA CommandParts ==
  ASSUME NEW b, NEW n \in Nat, NEW c \in Seq(Seq(Nat)), Cut(b, 0, n, EncodeStrings(c))
  PROVE  /\ (n > 0 => b[1] = Star)
         /\ Cut(b, 1, n, Decimal[Len(c)]) /\ Cut(b, 1 + Len(Decimal[Len(c)]), n, CRLF)
         /\ \E f : /\ TokensEnd(c, f)
                   /\ \A i \in 1 .. Len(c) : Cut(b, f[i - 1], n, encodeString(c[i]))
<1> DEFINE m == Len(c)
           seqs == [i \in DOMAIN c |-> encodeString(c[i])]
           d == Decimal[m]
           x == <<Star>>
           u == x \o d
           v == u \o CRLF
           z == FlattenSeq(seqs)
<1>1. /\ d \in Seq(Nat) /\ Len(d) \in Nat \ {0} /\ m \in Nat /\ 0 \in Nat
      /\ CRLF \in Seq(Nat) /\ Len(CRLF) = 2 /\ x \in Seq(Nat) /\ Len(x) = 1 /\ x[1] = Star
  BY DecimalReads, DigitsAreNat, LenProperties DEF Star, CRLF, CR, LF
<1>2. /\ seqs \in Seq(Seq(Nat)) /\ Len(seqs) = m
      /\ \A i \in 1 .. m : seqs[i] = encodeString(c[i])
  BY EncodedParts
<1>3. EncodeStrings(c) = v \o z
  BY DEF EncodeStrings
<1> HIDE DEF seqs, d, x
<1>4. PICK g \in [0 .. Len(seqs) -> Seq(Nat)] : Joins(g, seqs)
  BY <1>2, JoinsExist
<1>5. z = g[Len(seqs)] /\ z \in Seq(Nat) /\ Len(z) \in Nat
  <2>1. /\ seqs \in Seq(Seq(Nat)) /\ g \in [0 .. Len(seqs) -> Seq(Nat)] /\ Joins(g, seqs)
        /\ Len(seqs) \in 0 .. Len(seqs)
    BY <1>1, <1>2, <1>4
  <2>2. FlattenSeq(seqs) = g[Len(seqs)]
    BY ONLY <2>1, FlattenIs
  <2> QED
    BY <2>1, <2>2, LenProperties
<1> HIDE DEF z
<1>6. u \in Seq(Nat) /\ Len(u) = Len(x) + Len(d)
  BY <1>1, ConcatProperties
<1> HIDE DEF u
<1>7. v \in Seq(Nat) /\ Len(v) = Len(u) + Len(CRLF)
  BY <1>1, <1>6, ConcatProperties, ZenonT(60)
<1> HIDE DEF v
<1>8. Cut(b, 0, n, v) /\ Cut(b, 0 + Len(v), n, z) /\ Len(EncodeStrings(c)) = Len(v) + Len(z)
  <2>1. Cut(b, 0, n, v \o z)
    BY <1>3
  <2>2. Cut(b, 0, n, v) /\ Cut(b, 0 + Len(v), n, z) /\ Len(v \o z) = Len(v) + Len(z)
    <3>1. v \in Seq(Nat) /\ z \in Seq(Nat) /\ n \in Nat /\ 0 \in Nat
      BY <1>5, <1>7
    <3> QED
      BY ONLY <2>1, <3>1, CutParts
  <2> QED
    BY <2>2, <1>3
<1>9. Cut(b, 0, n, u) /\ Cut(b, 0 + Len(u), n, CRLF)
  <2>1. Cut(b, 0, n, u \o CRLF)
    BY <1>8 DEF v
  <2> QED
    BY <2>1, <1>1, <1>6, CutParts
<1>10. Cut(b, 0, n, x) /\ Cut(b, 0 + Len(x), n, d)
  <2>1. Cut(b, 0, n, x \o d)
    BY <1>9 DEF u
  <2> QED
    BY <2>1, <1>1, CutParts
<1>11. 0 + Len(x) = 1 /\ 0 + Len(u) = 1 + Len(d) /\ 0 + Len(v) = Len(d) + 3 /\ Len(v) = Len(d) + 3
  BY <1>1, <1>6, <1>7
<1>12. n > 0 => b[1] = Star
  <2>1. n > 0 => 0 + 1 <= n
    OBVIOUS
  <2>2. 0 + 1 = 1 /\ 1 \in 1 .. Len(x)
    BY <1>1
  <2> QED
    BY <2>1, <2>2, <1>1, <1>10 DEF Cut
<1> DEFINE q == Len(v)   f == [i \in 0 .. m |-> q + Len(g[i])]
<1>13. q \in Nat
  BY <1>1, <1>11
<1>14. /\ Len(g[0]) = 0 /\ \A i \in 0 .. m : Len(g[i]) \in Nat
       /\ \A i \in 1 .. m : /\ Len(g[i]) = Len(g[i - 1]) + Len(seqs[i])
                            /\ Cut(b, q + Len(g[i - 1]), n, seqs[i])
  <2>1. /\ n \in Nat /\ q \in Nat /\ seqs \in Seq(Seq(Nat)) /\ Len(seqs) = m
        /\ g \in [0 .. Len(seqs) -> Seq(Nat)] /\ Joins(g, seqs) /\ Cut(b, q, n, g[Len(seqs)])
    <3>1. 0 + Len(v) = q
      BY <1>13
    <3> QED
      BY <3>1, <1>2, <1>4, <1>5, <1>8, <1>13
  <2> HIDE DEF q, m
  <2>2. /\ Len(g[0]) = 0 /\ \A i \in 0 .. Len(seqs) : Len(g[i]) \in Nat
        /\ \A i \in 1 .. Len(seqs) : /\ Len(g[i]) = Len(g[i - 1]) + Len(seqs[i])
                                     /\ Cut(b, q + Len(g[i - 1]), n, seqs[i])
    BY ONLY <2>1, CutJoins
  <2> QED
    BY <2>1, <2>2
<1>15. \A i \in 1 .. m : Len(seqs[i]) \in Nat
  BY <1>2, ElementOfSeq, LenProperties
<1> HIDE DEF q
<1>16. \A i \in 0 .. m : f[i] = q + Len(g[i]) /\ f[i] \in Nat
  BY <1>13, <1>14
<1> HIDE DEF f
<1>17. f[0] = Len(d) + 3 /\ f[m] = Len(EncodeStrings(c))
  <2>1. 0 \in 0 .. m /\ m \in 0 .. m
    BY <1>1
  <2>2. f[0] = q + Len(g[0]) /\ f[m] = q + Len(g[m])
    BY <2>1, <1>16
  <2>3. q + 0 = q /\ q = Len(d) + 3
    BY <1>11, <1>13 DEF q
  <2>4. Len(EncodeStrings(c)) = q + Len(z)
    BY <1>8 DEF q
  <2>5. Len(seqs) = m
    BY <1>2
  <2> HIDE DEF m
  <2>6. f[m] = Len(EncodeStrings(c))
    BY <2>2, <2>4, <2>5, <1>5
  <2>7. f[0] = Len(d) + 3
    BY <2>2, <2>3, <1>14
  <2> QED
    BY <2>6, <2>7
<1>18. ASSUME NEW i \in 1 .. m
       PROVE  Cut(b, f[i - 1], n, encodeString(c[i])) /\ f[i] = f[i - 1] + Len(encodeString(c[i]))
  <2>1. i \in 0 .. m /\ i - 1 \in 0 .. m
    BY <1>1
  <2>2. f[i] = q + Len(g[i]) /\ f[i - 1] = q + Len(g[i - 1])
    BY <2>1, <1>16
  <2> DEFINE y == Len(g[i - 1])   w == Len(seqs[i])
  <2>3. y \in Nat /\ w \in Nat /\ Len(g[i]) = y + w
    BY <2>1, <1>14, <1>15
  <2> HIDE DEF y, w
  <2>4. q + (y + w) = (q + y) + w
    BY <2>3, <1>13
  <2>5. f[i] = f[i - 1] + w
    BY <2>2, <2>3, <2>4 DEF y
  <2> QED
    BY <2>2, <2>5, <1>2, <1>14 DEF w
<1>19. TokensEnd(c, f)
  BY <1>16, <1>17, <1>18 DEF TokensEnd, d
<1>20. Cut(b, 1, n, d) /\ Cut(b, 1 + Len(d), n, CRLF)
  BY <1>9, <1>10, <1>11
<1> QED
  BY <1>12, <1>18, <1>19, <1>20 DEF d

\* Tokens end one after the other.
LEMMA TokensEndInOrder ==
  ASSUME NEW c \in Seq(Seq(Nat)), NEW f, TokensEnd(c, f)
  PROVE  /\ \A i \in 1 .. Len(c) : f[i - 1] + 5 <= f[i]
         /\ \A i \in 0 .. Len(c) : f[i] <= f[Len(c)] /\ f[0] <= f[i]
<1> DEFINE m == Len(c)
<1>1. m \in Nat /\ \A i \in 1 .. m : c[i] \in Seq(Nat)
  BY LenProperties, ElementOfSeq
<1>2. ASSUME NEW i \in 1 .. m PROVE f[i - 1] + 5 <= f[i] /\ f[i - 1] \in Nat /\ f[i] \in Nat
  <2>1. i \in 0 .. m /\ i - 1 \in 0 .. m
    BY <1>1
  <2>2. f[i] = f[i - 1] + Len(encodeString(c[i])) /\ f[i - 1] \in Nat /\ f[i] \in Nat
    BY <2>1 DEF TokensEnd
  <2> DEFINE d == Decimal[Len(c[i])]
  <2>3. Len(encodeString(c[i])) = Len(d) + Len(c[i]) + 5 /\ Len(d) \in Nat /\ Len(c[i]) \in Nat
    BY <1>1, BulkParts
  <2> DEFINE x == Len(encodeString(c[i]))   y == Len(d)   w == Len(c[i])
  <2>4. x = y + w + 5 /\ y \in Nat /\ w \in Nat
    BY <2>3
  <2> HIDE DEF x, y, w, d
  <2>5. f[i] = f[i - 1] + x
    BY <2>2 DEF x
  <2> QED
    BY <2>2, <2>4, <2>5, SMTT(60)
<1> DEFINE K == {i \in Nat : i <= m => f[0] <= f[i] /\ f[m - i] <= f[m]}
<1>3. 0 \in K
  <2>1. f[0] \in Nat /\ f[m] \in Nat /\ m - 0 = m
    BY <1>1 DEF TokensEnd
  <2> QED
    BY <2>1
<1>4. ASSUME NEW i \in Nat, i \in K PROVE i + 1 \in K
  <2> SUFFICES ASSUME i + 1 <= m PROVE f[0] <= f[i + 1] /\ f[m - (i + 1)] <= f[m]
    OBVIOUS
  <2>1. f[0] <= f[i] /\ f[m - i] <= f[m]
    BY <1>1, <1>4
  <2>2. i + 1 \in 1 .. m /\ m - i \in 1 .. m /\ (i + 1) - 1 = i /\ (m - i) - 1 = m - (i + 1)
    BY <1>1
  <2>3. f[0] \in Nat /\ f[m] \in Nat
    BY <1>1 DEF TokensEnd
  <2>4. f[i] + 5 <= f[i + 1] /\ f[i] \in Nat /\ f[i + 1] \in Nat
    BY <2>2, <1>2
  <2>5. f[m - (i + 1)] + 5 <= f[m - i] /\ f[m - (i + 1)] \in Nat /\ f[m - i] \in Nat
    BY <2>2, <1>2
  <2> HIDE DEF K, m
  <2> QED
    BY <2>1, <2>3, <2>4, <2>5, SMTT(60)
<1>5. Nat \subseteq K
  <2> HIDE DEF K
  <2> QED
    BY <1>3, <1>4, NatInSet
<1>6. ASSUME NEW i \in 0 .. m PROVE f[i] <= f[m] /\ f[0] <= f[i]
  <2>1. i \in K /\ m - i \in K /\ i <= m /\ m - i <= m /\ m - (m - i) = i
    BY <1>1, <1>5
  <2> QED
    BY <2>1
<1> QED
  BY <1>2, <1>6

\* The values of tokens are a sequence.
LEMMA TokensAre ==
  ASSUME NEW c \in Seq(Seq(Nat))
  PROVE  Tokens(c) \in Seq({Str(t) : t \in Seq(Nat)}) /\ Len(Tokens(c)) = Len(c)
<1> DEFINE S == {Str(t) : t \in Seq(Nat)}
<1>1. Len(c) \in Nat /\ \A i \in 1 .. Len(c) : c[i] \in Seq(Nat)
  BY LenProperties, ElementOfSeq
<1>2. \A i \in 1 .. Len(c) : Str(c[i]) \in S
  BY <1>1
<1> HIDE DEF S
<1>3. Tokens(c) \in Seq(S)
  BY <1>1, <1>2, IsASeq DEF Tokens
<1> QED
  BY <1>1, <1>3, LenProperties DEF Tokens, S

\* What Java reads of each token, from its first byte.
LEMMA TokensCut ==
  ASSUME NEW b \in Seq(Nat), NEW c \in Seq(Seq(Nat)), NEW f, TokensEnd(c, f),
         \A i \in 1 .. Len(c) : Cut(b, f[i - 1], Len(b), encodeString(c[i])),
         NEW i \in 1 .. Len(c), f[i - 1] < Len(b)
  PROVE  /\ f[i] <= Len(b) + 2 => decodeOne(b)[f[i - 1]] = Value(Tokens(c)[i], f[i])
         /\ f[i] > Len(b) + 2 => decodeOne(b)[f[i - 1]] = Outcome("error")
<1> DEFINE n == Len(b)   q == f[i - 1]   t == c[i]
<1>1. n \in Nat /\ t \in Seq(Nat) /\ Len(c) \in Nat
  BY LenProperties, ElementOfSeq
<1>2. i - 1 \in 0 .. Len(c)
  BY <1>1
<1>3. q \in Nat /\ f[i] = q + Len(encodeString(t))
  BY <1>2 DEF TokensEnd
<1>4. Tokens(c)[i] = Str(t)
  BY DEF Tokens
<1>5. Cut(b, q, n, encodeString(t)) /\ q < n
  OBVIOUS
<1> HIDE DEF q, t
<1>6. q \in 0 .. Len(b) - 1 /\ Cut(b, q, Len(b), encodeString(t))
  BY <1>1, <1>3, <1>5
<1>7. /\ q + Len(encodeString(t)) <= Len(b) + 2 =>
           decodeOne(b)[q] = Value(Str(t), q + Len(encodeString(t)))
      /\ q + Len(encodeString(t)) > Len(b) + 2 => decodeOne(b)[q] = Outcome("error")
  BY <1>1, <1>6, TokenCut
<1> QED
  BY <1>3, <1>4, <1>7 DEF q

\* Once all of a command but the last CRLF has come, all its tokens are placed;
\* before that, one of them is not, and those before it are.
LEMMA TokensPlaced ==
  ASSUME NEW b \in Seq(Nat), NEW c \in Seq(Seq(Nat)), NEW f, TokensEnd(c, f), c # <<>>,
         \A i \in 1 .. Len(c) : Cut(b, f[i - 1], Len(b), encodeString(c[i]))
  PROVE  /\ Len(b) + 2 >= f[Len(c)] => Placed(decodeOne(b), Len(b), Len(c), Tokens(c), f)
         /\ Len(b) + 2 < f[Len(c)] =>
              \E k \in 0 .. Len(c) - 1 :
                /\ Placed(decodeOne(b), Len(b), k, Tokens(c), f)
                /\ f[k] >= Len(b) \/ decodeOne(b)[f[k]].out \in {"panic", "error"}
<1> DEFINE n == Len(b)   m == Len(c)   one == decodeOne(b)
<1>1. n \in Nat /\ m \in Nat \ {0}
  BY LenProperties, EmptySeq
<1>2. \A i \in 0 .. m : f[i] \in Nat
  BY DEF TokensEnd
<1>3. /\ \A i \in 1 .. m : f[i - 1] + 5 <= f[i]
      /\ \A i \in 0 .. m : f[i] <= f[m]
  BY TokensEndInOrder
<1>4. ASSUME NEW i \in 1 .. m, f[i - 1] < n
      PROVE  /\ f[i] <= n + 2 => one[f[i - 1]] = Value(Tokens(c)[i], f[i])
             /\ f[i] > n + 2 => one[f[i - 1]] = Outcome("error")
  BY <1>4, TokensCut
<1> HIDE DEF n, m, one
<1>5. ASSUME n + 2 >= f[m] PROVE Placed(one, n, m, Tokens(c), f)
  <2>1. ASSUME NEW i \in 1 .. m PROVE f[i - 1] < n /\ one[f[i - 1]] = Value(Tokens(c)[i], f[i])
    <3>1. i \in 0 .. m /\ i - 1 \in 0 .. m /\ m \in 0 .. m
      BY <1>1
    <3>2. f[i] \in Nat /\ f[i - 1] \in Nat /\ f[m] \in Nat
      BY <3>1, <1>2
    <3> DEFINE x == f[i - 1]   y == f[i]   z == f[m]
    <3>3. x \in Nat /\ y \in Nat /\ z \in Nat /\ x + 5 <= y /\ y <= z
      BY <3>1, <3>2, <1>3
    <3> HIDE DEF x, y, z
    <3>4. z <= n + 2
      BY <1>5 DEF z
    <3>5. y <= n + 2 /\ x < n
      BY <3>3, <3>4, <1>1
    <3>6. f[i] <= n + 2 /\ f[i - 1] < n
      BY <3>5 DEF x, y
    <3> QED
      BY <3>6, <1>4
  <2> QED
    BY <2>1, <1>2 DEF Placed
<1>6. ASSUME n + 2 < f[m]
      PROVE  \E k \in 0 .. m - 1 :
               Placed(one, n, k, Tokens(c), f) /\ (f[k] >= n \/ one[f[k]].out \in {"panic", "error"})
  <2> DEFINE T == {k \in 0 .. m - 1 : f[k] >= n \/ f[k + 1] > n + 2}
  <2>1. T \in SUBSET Nat /\ m - 1 \in T
    <3>1. m - 1 \in 0 .. m - 1 /\ (m - 1) + 1 = m /\ m \in 0 .. m
      BY <1>1
    <3>2. f[m] > n + 2
      BY <3>1, <1>1, <1>2, <1>6
    <3>3. 0 .. m - 1 \in SUBSET Nat
      OBVIOUS
    <3> QED
      BY <3>1, <3>2, <3>3
  <2>2. PICK k \in T : \A y \in T : k <= y
    <3> HIDE DEF T
    <3> QED
      BY <2>1, LeastNat
  <2>3. k \in 0 .. m - 1 /\ (f[k] >= n \/ f[k + 1] > n + 2)
    BY <2>2
  <2>4. ASSUME NEW i \in 1 .. k PROVE f[i - 1] < n /\ one[f[i - 1]] = Value(Tokens(c)[i], f[i])
    <3>1. i - 1 \in 0 .. m - 1 /\ i - 1 < k /\ i \in 1 .. m /\ (i - 1) + 1 = i
      BY <1>1, <2>3
    <3>2. i - 1 \notin T
      <4>1. ASSUME i - 1 \in T PROVE FALSE
        <5>1. k <= i - 1
          BY <4>1, <2>2
        <5> QED
          BY <5>1, <3>1, <2>3
      <4> QED
        BY <4>1
    <3>3. ~(f[i - 1] >= n) /\ ~(f[i] > n + 2)
      BY <3>1, <3>2
    <3>4. f[i - 1] \in Nat /\ f[i] \in Nat
      <4>1. i - 1 \in 0 .. m /\ i \in 0 .. m
        BY <1>1, <3>1
      <4> QED
        BY <4>1, <1>2
    <3>5. f[i - 1] < n /\ f[i] <= n + 2
      BY <3>3, <3>4, <1>1
    <3> QED
      BY <3>1, <3>5, <1>4
  <2>5. \A i \in 0 .. k : f[i] \in Nat
    <3>1. \A i \in 0 .. k : i \in 0 .. m
      BY <1>1, <2>3
    <3> QED
      BY <3>1, <1>2
  <2>6. Placed(one, n, k, Tokens(c), f)
    BY <2>4, <2>5 DEF Placed
  <2>7. ASSUME ~(f[k] >= n) PROVE one[f[k]].out = "error"
    <3>1. k + 1 \in 1 .. m /\ (k + 1) - 1 = k /\ f[k] \in Nat
      BY <1>1, <2>3, <2>5
    <3>2. f[k] < n /\ f[k + 1] > n + 2
      BY <3>1, <2>3, <2>7, <1>1
    <3>3. one[f[k]] = Outcome("error")
      BY <3>1, <3>2, <1>4
    <3> QED
      BY <3>3 DEF Outcome
  <2> QED
    BY <2>3, <2>6, <2>7
<1> QED
  BY <1>5, <1>6 DEF n, m, one

\* A part of the digits of a length that is not 0 is no 0 either.
LEMMA PartOfLength ==
  ASSUME NEW b \in Seq(Nat), NEW k \in Nat, k > 0, Cut(b, 1, Len(b), Decimal[k]),
         Len(b) > 1, Len(b) <= 1 + Len(Decimal[k])
  PROVE  Number(Slice(b, 1, Len(b))) \in Nat /\ Number(Slice(b, 1, Len(b))) > 0
<1> DEFINE n == Len(b)   d == Decimal[k]   s == Slice(b, 1, n)
<1>1. d \in Seq(Digits) /\ Len(d) \in Nat /\ d[1] # 48 /\ n \in Nat /\ n > 1 /\ n <= 1 + Len(d)
  BY DecimalReads, FirstDigit, LenProperties
<1>2. \A i \in 1 .. Len(d) : d[i] \in Digits
  BY <1>1, DigitsAreNoCR
<1>3. /\ s \in Seq(Nat) /\ Len(s) = n - 1 /\ \A i \in 1 .. n - 1 : s[i] = b[1 + i]
  <2>1. 1 \in Nat /\ n \in 1 .. Len(b)
    BY <1>1
  <2> QED
    BY <2>1, SliceType
<1>4. \A i \in 1 .. Len(d) : 1 + i <= n => b[1 + i] = d[i]
  BY DEF Cut
<1> HIDE DEF n, d, s
<1>5. ASSUME NEW i \in 1 .. n - 1 PROVE s[i] = d[i] /\ s[i] \in Digits
  <2>1. i \in 1 .. Len(d) /\ 1 + i <= n
    BY <1>1
  <2> QED
    BY <2>1, <1>2, <1>3, <1>4
<1>6. s \in Seq(Digits)
  <2>1. Len(s) \in Nat /\ s = [i \in 1 .. Len(s) |-> s[i]]
    BY <1>3, LenProperties
  <2>2. \A i \in 1 .. Len(s) : s[i] \in Digits
    BY <1>3, <1>5
  <2> QED
    BY <2>1, <2>2, IsASeq
<1>7. Len(s) > 0 /\ s[1] # 48
  <2>1. 1 \in 1 .. n - 1
    BY <1>1
  <2> QED
    BY <2>1, <1>1, <1>3, <1>5
<1>8. Number(s) \in Nat /\ Number(s) > 0
  BY <1>6, <1>7, NumberPositive
<1> QED
  BY <1>8 DEF s, n

\* Of a command that has not come whole, but of which there is something.
LEMMA JavaCut ==
  ASSUME NEW b \in Seq(Nat), b # <<>>, NEW c \in Seq(Seq(Nat)), c # <<>>,
         Cut(b, 0, Len(b), EncodeStrings(c))
  PROVE  /\ Len(b) = 1 => decode(b).val = Arr(<<>>)
         /\ Len(b) + 2 >= Len(EncodeStrings(c)) => Len(b) # 1 /\ decode(b).val = Arr(Tokens(c))
         /\ Len(b) # 1 /\ Len(b) + 2 < Len(EncodeStrings(c)) => decode(b).out = "error"
<1> DEFINE n == Len(b)   m == Len(c)   d == Decimal[m]   one == decodeOne(b)
           r == readLen(b, 1, n)   S == {Str(t) : t \in Seq(Nat)}
<1>1. /\ n \in Nat \ {0} /\ m \in Nat \ {0} /\ m > 0 /\ Len(d) \in Nat \ {0}
      /\ n \in 0 .. Len(b) /\ 1 \in 0 .. n /\ n = Len(b) /\ m \in Nat
  BY LenProperties, EmptySeq, DecimalReads
<1>2. /\ b[1] = Star /\ Cut(b, 1, n, d) /\ Cut(b, 1 + Len(d), n, CRLF)
      /\ \E f : /\ TokensEnd(c, f)
                /\ \A i \in 1 .. m : Cut(b, f[i - 1], n, encodeString(c[i]))
  <2>1. n \in Nat /\ n > 0 /\ Cut(b, 0, n, EncodeStrings(c))
    BY <1>1
  <2> HIDE DEF n
  <2> QED
    BY <2>1, CommandParts
<1>3. PICK f : /\ TokensEnd(c, f)
               /\ \A i \in 1 .. m : Cut(b, f[i - 1], n, encodeString(c[i]))
  BY <1>2
<1>4. decode(b) = Throws(ArrayOf(Elements(one, r, n)))
  <2>1. decode(b) = one[0]
    BY DEF decode
  <2>2. 0 \in 0 .. n - 1 /\ 0 + 1 = 1
    BY <1>1
  <2>3. one[0] = decodeAt(b, 0, n, one)
    BY <2>2, JavaOneIs
  <2> HIDE DEF one, n
  <2>4. decodeAt(b, 0, n, one) = Throws(ArrayOf(Elements(one, r, n)))
    BY <2>2, <1>2 DEF decodeAt, Plus, Minus, Colon, Dollar, Star, r
  <2> QED
    BY <2>1, <2>3, <2>4
<1>5. /\ n <= 1 + Len(d) => r = [length |-> Number(Slice(b, 1, n)), next |-> n + 2]
      /\ n > 1 + Len(d) => r = [length |-> m, next |-> 1 + Len(d) + 2]
  BY <1>1, <1>2, LenCut
<1>6. /\ n + 2 >= f[m] => Placed(one, n, m, Tokens(c), f)
      /\ n + 2 < f[m] =>
           \E k \in 0 .. m - 1 :
             /\ Placed(one, n, k, Tokens(c), f)
             /\ f[k] >= n \/ one[f[k]].out \in {"panic", "error"}
  BY <1>3, TokensPlaced
<1>7. /\ f[m] \in Nat /\ f[0] = Len(d) + 3 /\ f[m] = Len(EncodeStrings(c))
      /\ f[0] + 5 <= f[m]
  <2>1. 0 \in 0 .. m /\ 1 \in 0 .. m /\ m \in 0 .. m /\ 1 \in 1 .. m /\ 1 - 1 = 0
    BY <1>1
  <2>2. f[0] \in Nat /\ f[1] \in Nat /\ f[m] \in Nat
    BY <2>1, <1>3 DEF TokensEnd
  <2>3. f[0] + 5 <= f[1] /\ f[1] <= f[m]
    BY <2>1, <1>3, TokensEndInOrder
  <2>4. f[0] = Len(d) + 3 /\ f[m] = Len(EncodeStrings(c))
    BY <1>3 DEF TokensEnd
  <2> HIDE DEF m
  <2> QED
    BY <2>2, <2>3, <2>4
<1>8. Tokens(c) \in Seq(S) /\ Len(Tokens(c)) = m
  BY TokensAre
<1>9. ASSUME n <= 1 + Len(d), n > 1 PROVE Number(Slice(b, 1, n)) \in Nat /\ Number(Slice(b, 1, n)) > 0
  BY <1>1, <1>2, <1>9, PartOfLength
<1>10. ASSUME n = 1 PROVE Number(Slice(b, 1, n)) = 0
  <2>1. 1 \in 0 .. Len(b)
    BY <1>1
  <2>2. Slice(b, 1, 1) = <<>>
    BY <2>1, SliceOfNone
  <2> QED
    BY <2>2, <1>10, NumberOfNone
<1> DEFINE le == Len(EncodeStrings(c))   ld == Len(d)
<1>11. /\ n \in Nat \ {0} /\ ld \in Nat \ {0} /\ le \in Nat /\ f[m] = le /\ f[0] = ld + 3
       /\ ld + 8 <= le
  BY <1>1, <1>7
<1> HIDE DEF n, m, d, one, r, S, le, ld
<1>12. ASSUME Elements(one, r, n).out # "value" PROVE decode(b).out = "error"
  BY <1>4, <1>12 DEF Throws, ArrayOf, Outcome
<1>13. CASE n <= 1 + ld /\ n = 1
  <2> DEFINE e == <<>>   g == [i \in {0} |-> n + 2]
  <2>1. e \in Seq(S) /\ Len(e) = 0
    OBVIOUS
  <2>2. g[0] = n + 2 /\ n + 2 \in Nat
    BY <1>11
  <2>3. r.length = Len(e) /\ r.next = g[0]
    BY <2>1, <2>2, <1>5, <1>10, <1>13 DEF ld
  <2> HIDE DEF e, g
  <2>4. Placed(one, n, Len(e), e, g)
    BY <2>1, <2>2 DEF Placed
  <2>5. Elements(one, r, n) = Value(e, g[Len(e)])
    <3>1. /\ n \in Nat /\ e \in Seq(S) /\ Placed(one, n, Len(e), e, g)
          /\ r.length = Len(e) /\ r.next = g[0]
      BY <1>11, <2>1, <2>3, <2>4
    <3> QED
      BY ONLY <3>1, ElementsPlaced
  <2>6. decode(b).val = Arr(e)
    BY <2>5, <1>4 DEF Throws, ArrayOf, Value
  <2>7. ~(n + 2 >= le)
    BY <1>11, <1>13
  <2> QED
    BY <2>6, <2>7, <1>13 DEF e, n, le
<1>14. CASE n <= 1 + ld /\ n # 1
  <2> DEFINE e == <<>>   g == [i \in {0} |-> n + 2]   k == Number(Slice(b, 1, n))
  <2>1. e \in Seq(S) /\ Len(e) = 0
    OBVIOUS
  <2>2. g[0] = n + 2 /\ n + 2 \in Nat /\ n + 2 >= n /\ n > 1
    BY <1>11, <1>14
  <2>3. k \in Nat /\ k > 0
    BY <2>2, <1>9, <1>14 DEF ld
  <2>4. r.length = k /\ r.next = g[0]
    BY <2>2, <1>5, <1>14 DEF ld
  <2> HIDE DEF e, g, k
  <2>5. Placed(one, n, 0, e, g)
    BY <2>1, <2>2 DEF Placed
  <2>6. k \in Nat /\ 0 \in 0 .. k - 1 /\ 0 <= Len(e) /\ g[0] >= n /\ n \in Nat
    BY <1>11, <2>1, <2>2, <2>3
  <2>7. Elements(one, r, n).out # "value"
    BY <2>1, <2>4, <2>5, <2>6, ElementsStop
  <2>8. ~(n + 2 >= le)
    BY <1>11, <1>14
  <2> QED
    BY <2>7, <2>8, <1>12, <1>14 DEF n, le
<1>15. CASE n > 1 + ld
  <2>1. r.length = m /\ r.next = f[0] /\ n # 1
    <3>1. 1 + ld + 2 = ld + 3
      BY <1>11
    <3>2. r = [length |-> m, next |-> ld + 3]
      BY <3>1, <1>5, <1>15 DEF ld
    <3>3. n # 1
      BY <1>11, <1>15
    <3> QED
      BY <3>2, <3>3, <1>11
  <2>2. CASE n + 2 >= le
    <3>1. Placed(one, n, Len(Tokens(c)), Tokens(c), f)
      BY <2>2, <1>6, <1>8, <1>11
    <3> DEFINE v == Tokens(c)
    <3>2. v \in Seq(S) /\ Placed(one, n, Len(v), v, f) /\ r.length = Len(v) /\ r.next = f[0]
      BY <2>1, <3>1, <1>8
    <3> HIDE DEF v
    <3>3. Elements(one, r, n) = Value(v, f[Len(v)])
      BY <3>2, <1>11, ElementsPlaced
    <3>4. decode(b).val = Arr(v)
      BY <3>3, <1>4 DEF Throws, ArrayOf, Value
    <3>5. ~(n + 2 < le)
      BY <2>2, <1>11
    <3> QED
      BY <2>1, <3>4, <3>5 DEF n, le, v
  <2>3. CASE ~(n + 2 >= le)
    <3>1. n + 2 < le
      BY <2>3, <1>11
    <3>2. PICK k \in 0 .. m - 1 :
            /\ Placed(one, n, k, Tokens(c), f)
            /\ f[k] >= n \/ one[f[k]].out \in {"panic", "error"}
      BY <3>1, <1>6, <1>11
    <3> DEFINE v == Tokens(c)
    <3>3. /\ v \in Seq(S) /\ Placed(one, n, k, v, f) /\ r.length = m /\ r.next = f[0]
          /\ k <= Len(v) /\ m \in Nat /\ n \in Nat
      BY <2>1, <3>2, <1>1, <1>8, <1>11
    <3> HIDE DEF v
    <3>4. Elements(one, r, n).out # "value"
      BY <3>2, <3>3, ElementsStop
    <3> QED
      BY <2>1, <2>3, <3>4, <1>12 DEF n, le
  <2> QED
    BY <2>2, <2>3
<1>16. n <= 1 + ld \/ n > 1 + ld
  BY <1>11
<1> QED
  BY <1>13, <1>14, <1>15, <1>16

\* Java decodes no command before it has all of it but the last CRLF.
LEMMA NeverPads == JavaNeverPads
<1> SUFFICES ASSUME NEW c \in Commands, NEW n \in 0 .. Len(Encoded[c])
             PROVE  LET d == decode(SubSeq(Encoded[c], 1, n)) IN
                    CASE n = 1 -> d.val = Arr(<<>>)
                      [] n >= Len(Encoded[c]) - 2 -> d.val = Arr([i \in DOMAIN c |-> Str(c[i])])
                      [] OTHER -> d.out = "error"
  BY DEF JavaNeverPads
<1> DEFINE e == Encoded[c]   b == SubSeq(e, 1, n)   k == Len(e)
           v == Arr([i \in DOMAIN c |-> Str(c[i])])
<1>1. c \in Seq(Seq(Nat)) /\ Len(c) \in Nat \ {0} /\ e = EncodeStrings(c) /\ e \in Seq(Nat) /\ k \in Nat \ {0}
  BY CommandsAre
<1>2. c # <<>> /\ v = Arr(Tokens(c))
  <2>1. DOMAIN c = 1 .. Len(c)
    BY <1>1, LenProperties
  <2> QED
    BY <2>1, <1>1 DEF Tokens
<1>3. n \in Nat /\ n <= k
  BY <1>1
<1>4. b \in Seq(Nat) /\ Len(b) = n /\ \A i \in 1 .. n : b[i] = e[i]
  <2>1. \A i \in 1 .. n : e[i] \in Nat
    BY <1>1, <1>3, ElementOfSeq
  <2>2. /\ SubSeq(e, 1, n) \in Seq(Nat)
        /\ Len(SubSeq(e, 1, n)) = IF 1 <= n THEN n - 1 + 1 ELSE 0
        /\ \A i \in 1 .. n - 1 + 1 : SubSeq(e, 1, n)[i] = e[1 + i - 1]
    BY <2>1, <1>3, SubSeqProperties
  <2>3. n - 1 + 1 = n /\ \A i \in 1 .. n : 1 + i - 1 = i
    BY <1>3
  <2> QED
    BY <2>2, <2>3, <1>3
<1>5. Cut(b, 0, n, e)
  <2>1. \A i \in 1 .. k : 0 + i = i /\ (0 + i <= n => i \in 1 .. n)
    BY <1>1, <1>3
  <2> QED
    BY <2>1, <1>4 DEF Cut
<1> HIDE DEF e, b, k, v
<1>6. ASSUME n # 0
      PROVE  /\ n = 1 => decode(b).val = Arr(<<>>)
             /\ n + 2 >= k => n # 1 /\ decode(b).val = v
             /\ n # 1 /\ n + 2 < k => decode(b).out = "error"
  <2>1. b # <<>> /\ Cut(b, 0, Len(b), EncodeStrings(c))
    <3>1. Cut(b, 0, Len(b), EncodeStrings(c))
      BY <1>1, <1>4, <1>5
    <3>2. b # <<>>
      BY <1>4, <1>6
    <3> QED
      BY <3>1, <3>2
  <2>2. /\ Len(b) = 1 => decode(b).val = Arr(<<>>)
        /\ Len(b) + 2 >= Len(EncodeStrings(c)) => Len(b) # 1 /\ decode(b).val = Arr(Tokens(c))
        /\ Len(b) # 1 /\ Len(b) + 2 < Len(EncodeStrings(c)) => decode(b).out = "error"
    BY <2>1, <1>1, <1>2, <1>4, JavaCut
  <2> QED
    BY <2>2, <1>1, <1>2, <1>4 DEF k
<1>7. ASSUME n = 0 PROVE decode(b).out = "error" /\ k > 2
  <2>1. b = <<>>
    BY <1>4, <1>7, EmptySeq
  <2>2. decode(b).out = "error"
    BY <2>1 DEF decode, Outcome
  <2>3. k > 2
    <3>1. PICK f : TokensEnd(c, f)
      <4>1. Cut(b, 0, 0, EncodeStrings(c)) /\ 0 \in Nat
        BY <1>1, <1>5, <1>7
      <4> QED
        BY <4>1, <1>1, CommandParts
    <3>2. f[0] = Len(Decimal[Len(c)]) + 3 /\ f[Len(c)] = k /\ f[0] <= f[Len(c)]
      <4>1. Len(c) \in 0 .. Len(c)
        BY <1>1
      <4> QED
        BY <3>1, <4>1, <1>1, TokensEndInOrder DEF TokensEnd, k
    <3>3. Len(Decimal[Len(c)]) \in Nat
      BY <1>1, DecimalReads
    <3> QED
      BY <3>2, <3>3, <1>1
  <2> QED
    BY <2>2, <2>3
<1>8. CASE n = 0
  <2>1. n # 1 /\ ~(n >= k - 2)
    BY <1>1, <1>7, <1>8
  <2> QED
    BY <2>1, <1>7, <1>8 DEF e, b, k
<1>9. CASE n # 0 /\ n >= k - 2
  <2>1. n + 2 >= k
    BY <1>1, <1>3, <1>9
  <2> QED
    BY <2>1, <1>6, <1>9 DEF e, b, k, v
<1>10. CASE n # 0 /\ ~(n >= k - 2)
  <2>1. n + 2 < k
    BY <1>1, <1>3, <1>10
  <2> QED
    BY <2>1, <1>6, <1>10 DEF e, b, k, v
<1> QED
  BY <1>8, <1>9, <1>10

\* The codecs agree on what the server sends, and on whole commands, for every
\* command and every reply (Encode, resp.go; RESPDecoder.java).
THEOREM CodecsAlwaysAgree == Spec => []CodecsAgree
<1>1. CodecsAgree
  BY RoundTrip, NeverPads DEF CodecsAgree
<1> QED
  BY <1>1, PTL
=============================================================================
