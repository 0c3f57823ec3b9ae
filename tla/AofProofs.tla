----------------------------- MODULE AofProofs -----------------------------
(***************************************************************************)
(* Theorems about the AOF file, for any keys and values, any number of     *)
(* children and any overlap of their dumps.                                *)
(***************************************************************************)
EXTENDS Aof, Recursion

USE AofAssumption, FileAssumption

\* A dump works on the store of its fork, and only on what that store holds.
FromFork ==
  \A p \in Procs :
    /\ phase[p] \in {"open", "dump"} => store[p] = snap[p]
    /\ phase[p] = "dump" => file # Nil /\ todo[p] \subseteq Present(store[p])
    /\ phase[p] = "none" => \A k \in Keys : snap[p][k] = Nil
    /\ p = Main => phase[p] \in {"serve", "gone"} /\ order[p] = <<>> /\ snap[p] = [k \in Keys |-> Nil]

\* The file reaches exactly as far as the furthest dump has come, or as far as
\* the server found it.
Extent ==
  /\ file = Nil => old = <<>> /\ \A p \in Procs : off[p] = 0 /\ order[p] = <<>>
  /\ file # Nil => /\ Len(old) <= Len(file) /\ \A p \in Procs : off[p] <= Len(file)
                   /\ Len(old) = Len(file) \/ \E p \in Procs : off[p] = Len(file)

AofInv == TypeOK /\ FromFork /\ Extent /\ CellsFromSnapshots
-----------------------------------------------------------------------------
\* The greater of two numbers: a file after a write is as long as the further end.
LEMMA MaxOfTwo ==
  ASSUME NEW a \in Nat, NEW b \in Nat
  PROVE  Max({a, b}) = IF a >= b THEN a ELSE b
BY DEF Max

\* The greatest element of a set of integers is the one no other exceeds.
LEMMA MaxIs ==
  ASSUME NEW S \in SUBSET Int, NEW m \in S, \A x \in S : x <= m
  PROVE  Max(S) = m
<1>1. \A x \in S : x \in Int
  OBVIOUS
<1>2. \A y \in S : m >= y
  BY <1>1
<1>3. ASSUME NEW x \in S, \A y \in S : x >= y
      PROVE  x = m
  <2>1. x \in Int /\ m \in Int /\ x >= m /\ x <= m
    BY <1>1, <1>3
  <2> QED
    BY <2>1
<1>4. Max(S) \in S /\ \A y \in S : Max(S) >= y
  BY <1>2 DEF Max
<1> QED
  BY <1>3, <1>4

\* A record is one or two cells of its key and value.
LEMMA RecordCells ==
  ASSUME NEW k \in Keys, NEW v \in Vals
  PROVE  /\ Record(k, v) \in Seq(Cell)
         /\ \A i \in DOMAIN Record(k, v) :
              Record(k, v)[i].key = k /\ Record(k, v)[i].val = v
BY DEF Record, Size, Cell

\* Overwriting a file from within it leaves every cell either as it was or as
\* written, and extends the file no further than needed.
LEMMA OverwriteCells ==
  ASSUME NEW f \in Seq(Cell), NEW s \in Seq(Cell), NEW n \in Nat, n <= Len(f),
         NEW h, h = Overwrite(f, n, s)
  PROVE  /\ h \in Seq(Cell)
         /\ Len(h) = IF Len(f) >= n + Len(s) THEN Len(f) ELSE n + Len(s)
         /\ \A i \in DOMAIN h : \/ i \in DOMAIN f /\ h[i] = f[i]
                                \/ \E j \in DOMAIN s : h[i] = s[j]
<1> DEFINE m == IF Len(f) >= n + Len(s) THEN Len(f) ELSE n + Len(s)
           g == [i \in 1 .. m |-> IF i \in n + 1 .. n + Len(s) THEN s[i - n] ELSE f[i]]
<1>1. Overwrite(f, n, s) = g
  BY MaxOfTwo DEF Overwrite
<1>2. m \in Nat
  OBVIOUS
<1>3. \A i \in 1 .. m : \/ i - n \in DOMAIN s /\ g[i] = s[i - n]
                        \/ i \in DOMAIN f /\ g[i] = f[i]
  OBVIOUS
<1>4. g \in Seq(Cell) /\ Len(g) = m /\ DOMAIN g = 1 .. m
  BY <1>2, <1>3
<1> QED
  BY <1>1, <1>3, <1>4, ZenonT(60)
-----------------------------------------------------------------------------
\* The types, the extent of the file and the origin of its cells are preserved
\* together.
LEMMA AofInvStep == AofInv /\ [Next]_vars => AofInv'
<1> SUFFICES ASSUME AofInv, [Next]_vars PROVE AofInv'
  OBVIOUS
<1>0. TypeOK /\ FromFork /\ Extent /\ CellsFromSnapshots
  BY DEF AofInv
<1> USE DEF fixed, dumping
<1>1. ASSUME NEW p \in Procs, NEW k \in Keys, NEW v \in Vals \cup {Nil}, Serve(p, k, v)
      PROVE  AofInv'
  <2> USE <1>0, <1>1 DEF Serve
  <2>1. TypeOK'
    BY DEF TypeOK, Stores
  <2>2. FromFork'
    BY DEF FromFork, Present, TypeOK, Stores
  <2>3. Extent' /\ CellsFromSnapshots'
    BY DEF Extent, CellsFromSnapshots
  <2> QED
    BY <2>1, <2>2, <2>3 DEF AofInv
<1>2. ASSUME NEW p \in Procs, NEW c \in Children,
             evalBGREWRITEAOF(p, c) \/ (p = Main /\ Shutdown(c))
      PROVE  AofInv'
  <2> USE <1>0, <1>2 DEF evalBGREWRITEAOF, Shutdown, Fork
  <2>1. TypeOK'
    BY ZenonT(60) DEF TypeOK, Stores, Procs
  <2>a. /\ c \in Procs /\ c # p /\ c # Main /\ store[p] \in Stores
        /\ phase[p] = "serve" /\ phase[c] = "none"
        /\ store' = [store EXCEPT ![c] = store[p]]
        /\ snap' = [snap EXCEPT ![c] = store[p]]
        /\ UNCHANGED dumping
    BY DEF Procs, TypeOK
  <2>b. /\ phase'[c] = "open"
        /\ \A q \in Procs \ {c} : phase'[q] = phase[q] \/ phase'[q] = "gone"
        /\ \A q \in Procs \ {c} : phase'[q] # phase[q] => q = Main
    BY <2>a DEF TypeOK
  <2>2. FromFork'
    <3> SUFFICES ASSUME NEW q \in Procs PROVE FromFork!(q)'
      BY DEF FromFork
    <3>1. CASE q = c
      BY ONLY <3>1, <2>a, <2>b, <1>0 DEF TypeOK
    <3>2. CASE q # c
      BY ONLY <3>2, <2>a, <2>b, <1>0 DEF TypeOK, FromFork, Present
    <3> QED
      BY <3>1, <3>2
  <2>3. Extent'
    BY DEF Extent
  <2>4. CellsFromSnapshots'
    <3> SUFFICES ASSUME file # Nil, NEW i \in DOMAIN file, ~(i \in DOMAIN old /\ file[i] = old[i])
                 PROVE  \E q \in Children : snap'[q][file[i].key] = file[i].val
      BY <2>a DEF CellsFromSnapshots
    <3>1. file[i] \in Cell
      BY DEF TypeOK
    <3>2. PICK q \in Children : snap[q][file[i].key] = file[i].val
      BY DEF CellsFromSnapshots
    <3>3. q # c
      BY ONLY <3>1, <3>2, <2>a, <1>0, AofAssumption DEF FromFork, Cell
    <3> QED
      BY <3>2, <3>3, <2>a DEF TypeOK, Procs
  <2> QED
    BY <2>1, <2>2, <2>3, <2>4 DEF AofInv
<1>3. ASSUME NEW p \in Children, OpenFile(p)
      PROVE  AofInv'
  <2> USE <1>0, <1>3 DEF OpenFile, Found
  <2>1. TypeOK'
    BY DEF TypeOK, Present, Procs
  <2>2. FromFork'
    BY DEF FromFork, Present, TypeOK, Procs
  <2>3. Extent'
    BY DEF Extent, TypeOK, Procs
  <2>4. CellsFromSnapshots'
    BY DEF CellsFromSnapshots
  <2> QED
    BY <2>1, <2>2, <2>3, <2>4 DEF AofInv
<1>4. ASSUME NEW p \in Children, OpenFails(p) \/ DumpAllAOF(p) \/ Stop(p)
      PROVE  AofInv'
  <2> USE <1>0, <1>4 DEF OpenFails, DumpAllAOF, Stop, Return
  <2>1. TypeOK'
    BY DEF TypeOK, Procs
  <2>2. FromFork'
    BY SMTT(60) DEF FromFork, Present, TypeOK, Procs
  <2>a. UNCHANGED <<file, off, order, snap, old>>
    BY DEF TypeOK, Procs
  <2>3. Extent' /\ CellsFromSnapshots'
    BY ONLY <2>a, <1>0 DEF Extent, CellsFromSnapshots
  <2> QED
    BY <2>1, <2>2, <2>3 DEF AofInv
<1>5. ASSUME NEW p \in Children, NEW k \in Keys, WriteFails(p, k)
      PROVE  AofInv'
  <2> USE <1>0, <1>5 DEF WriteFails
  <2>1. TypeOK'
    BY DEF TypeOK, Procs
  <2>2. FromFork'
    BY DEF FromFork, Present, TypeOK, Procs
  <2>3. Extent' /\ CellsFromSnapshots'
    BY DEF Extent, CellsFromSnapshots
  <2> QED
    BY <2>1, <2>2, <2>3 DEF AofInv
<1>6. ASSUME NEW p \in Children, NEW k \in Keys, dumpKey(p, k)
      PROVE  AofInv'
  <2> DEFINE v == store[p][k]
             r == Record(k, v)
  <2> USE <1>0 DEF Procs
  <2>1. /\ file # Nil /\ file \in Seq(Cell) /\ k \in Present(store[p])
        /\ v \in Vals /\ snap[p][k] = v
        /\ off[p] \in Nat /\ off[p] <= Len(file)
    BY <1>6 DEF dumpKey, FromFork, TypeOK, Stores, Present, Extent
  <2>2. /\ file' = Overwrite(file, off[p], r)
        /\ off' = [off EXCEPT ![p] = @ + Len(r)]
        /\ todo' = [todo EXCEPT ![p] = @ \ {k}]
        /\ order' = [order EXCEPT ![p] = Append(@, k)]
        /\ clean' = clean \cap {p}
        /\ UNCHANGED <<store, phase, exits, locked, root, old, writes, snap, before>>
    BY <1>6 DEF dumpKey
  <2>3. /\ r \in Seq(Cell) /\ Len(r) \in Nat
        /\ \A i \in DOMAIN r : r[i].key = k /\ r[i].val = v
    BY <2>1, RecordCells
  <2> HIDE DEF r
  <2>4. /\ file' \in Seq(Cell)
        /\ Len(file') = IF Len(file) >= off[p] + Len(r) THEN Len(file) ELSE off[p] + Len(r)
        /\ \A i \in DOMAIN file' : \/ i \in DOMAIN file /\ file'[i] = file[i]
                                   \/ \E j \in DOMAIN r : file'[i] = r[j]
    <3>1. file' = Overwrite(file, off[p], r)
      BY <2>2
    <3>2. /\ file \in Seq(Cell) /\ r \in Seq(Cell)
          /\ off[p] \in Nat /\ off[p] <= Len(file)
      BY <2>1, <2>3
    <3>3. file' \in Seq(Cell)
      BY ONLY <3>1, <3>2, OverwriteCells
    <3>4. Len(file') = IF Len(file) >= off[p] + Len(r) THEN Len(file) ELSE off[p] + Len(r)
      BY ONLY <3>1, <3>2, OverwriteCells
    <3>5. \A i \in DOMAIN file' : \/ i \in DOMAIN file /\ file'[i] = file[i]
                                 \/ \E j \in DOMAIN r : file'[i] = r[j]
      BY ONLY <3>1, <3>2, OverwriteCells
    <3> QED
      BY ONLY <3>3, <3>4, <3>5
  <2>5. TypeOK'
    BY <2>2, <2>3, <2>4, SMTT(60) DEF TypeOK
  <2>6. FromFork'
    BY <2>1, <2>2, <2>4, <1>6, SMTT(60) DEF FromFork, Present, TypeOK
  <2>7. Extent'
    BY <2>1, <2>2, <2>3, <2>4, SMTT(60) DEF Extent, TypeOK
  <2>8. CellsFromSnapshots'
    <3> SUFFICES ASSUME NEW i \in DOMAIN file', ~(i \in DOMAIN old /\ file'[i] = old[i])
                 PROVE  \E q \in Children : snap[q][file'[i].key] = file'[i].val
      BY <2>2 DEF CellsFromSnapshots
    <3>1. CASE i \in DOMAIN file /\ file'[i] = file[i]
      BY <3>1, <2>1, <1>0 DEF CellsFromSnapshots
    <3>2. CASE \E j \in DOMAIN r : file'[i] = r[j]
      BY ONLY <3>2, <2>1, <2>3
    <3> QED
      BY <3>1, <3>2, <2>4
  <2> QED
    BY <2>5, <2>6, <2>7, <2>8 DEF AofInv
<1>7. CASE UNCHANGED vars
  BY <1>0, <1>7 DEF vars, AofInv, TypeOK, FromFork, Extent, CellsFromSnapshots, Present
<1> QED
  BY <1>1, <1>2, <1>3, <1>4, <1>5, <1>6, <1>7 DEF Next, Procs

\* They hold when the server starts ...
LEMMA AofInvInit == Init => AofInv
<1> SUFFICES ASSUME Init PROVE AofInv
  OBVIOUS
<1> USE DEF Init
<1>1. TypeOK
  BY DEF TypeOK, Stores, Procs, Found
<1>2. FromFork
  BY DEF FromFork
<1>3. Extent /\ CellsFromSnapshots
  BY DEF Extent, CellsFromSnapshots, Procs, Found
<1> QED
  BY <1>1, <1>2, <1>3 DEF AofInv

\* ... and so always.
LEMMA AofInvHolds == Spec => []AofInv
BY AofInvInit, AofInvStep, PTL DEF Spec

-----------------------------------------------------------------------------
(* What an undisturbed dump writes.                                        *)

\* An undisturbed dump has begun, in a file; one that has not begun has written
\* nothing.
Begun ==
  /\ \A p \in clean : phase[p] \in {"dump", "serve", "gone"}
  /\ clean # {} => file # Nil
  /\ \A p \in Procs : phase[p] \in {"none", "open"} => order[p] = <<>> /\ off[p] = 0

CleanInv == Begun /\ CleanDump

\* The records of the keys of s with the values a store v gives them.
Records(s, v) == [i \in DOMAIN s |-> Record(s[i], v[s[i]])]

\* Writing a key more adds its record to those written.
LEMMA RecordsAppend ==
  ASSUME NEW s \in Seq(Keys), NEW v \in Stores, NEW k \in Keys,
         k \in Present(v), ToSet(s) \subseteq Present(v)
  PROVE  /\ Records(s, v) \in Seq(Seq(Cell)) /\ Record(k, v[k]) \in Seq(Cell)
         /\ Records(Append(s, k), v) = Append(Records(s, v), Record(k, v[k]))
<1> DEFINE n == Len(s)
           t == Append(s, k)
           r == Record(k, v[k])
<1>1. /\ n \in Nat /\ DOMAIN s = 1 .. n /\ \A i \in 1 .. n : s[i] \in Keys /\ s[i] \in Present(v)
  BY LenProperties, ElementOfSeq DEF ToSet
<1>2. \A j \in Keys : j \in Present(v) => Record(j, v[j]) \in Seq(Cell)
  BY RecordCells DEF Present, Stores
<1>3. /\ DOMAIN t = 1 .. n + 1 /\ t[n + 1] = k /\ \A i \in 1 .. n : t[i] = s[i]
  BY AppendTypes, LenProperties
<1> HIDE DEF t
<1>4. Records(s, v) \in [1 .. n -> Seq(Cell)]
  BY <1>1, <1>2 DEF Records
<1>5. Records(s, v) \in Seq(Seq(Cell)) /\ Len(Records(s, v)) = n
  <2> DEFINE C == Seq(Cell)
  <2> HIDE DEF C
  <2>1. Records(s, v) \in [1 .. n -> C]
    BY <1>4 DEF C
  <2>2. Records(s, v) \in Seq(C) /\ Len(Records(s, v)) = n
    BY <1>1, <2>1, SeqDef
  <2> QED
    BY <2>2 DEF C
<1>6. r \in Seq(Cell)
  BY <1>2
<1>7. Records(t, v) \in [1 .. n + 1 -> Seq(Cell)]
  <2>1. \A i \in 1 .. n + 1 : t[i] \in Keys /\ t[i] \in Present(v)
    BY <1>1, <1>3
  <2> QED
    BY <2>1, <1>2, <1>3 DEF Records
<1>8. Records(t, v) \in Seq(Seq(Cell)) /\ Len(Records(t, v)) = n + 1
  <2> DEFINE C == Seq(Cell)
  <2> HIDE DEF C
  <2>1. Records(t, v) \in [1 .. n + 1 -> C] /\ n + 1 \in Nat
    BY <1>1, <1>7 DEF C
  <2>2. Records(t, v) \in Seq(C) /\ Len(Records(t, v)) = n + 1
    BY <2>1, SeqDef
  <2> QED
    BY <2>2 DEF C
<1> HIDE DEF r
<1>9. /\ Append(Records(s, v), r) \in Seq(Seq(Cell))
      /\ Len(Append(Records(s, v), r)) = n + 1
      /\ \A i \in 1 .. n : Append(Records(s, v), r)[i] = Records(s, v)[i]
      /\ Append(Records(s, v), r)[n + 1] = r
  BY <1>5, <1>6, AppendTypes
<1>10. ASSUME NEW i \in 1 .. n + 1 PROVE Records(t, v)[i] = Append(Records(s, v), r)[i]
  <2>1. Records(t, v)[i] = Record(t[i], v[t[i]])
    BY <1>3 DEF Records
  <2>2. CASE i = n + 1
    BY <2>1, <2>2, <1>3, <1>9 DEF r
  <2>3. CASE i # n + 1
    <3>1. i \in 1 .. n
      BY <2>3, <1>1
    <3>2. Records(s, v)[i] = Record(s[i], v[s[i]])
      BY <3>1, <1>1 DEF Records
    <3> QED
      BY <3>1, <3>2, <2>1, <1>3, <1>9
  <2> QED
    BY <2>2, <2>3
<1>11. Records(t, v) = Append(Records(s, v), r)
  <2> DEFINE a == Records(t, v)
             b == Append(Records(s, v), r)
             C == Seq(Cell)
  <2> HIDE DEF a, b, C
  <2>1. a \in Seq(C) /\ b \in Seq(C) /\ Len(a) = n + 1 /\ Len(b) = n + 1
        /\ \A i \in 1 .. n + 1 : a[i] = b[i]
    BY <1>8, <1>9, <1>10 DEF a, b, C
  <2>2. a = b
    BY <2>1, SeqEqual
  <2> QED
    BY <2>2 DEF a, b
<1> QED
  BY <1>5, <1>6, <1>11 DEF t, r

\* Overwriting from n on keeps the first n cells and puts the new ones after
\* them.
LEMMA OverwritePrefix ==
  ASSUME NEW f \in Seq(Cell), NEW s \in Seq(Cell), NEW n \in Nat, n <= Len(f),
         NEW h, h = Overwrite(f, n, s)
  PROVE  SubSeq(h, 1, n + Len(s)) = SubSeq(f, 1, n) \o s
<1> DEFINE m == IF Len(f) >= n + Len(s) THEN Len(f) ELSE n + Len(s)
           a == SubSeq(f, 1, n)
           l == SubSeq(h, 1, n + Len(s))
<1>1. /\ h = [i \in 1 .. m |-> IF i \in n + 1 .. n + Len(s) THEN s[i - n] ELSE f[i]]
      /\ m \in Nat /\ n + Len(s) <= m /\ Len(s) \in Nat /\ Len(f) \in Nat
  BY MaxOfTwo, SMTT(60) DEF Overwrite
<1>2. /\ \A i \in 1 .. n : f[i] \in Cell
      /\ \A i \in 1 .. Len(s) : s[i] \in Cell
  BY ElementOfSeq
<1>3. /\ a \in Seq(Cell) /\ Len(a) = n
      /\ \A i \in 1 .. n : a[i] = f[i]
  <2>1. 1 \in Int /\ n \in Int /\ (1 <= n => n - 1 + 1 = n) /\ n - 1 + 1 = n
    OBVIOUS
  <2>2. /\ a \in Seq(Cell) /\ Len(a) = (IF 1 <= n THEN n - 1 + 1 ELSE 0)
        /\ \A i \in 1 .. n - 1 + 1 : a[i] = f[1 + i - 1]
    BY <2>1, <1>2, SubSeqProperties
  <2> HIDE DEF a
  <2> QED
    BY <2>1, <2>2
<1> HIDE DEF m, a
<1>4. \A i \in 1 .. n + Len(s) : h[i] = IF i <= n THEN f[i] ELSE s[i - n]
  BY <1>1
<1>5. \A i \in 1 .. n + Len(s) : h[i] \in Cell
  <2> SUFFICES ASSUME NEW i \in 1 .. n + Len(s) PROVE h[i] \in Cell
    OBVIOUS
  <2>1. CASE i <= n
    BY <2>1, <1>2, <1>4
  <2>2. CASE i > n
    <3>1. i - n \in 1 .. Len(s) /\ ~ (i <= n)
      BY <2>2, <1>1
    <3> QED
      BY <3>1, <1>2, <1>4
  <2> QED
    BY <2>1, <2>2
<1> DEFINE k == n + Len(s)
<1>6. /\ l \in Seq(Cell) /\ Len(l) = k
      /\ \A i \in 1 .. k : l[i] = h[i]
  <2>1. 1 \in Int /\ k \in Int /\ k - 1 + 1 = k /\ k \in Nat
    BY <1>1
  <2>2. \A i \in 1 .. k : h[i] \in Cell
    BY <1>5
  <2>3. l = SubSeq(h, 1, k)
    OBVIOUS
  <2> HIDE DEF k, l
  <2>4. /\ l \in Seq(Cell) /\ Len(l) = (IF 1 <= k THEN k - 1 + 1 ELSE 0)
        /\ \A i \in 1 .. k - 1 + 1 : l[i] = h[1 + i - 1]
    BY <2>1, <2>2, <2>3, SubSeqProperties
  <2> QED
    BY <2>1, <2>4
<1> HIDE DEF l
<1>7. /\ a \o s \in Seq(Cell) /\ Len(a \o s) = k
      /\ \A i \in 1 .. k : (a \o s)[i] = IF i <= n THEN a[i] ELSE s[i - n]
  BY <1>3, ConcatProperties, ZenonT(60)
<1>8. ASSUME NEW i \in 1 .. k PROVE l[i] = (a \o s)[i]
  <2>1. l[i] = IF i <= n THEN f[i] ELSE s[i - n]
    BY <1>4, <1>6
  <2>2. (a \o s)[i] = IF i <= n THEN a[i] ELSE s[i - n]
    BY <1>7
  <2>3. i <= n => a[i] = f[i]
    BY <1>1, <1>3
  <2> QED
    BY <2>1, <2>2, <2>3
<1>9. l = a \o s
  <2> DEFINE b == a \o s
  <2> HIDE DEF b
  <2>1. b \in Seq(Cell) /\ l \in Seq(Cell) /\ Len(b) = k /\ Len(l) = k /\ \A i \in 1 .. k : l[i] = b[i]
    BY <1>6, <1>7, <1>8 DEF b
  <2>2. l = b
    BY <2>1, SeqEqual
  <2> QED
    BY <2>2 DEF b
<1> QED
  BY <1>9 DEF l, a

\* The elements of a sequence and one more.
LEMMA ToSetAppend ==
  ASSUME NEW S, NEW s \in Seq(S), NEW x \in S
  PROVE  /\ ToSet(Append(s, x)) = ToSet(s) \cup {x}
         /\ IsFiniteSet(ToSet(s))
<1> DEFINE n == Len(s)
           t == Append(s, x)
<1>1. n \in Nat /\ DOMAIN s = 1 .. n
  BY LenProperties
<1>2. /\ DOMAIN t = 1 .. n + 1 /\ t[n + 1] = x /\ \A i \in 1 .. n : t[i] = s[i]
  BY AppendTypes, LenProperties
<1> HIDE DEF t
<1>3. ToSet(t) = ToSet(s) \cup {x}
  <2>1. ASSUME NEW y \in ToSet(t) PROVE y \in ToSet(s) \cup {x}
    <3>1. PICK i \in 1 .. n + 1 : y = t[i]
      BY <1>2 DEF ToSet
    <3>2. i = n + 1 \/ i \in 1 .. n
      BY <1>1
    <3> QED
      BY <3>1, <3>2, <1>1, <1>2 DEF ToSet
  <2>2. ASSUME NEW y \in ToSet(s) PROVE y \in ToSet(t)
    <3>1. PICK i \in 1 .. n : y = s[i]
      BY <1>1 DEF ToSet
    <3>2. i \in 1 .. n + 1 /\ t[i] = y
      BY <3>1, <1>1, <1>2
    <3> QED
      BY <3>2, <1>2 DEF ToSet
  <2>3. x \in ToSet(t)
    <3>1. n + 1 \in 1 .. n + 1
      BY <1>1
    <3> QED
      BY <3>1, <1>2 DEF ToSet
  <2> QED
    BY <2>1, <2>2, <2>3
<1>4. IsFiniteSet(ToSet(s))
  <2>1. s \in Surjection(1 .. n, ToSet(s))
    BY <1>1, LenProperties DEF Surjection, ToSet
  <2>2. IsFiniteSet(1 .. n)
    BY <1>1, FS_Interval
  <2> QED
    BY <2>1, <2>2, FS_Surjection
<1> QED
  BY <1>3, <1>4 DEF t

\* Undisturbed dumps stay what they are when nothing of theirs changes.
LEMMA CleanKept ==
  ASSUME CleanDump, clean' \subseteq clean,
         \A p \in clean' : /\ off'[p] = off[p] /\ order'[p] = order[p]
                           /\ snap'[p] = snap[p] /\ todo'[p] = todo[p],
         file' = file
  PROVE  CleanDump'
<1> SUFFICES ASSUME NEW p \in clean'
             PROVE  /\ SubSeq(file', 1, off'[p]) = Image(p)'
                    /\ ToSet(order'[p]) = Present(snap'[p]) \ todo'[p]
                    /\ Len(order'[p]) = Cardinality(ToSet(order'[p]))
  BY DEF CleanDump
<1>1. /\ off'[p] = off[p] /\ order'[p] = order[p] /\ snap'[p] = snap[p] /\ todo'[p] = todo[p]
      /\ file' = file /\ p \in clean
  OBVIOUS
<1>2. Image(p)' = Image(p)
  BY <1>1 DEF Image
<1> QED
  BY ONLY <1>1, <1>2, CleanDump DEF CleanDump

\* A key written by an undisturbed dump.
LEMMA CleanWrite ==
  ASSUME AofInv, CleanInv, NEW p \in clean, NEW k \in Keys, dumpKey(p, k)
  PROVE  /\ SubSeq(file', 1, off'[p]) = Image(p)'
         /\ ToSet(order'[p]) = Present(snap'[p]) \ todo'[p]
         /\ Len(order'[p]) = Cardinality(ToSet(order'[p]))
<1>0. TypeOK /\ FromFork /\ Extent /\ p \in Procs
  BY DEF AofInv, TypeOK, Procs
<1> DEFINE s == order[p]
           v == snap[p]
           r == Record(k, v[k])
<1>1. /\ s \in Seq(Keys) /\ v \in Stores /\ k \in Present(v) /\ k \in todo[p]
      /\ store[p] = v /\ todo[p] \subseteq Present(v)
      /\ file \in Seq(Cell) /\ off[p] \in Nat /\ off[p] <= Len(file)
  BY <1>0 DEF dumpKey, TypeOK, FromFork, Extent
<1>2. /\ file' = Overwrite(file, off[p], r) /\ off'[p] = off[p] + Len(r)
      /\ todo'[p] = todo[p] \ {k} /\ order'[p] = Append(s, k) /\ snap' = snap
  BY <1>0, <1>1 DEF dumpKey, TypeOK
<1>3. /\ SubSeq(file, 1, off[p]) = Image(p)
      /\ ToSet(s) = Present(v) \ todo[p]
      /\ Len(s) = Cardinality(ToSet(s))
  BY DEF CleanInv, CleanDump
<1> HIDE DEF s, v, r
<1>4. /\ Records(s, v) \in Seq(Seq(Cell)) /\ r \in Seq(Cell)
      /\ Records(Append(s, k), v) = Append(Records(s, v), r)
  BY <1>1, <1>3, RecordsAppend DEF r
<1>5. /\ Image(p) = FlattenSeq(Records(s, v))
      /\ Image(p)' = FlattenSeq(Records(Append(s, k), v))
  BY <1>2 DEF Image, Records, s, v
<1>6. Image(p)' = Image(p) \o r
  <2> DEFINE a == Records(s, v)
  <2> HIDE DEF a
  <2>1. a \in Seq(Seq(Cell)) /\ r \in Seq(Cell)
    BY <1>4 DEF a
  <2>2. FlattenSeq(Append(a, r)) = FlattenSeq(a) \o r
    BY ONLY <2>1, FlattenAppend
  <2> QED
    BY <2>2, <1>4, <1>5 DEF a
<1>7. SubSeq(file', 1, off[p] + Len(r)) = SubSeq(file, 1, off[p]) \o r
  BY <1>1, <1>2, <1>4, OverwritePrefix, ZenonT(60)
<1>8. ToSet(Append(s, k)) = ToSet(s) \cup {k} /\ IsFiniteSet(ToSet(s))
  BY <1>1, ToSetAppend
<1>9. k \notin ToSet(s)
  BY <1>1, <1>3
<1>10. Cardinality(ToSet(s) \cup {k}) = Cardinality(ToSet(s)) + 1
  BY <1>8, <1>9, FS_AddElement
<1>11. Len(Append(s, k)) = Len(s) + 1
  BY <1>1, AppendTypes
<1>12. SubSeq(file', 1, off'[p]) = Image(p)'
  BY <1>2, <1>3, <1>6, <1>7
<1>13. ToSet(order'[p]) = Present(snap'[p]) \ todo'[p]
  BY <1>1, <1>2, <1>3, <1>8 DEF v
<1>14. Len(order'[p]) = Cardinality(ToSet(order'[p]))
  BY <1>2, <1>3, <1>8, <1>10, <1>11
<1> QED
  BY <1>12, <1>13, <1>14

\* Undisturbed dumps stay as they should be.
LEMMA CleanInvHolds == Spec => []CleanInv
<1>1. Init => CleanInv
  BY DEF Init, CleanInv, Begun, CleanDump
<1>2. AofInv /\ CleanInv /\ [Next]_vars => CleanInv'
  <2> SUFFICES ASSUME AofInv, CleanInv, [Next]_vars PROVE CleanInv'
    OBVIOUS
  <2>0. /\ TypeOK /\ FromFork /\ Begun /\ CleanDump
        /\ clean \subseteq Children /\ clean \subseteq Procs
    BY DEF AofInv, CleanInv, TypeOK, Procs
  <2> USE DEF fixed, dumping
  <2>1. ASSUME NEW p \in Procs, NEW k \in Keys, NEW v \in Vals \cup {Nil}, Serve(p, k, v)
        PROVE  CleanInv'
    <3>1. UNCHANGED <<phase, file, order, off, clean, snap, todo>>
      BY <2>1 DEF Serve
    <3>2. Begun'
      BY <3>1, <2>0 DEF Begun
    <3> QED
      BY <3>1, <3>2, <2>0, CleanKept DEF CleanInv
  <2>2. ASSUME NEW p \in Procs, NEW c \in Children,
               evalBGREWRITEAOF(p, c) \/ (p = Main /\ Shutdown(c))
        PROVE  CleanInv'
    <3>1. /\ phase[c] = "none" /\ c \in Procs /\ c # Main
          /\ snap' = [snap EXCEPT ![c] = store[p]]
          /\ UNCHANGED <<file, order, off, clean, todo>>
          /\ phase'[c] = "open"
          /\ \A q \in Procs \ {c} : phase'[q] = phase[q] \/ phase'[q] = "gone"
      BY <2>0, <2>2 DEF evalBGREWRITEAOF, Shutdown, Fork, TypeOK, Procs
    <3>2. c \notin clean
      BY <3>1, <2>0 DEF Begun
    <3>3. \A q \in clean : snap'[q] = snap[q]
      BY <3>1, <3>2, <2>0 DEF TypeOK
    <3>4. Begun'
      BY <3>1, <3>2, <2>0 DEF Begun
    <3> QED
      BY <3>1, <3>3, <3>4, <2>0, CleanKept DEF CleanInv
  <2>3. ASSUME NEW p \in Children, OpenFile(p)
        PROVE  CleanInv'
    <3>1. /\ phase[p] = "open" /\ p \in Procs
          /\ phase' = [phase EXCEPT ![p] = "dump"]
          /\ file' = IF file = Nil THEN <<>> ELSE file
          /\ todo' = [todo EXCEPT ![p] = Present(store[p])]
          /\ clean' = clean \cup {p}
          /\ UNCHANGED <<off, snap, order>>
      BY <2>3 DEF OpenFile, Procs, Found
    <3>2. /\ phase'[p] = "dump" /\ todo'[p] = Present(store[p])
          /\ \A q \in Procs \ {p} : phase'[q] = phase[q] /\ todo'[q] = todo[q]
      BY <3>1, <2>0 DEF TypeOK
    <3>3. file' # Nil /\ (clean # {} => file' = file)
      BY <3>1, <2>0, FileAssumption, EmptySeq DEF Begun
    <3>4. Begun'
      BY <3>1, <3>2, <3>3, <2>0 DEF Begun
    <3>5. ASSUME NEW q \in clean', q # p
          PROVE  /\ SubSeq(file', 1, off'[q]) = Image(q)'
                 /\ ToSet(order'[q]) = Present(snap'[q]) \ todo'[q]
                 /\ Len(order'[q]) = Cardinality(ToSet(order'[q]))
      <4>1. q \in clean /\ q \in Procs /\ file' = file
        BY <3>1, <3>3, <3>5, <2>0
      <4>2. Image(q)' = Image(q)
        BY <3>1 DEF Image
      <4> QED
        BY <4>1, <4>2, <3>1, <3>2, <3>5, <2>0 DEF CleanDump
    <3>6. /\ SubSeq(file', 1, off'[p]) = Image(p)'
          /\ ToSet(order'[p]) = Present(snap'[p]) \ todo'[p]
          /\ Len(order'[p]) = Cardinality(ToSet(order'[p]))
      <4>1. order'[p] = <<>> /\ off'[p] = 0 /\ store[p] = snap[p] /\ snap'[p] = snap[p]
        BY <3>1, <2>0 DEF Begun, FromFork
      <4>2. Image(p)' = <<>>
        <5>1. [i \in DOMAIN order'[p] |-> Record(order'[p][i], snap'[p][order'[p][i]])] = <<>>
          BY <4>1
        <5> QED
          BY <5>1, Zenon DEF Image, FlattenSeq
      <4>3. SubSeq(file', 1, 0) = <<>>
        BY SubSeqEmpty
      <4>4. ToSet(<<>>) = {} /\ Len(<<>>) = 0 /\ Cardinality({}) = 0
        BY FS_EmptySet DEF ToSet
      <4> QED
        BY <4>1, <4>2, <4>3, <4>4, <3>2, Zenon
    <3> QED
      BY <3>4, <3>5, <3>6 DEF CleanInv, CleanDump
  <2>4. ASSUME NEW p \in Children, OpenFails(p) \/ DumpAllAOF(p) \/ Stop(p)
        PROVE  CleanInv'
    <3>1. /\ UNCHANGED <<file, order, off, snap, todo>> /\ clean' \subseteq clean
          /\ phase'[p] \in {"serve", "gone"} /\ phase[p] \in {"open", "dump"}
          /\ p \in Procs /\ \A q \in Procs \ {p} : phase'[q] = phase[q]
      BY <2>0, <2>4 DEF OpenFails, DumpAllAOF, Stop, Return, TypeOK, Procs
    <3>2. Begun'
      BY <3>1, <2>0 DEF Begun
    <3> QED
      BY <3>1, <3>2, <2>0, CleanKept DEF CleanInv
  <2>5. ASSUME NEW p \in Children, NEW k \in Keys, WriteFails(p, k)
        PROVE  CleanInv'
    <3>1. /\ UNCHANGED <<file, order, off, snap, phase>> /\ clean' = clean \ {p}
          /\ p \in Procs /\ \A q \in Procs \ {p} : todo'[q] = todo[q]
      BY <2>0, <2>5 DEF WriteFails, TypeOK, Procs
    <3>2. Begun'
      BY <3>1, <2>0 DEF Begun
    <3>3. \A q \in clean' : todo'[q] = todo[q]
      BY <3>1, <2>0
    <3> QED
      BY <3>1, <3>2, <3>3, <2>0, CleanKept DEF CleanInv
  <2>6. ASSUME NEW p \in Children, NEW k \in Keys, dumpKey(p, k)
        PROVE  CleanInv'
    <3>1. /\ UNCHANGED <<snap, phase>> /\ clean' = clean \cap {p} /\ phase[p] = "dump" /\ p \in Procs
          /\ \A q \in Procs \ {p} : off'[q] = off[q] /\ order'[q] = order[q]
      BY <2>0, <2>6 DEF dumpKey, TypeOK, Procs
    <3>2. file # Nil /\ file' # Nil
      <4>1. AofInv'
        BY AofInvStep
      <4>2. file # Nil
        BY <3>1, <2>0 DEF FromFork
      <4>3. phase'[p] = "dump" /\ FromFork'
        BY <4>1, <3>1 DEF AofInv
      <4> QED
        BY <4>2, <4>3, <3>1 DEF FromFork
    <3>3. Begun'
      BY <3>1, <3>2, <2>0 DEF Begun
    <3>4. CleanDump'
      <4> SUFFICES ASSUME NEW q \in clean'
                   PROVE  /\ SubSeq(file', 1, off'[q]) = Image(q)'
                          /\ ToSet(order'[q]) = Present(snap'[q]) \ todo'[q]
                          /\ Len(order'[q]) = Cardinality(ToSet(order'[q]))
        BY DEF CleanDump
      <4>1. q = p /\ p \in clean
        BY <3>1
      <4> QED
        BY <4>1, <2>6, CleanWrite
    <3> QED
      BY <3>3, <3>4 DEF CleanInv
  <2>7. CASE UNCHANGED vars
    <3>1. UNCHANGED <<phase, file, order, off, clean, snap, todo>>
      BY <2>7 DEF vars
    <3>2. Begun'
      BY <3>1, <2>0 DEF Begun
    <3> QED
      BY <3>1, <3>2, <2>0, CleanKept DEF CleanInv
  <2> QED
    BY <2>1, <2>2, <2>3, <2>4, <2>5, <2>6, <2>7 DEF Next, Procs
<1> QED
  BY <1>1, <1>2, AofInvHolds, PTL DEF Spec
-----------------------------------------------------------------------------
(* What an undisturbed dump leaves of the older file.                      *)

\* From n on two files are alike.
SameAfter(f, b, n) ==
  /\ Len(f) > n \/ Len(b) > n => Len(f) = Len(b)
  /\ \A i \in n + 1 .. Len(f) : f[i] = b[i]

TailInv == \A p \in clean : SameAfter(file, before[p], off[p])

\* Files alike from n on have the same tail.
LEMMA SameTail ==
  ASSUME NEW f \in Seq(Cell), NEW b \in Seq(Cell), NEW n \in Nat, SameAfter(f, b, n)
  PROVE  After(f, n) = After(b, n)
<1>1. Len(f) \in Nat /\ Len(b) \in Nat
  BY LenProperties
<1>2. CASE Len(f) > n \/ Len(b) > n
  <2> DEFINE l == Len(f)
             g == SubSeq(f, n + 1, l)
             h == SubSeq(b, n + 1, l)
  <2>1. l \in Nat /\ l > n /\ Len(b) = l /\ n + 1 \in 1 .. l /\ n + 1 \in Int /\ l \in Int
    BY <1>1, <1>2 DEF SameAfter
  <2>2. /\ \A i \in n + 1 .. l : f[i] \in Cell
        /\ \A i \in n + 1 .. l : b[i] \in Cell
        /\ \A i \in n + 1 .. l : f[i] = b[i]
    <3>1. \A i \in n + 1 .. l : i \in 1 .. Len(f) /\ i \in 1 .. Len(b)
      BY <2>1
    <3> QED
      BY <3>1, ElementOfSeq DEF SameAfter
  <2> HIDE DEF l
  <2>3. \A i \in 1 .. l - (n + 1) + 1 : (n + 1) + i - 1 \in n + 1 .. l
    BY <2>1
  <2>4. /\ g \in Seq(Cell) /\ Len(g) = l - (n + 1) + 1
        /\ \A i \in 1 .. l - (n + 1) + 1 : g[i] = f[(n + 1) + i - 1]
    BY <2>1, <2>2, SubSeqProperties
  <2>5. /\ h \in Seq(Cell) /\ Len(h) = l - (n + 1) + 1
        /\ \A i \in 1 .. l - (n + 1) + 1 : h[i] = b[(n + 1) + i - 1]
    BY <2>1, <2>2, SubSeqProperties
  <2> HIDE DEF g, h
  <2>6. \A i \in 1 .. Len(g) : g[i] = h[i]
    BY <2>2, <2>3, <2>4, <2>5
  <2>7. g = h
    BY <2>4, <2>5, <2>6, SeqEqual
  <2> QED
    BY <2>1, <2>7 DEF After, g, h, l
<1>3. CASE Len(f) <= n /\ Len(b) <= n
  <2>1. n + 1 > Len(f) /\ n + 1 > Len(b) /\ n + 1 \in Int
    BY <1>1, <1>3
  <2> QED
    BY <1>1, <2>1, SubSeqEmpty DEF After
<1> QED
  BY <1>1, <1>2, <1>3

\* A write leaves the cells beyond it as they are.
LEMMA OverwriteBeyond ==
  ASSUME NEW f \in Seq(Cell), NEW s \in Seq(Cell), NEW n \in Nat, n <= Len(f),
         NEW b \in Seq(Cell), SameAfter(f, b, n), NEW h, h = Overwrite(f, n, s)
  PROVE  SameAfter(h, b, n + Len(s))
<1> DEFINE m == IF Len(f) >= n + Len(s) THEN Len(f) ELSE n + Len(s)
<1>1. /\ h = [i \in 1 .. m |-> IF i \in n + 1 .. n + Len(s) THEN s[i - n] ELSE f[i]]
      /\ m \in Nat /\ Len(s) \in Nat /\ Len(f) \in Nat /\ Len(b) \in Nat
  BY MaxOfTwo, SMTT(60) DEF Overwrite
<1>2. Len(h) = m
  BY OverwriteCells
<1>3. \A i \in n + Len(s) + 1 .. Len(h) : i <= Len(f) /\ i \in n + 1 .. Len(f) /\ h[i] = f[i]
  BY <1>1, <1>2
<1>4. \A i \in n + Len(s) + 1 .. Len(h) : h[i] = b[i]
  BY <1>3 DEF SameAfter
<1>5. Len(h) > n + Len(s) \/ Len(b) > n + Len(s) => Len(h) = Len(b)
  BY <1>1, <1>2 DEF SameAfter
<1> QED
  BY <1>4, <1>5 DEF SameAfter

\* The tail stays as long as no other process writes.
LEMMA TailInvHolds == Spec => []TailInv
<1>1. Init => TailInv
  BY DEF Init, TailInv
<1>2. AofInv /\ CleanInv /\ TailInv /\ [Next]_vars => TailInv'
  <2> SUFFICES ASSUME AofInv, CleanInv, TailInv, [Next]_vars PROVE TailInv'
    OBVIOUS
  <2>0. /\ TypeOK /\ Begun /\ Extent /\ FromFork
        /\ clean \subseteq Children /\ clean \subseteq Procs
    BY DEF AofInv, CleanInv, TypeOK, Procs
  <2> USE DEF fixed, dumping
  <2>1. CASE UNCHANGED <<file, before, off>> /\ clean' \subseteq clean
    BY <2>1 DEF TailInv, SameAfter
  <2>2. ASSUME NEW p \in Children, OpenFile(p)
        PROVE  TailInv'
    <3>1. /\ phase[p] = "open" /\ p \in Procs
          /\ file' = IF file = Nil THEN <<>> ELSE file
          /\ before' = [before EXCEPT ![p] = IF file = Nil THEN <<>> ELSE file]
          /\ clean' = clean \cup {p} /\ off' = off
      BY <2>2 DEF OpenFile, Found, Procs
    <3>2. before'[p] = file' /\ \A q \in Procs \ {p} : before'[q] = before[q]
      BY <3>1, <2>0 DEF TypeOK
    <3>3. clean # {} => file' = file
      BY <3>1, <2>0 DEF Begun
    <3> QED
      BY <3>1, <3>2, <3>3, <2>0 DEF TailInv, SameAfter
  <2>3. ASSUME NEW p \in Children, NEW k \in Keys, dumpKey(p, k)
        PROVE  TailInv'
    <3> DEFINE r == Record(k, store[p][k])
    <3> SUFFICES ASSUME p \in clean PROVE SameAfter(file', before'[p], off'[p])
      BY <2>3 DEF dumpKey, TailInv
    <3>1. /\ file' = Overwrite(file, off[p], r) /\ off'[p] = off[p] + Len(r)
          /\ before' = before /\ k \in todo[p] /\ phase[p] = "dump"
      BY <2>0, <2>3 DEF dumpKey, TypeOK
    <3>2. /\ file \in Seq(Cell) /\ off[p] \in Nat /\ off[p] <= Len(file)
          /\ before[p] \in Seq(Cell) /\ store[p][k] \in Vals
      BY <2>0, <3>1 DEF TypeOK, Extent, FromFork, Present, Stores
    <3>3. r \in Seq(Cell)
      BY <3>2, RecordCells
    <3>4. SameAfter(file, before[p], off[p])
      BY DEF TailInv
    <3> HIDE DEF r
    <3>5. SameAfter(file', before[p], off[p] + Len(r))
      BY ONLY <3>1, <3>2, <3>3, <3>4, OverwriteBeyond
    <3> QED
      BY <3>1, <3>5
  <2>4. ASSUME NEW p \in Procs, NEW k \in Keys, NEW v \in Vals \cup {Nil}, Serve(p, k, v)
        PROVE  TailInv'
    BY <2>1, <2>4 DEF Serve
  <2>5. ASSUME NEW p \in Procs, NEW c \in Children,
               evalBGREWRITEAOF(p, c) \/ (p = Main /\ Shutdown(c))
        PROVE  TailInv'
    BY <2>1, <2>5 DEF evalBGREWRITEAOF, Shutdown
  <2>6. ASSUME NEW p \in Children, OpenFails(p) \/ DumpAllAOF(p) \/ Stop(p)
        PROVE  TailInv'
    BY <2>1, <2>6 DEF OpenFails, DumpAllAOF, Stop
  <2>7. ASSUME NEW p \in Children, NEW k \in Keys, WriteFails(p, k)
        PROVE  TailInv'
    BY <2>1, <2>7 DEF WriteFails
  <2>8. CASE UNCHANGED vars
    BY <2>1, <2>8 DEF vars
  <2> QED
    BY <2>2, <2>3, <2>4, <2>5, <2>6, <2>7, <2>8 DEF Next, Procs
<1> QED
  BY <1>1, <1>2, AofInvHolds, CleanInvHolds, PTL DEF Spec
-----------------------------------------------------------------------------
\* The types of the processes' variables and of the file.
THEOREM AofTypeOK == Spec => []TypeOK
BY AofInvHolds, PTL DEF AofInv

\* However dumps overlap, fail or stop, every cell of the file holds a key and
\* a value that a store held at a fork, or is one the server found there.
THEOREM FileHoldsSnapshots == Spec => []CellsFromSnapshots
BY AofInvHolds, PTL DEF AofInv

\* The file is as long as the longest dump so far, or as the server found it.
THEOREM FileDoesNotGrow == Spec => []NoGrowth
<1>1. AofInv => NoGrowth
  <2> DEFINE S == {Len(old)} \cup {off[p] : p \in Procs}
  <2> SUFFICES ASSUME AofInv, file # Nil PROVE Len(file) = Max(S)
    BY DEF NoGrowth
  <2>1. Len(old) \in Nat /\ \A p \in Procs : off[p] \in Nat
    BY DEF AofInv, TypeOK
  <2>2. Len(file) \in S /\ \A x \in S : x <= Len(file)
    BY DEF AofInv, Extent
  <2>3. S \in SUBSET Int
    BY <2>1
  <2> HIDE DEF S
  <2>4. Max(S) = Len(file)
    BY <2>2, <2>3, MaxIs DEF S
  <2> QED
    BY <2>4 DEF S
<1> QED
  BY <1>1, AofInvHolds, PTL

\* Unless another dump or a failing write interferes, a dump is an exact image
\* of the store at its fork, each key once, at the start of the file.
THEOREM UndisturbedDumpIsExact == Spec => []CleanDump
BY CleanInvHolds, PTL DEF CleanInv

\* Behind an undisturbed dump the file is, cell by cell, the one the child
\* opened.
THEOREM OlderFileBehindDump == Spec => []OlderTail
<1>1. AofInv /\ CleanInv /\ TailInv => OlderTail
  <2> SUFFICES ASSUME AofInv, CleanInv, TailInv, NEW p \in clean
               PROVE  After(file, off[p]) = After(before[p], off[p])
    BY DEF OlderTail
  <2>1. /\ TypeOK /\ p \in Children /\ p \in Procs
        /\ off[p] \in Nat /\ before[p] \in Seq(Cell) /\ file \in Seq(Cell) \cup {Nil}
    BY DEF AofInv, TypeOK, Procs
  <2>2. SameAfter(file, before[p], off[p])
    BY DEF TailInv
  <2>3. file # Nil
    BY DEF CleanInv, Begun
  <2> QED
    BY <2>1, <2>2, <2>3, SameTail
<1> QED
  BY <1>1, AofInvHolds, CleanInvHolds, TailInvHolds, PTL
=============================================================================
