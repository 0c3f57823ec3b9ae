--------------------------- MODULE KeyspaceProofs ---------------------------
(***************************************************************************)
(* Theorems about Keyspace, for any finite set of keys, any objects and    *)
(* any configuration: the types of its variables, how full the keyspace    *)
(* gets, what an eviction frees, what the eviction pool holds, and what    *)
(* happens to the keys.                                                    *)
(***************************************************************************)
EXTENDS KeyspaceProps, FiniteSetTheorems, TLAPS

USE PoolAssumption, KeyspaceAssumption, NilAssumption

\* The LRU clock stays within its 24 bits.
LEMMA ClockType == ASSUME NEW ms \in Nat PROVE getCurrentClock(ms) \in Ticks
<1> DEFINE s == ms \div MsPerSec
<1>1. s \in Int
  OBVIOUS
<1>2. s % ClockMod \in 0 .. ClockMod - 1
  BY <1>1
<1> QED
  BY <1>2 DEF getCurrentClock, Ticks

\* A deadline stays within its 64 bits.
LEMMA ExpiryType == ASSUME NEW t \in Nat, NEW d \in Secs PROVE Expiry(t, d) \in Deadline
<1> DEFINE x == t + d * MsPerSec
<1>1. d \in Int /\ MsPerSec \in Int
  OBVIOUS
<1>2. x \in Int
  BY <1>1
<1>3. x % U64 \in 0 .. U64 - 1
  BY <1>2
<1> QED
  BY <1>3 DEF Expiry, Deadline

\* INCR wraps within the integers.
LEMMA IncrementType == ASSUME NEW i \in Ints PROVE Increment(i) \in Ints
BY DEF Increment, Ints

\* Every set of keys is finite.
LEMMA KeysFinite ==
  ASSUME NEW S \in SUBSET Keys
  PROVE  IsFiniteSet(S) /\ Cardinality(S) \in Nat
BY FS_Subset, FS_CardinalityType

\* Sorting permutes the items of a sequence.
LEMMA SortedPermutes ==
  ASSUME NEW S, NEW s \in Seq(S), NEW c, NEW t \in Sorted(c, s)
  PROVE  /\ t \in Seq(S) /\ Len(t) = Len(s)
         /\ \A i \in DOMAIN t : \E j \in DOMAIN s : t[i] = s[j]
         /\ \A j \in DOMAIN s : \E i \in DOMAIN t : t[i] = s[j]
<1> DEFINE D == 1 .. Len(s)
<1>1. DOMAIN s = D /\ \A i \in D : s[i] \in S
  OBVIOUS
<1>2. PICK p \in Bijection(DOMAIN s, DOMAIN s) : t = [i \in DOMAIN s |-> s[p[i]]]
  BY DEF Sorted
<1>3. p \in [D -> D] /\ \A j \in D : \E i \in D : p[i] = j
  BY <1>1, <1>2 DEF Bijection, Surjection, Injection
<1>4. t = [i \in D |-> s[p[i]]] /\ \A i \in D : t[i] = s[p[i]] /\ t[i] \in S
  BY <1>1, <1>2, <1>3
<1>5. t \in Seq(S) /\ Len(t) = Len(s) /\ DOMAIN t = D
  BY <1>4
<1> QED
  BY <1>1, <1>3, <1>4, <1>5

\* Del keeps the types of what it changes.
LEMMA DelType ==
  ASSUME TypeOK, NEW D \in SUBSET Keys, Del(D)
  PROVE  /\ store' \in [Keys -> Obj \cup {Nil}]
         /\ expires' \in [Objs -> Deadline \cup {Nil}]
         /\ stat' \in Int
<1>1. D \cap Present \in SUBSET Keys
  OBVIOUS
<1>2. Cardinality(D \cap Present) \in Int
  BY <1>1, KeysFinite
<1>3. stat' \in Int
  BY <1>2 DEF TypeOK, Del
<1>4. store' \in [Keys -> Obj \cup {Nil}]
  BY DEF TypeOK, Del
<1>5. expires' \in [Objs -> Deadline \cup {Nil}]
  BY DEF TypeOK, Del
<1> QED
  BY <1>3, <1>4, <1>5

\* Push and Pop keep the types of the pool.
LEMMA PushType ==
  ASSUME TypeOK, NEW c, NEW k \in Keys, NEW at \in Ticks, Push(c, k, at)
  PROVE  pool' \in Seq(PoolItem) /\ keyset' \in SUBSET Keys
<1> DEFINE item == [key |-> k, at |-> at]
<1>1. item \in PoolItem /\ Append(pool, item) \in Seq(PoolItem)
  BY DEF PoolItem, TypeOK
<1>2. CASE pool' \in Sorted(c, Append(pool, item)) /\ keyset' = keyset \cup {k}
  BY <1>1, <1>2, SortedPermutes DEF TypeOK
<1>3. CASE Len(pool) >= PoolSizeMax /\ pool' = Append(Tail(pool), item) /\ keyset' = keyset \cup {k}
  <2>1. pool # <<>>
    BY <1>3 DEF TypeOK
  <2> QED
    BY <1>1, <1>3, <2>1 DEF TypeOK
<1>4. CASE UNCHANGED <<pool, keyset>>
  BY <1>4 DEF TypeOK
<1> QED
  BY <1>2, <1>3, <1>4 DEF Push

\* Pop leaves the rest of a pool that is not empty.
LEMMA PopType ==
  ASSUME TypeOK, pool # <<>>, Pop
  PROVE  pool' \in Seq(PoolItem) /\ keyset' \in SUBSET Keys /\ Head(pool).key \in Keys
<1>1. Head(pool) \in PoolItem /\ Tail(pool) \in Seq(PoolItem)
  BY DEF TypeOK
<1> QED
  BY <1>1 DEF TypeOK, Pop, PoolItem

\* A found key has an object; stamping it keeps the type.
LEMMA TouchType ==
  ASSUME TypeOK, NEW k \in Keys, Found(k)
  PROVE  /\ store[k] \in Obj
         /\ Touch(k) => store' \in [Keys -> Obj \cup {Nil}]
<1>1. store[k] \in Obj
  BY DEF TypeOK, Found, Present
<1>2. getCurrentClock(now) \in Ticks
  BY ClockType DEF TypeOK
<1>3. ASSUME Touch(k) PROVE store' \in [Keys -> Obj \cup {Nil}]
  BY <1>1, <1>2, <1>3 DEF TypeOK, Touch, Obj
<1> QED
  BY <1>1, <1>3

\* A reply is well typed whatever it answers.
LEMMA ReplyType ==
  ASSUME NEW cmd \in Commands, NEW D \in SUBSET Keys, NEW r, Reply(cmd, D, r)
  PROVE  last' # Nil => last'.cmd \in Commands /\ last'.keys \in SUBSET Keys
BY DEF Reply
-----------------------------------------------------------------------------
\* The keys populateEvictionPool has left are stored: nothing is deleted while
\* it runs, so each has a time of last access.
TodoPresent == pc = "populate" => todo \subseteq Present

TypeInv == TypeOK /\ TodoPresent

\* Every step preserves the types.
LEMMA TypeInvInductive == TypeInv /\ [Next]_vars => TypeInv'
<1> SUFFICES ASSUME TypeOK, TodoPresent, [Next]_vars PROVE TypeOK' /\ TodoPresent'
  BY DEF TypeInv
<1>0. now \in Nat /\ now \in Readings /\ \A t \in Readings : t \in Start .. MaxNow /\ t \in Nat
  BY DEF TypeOK, Readings
<1>1. TypeOK'
  <2>1. CASE Tick
    BY <2>1, <1>0 DEF TypeOK, Tick, Silent
  <2>2. ASSUME NEW k \in Keys, NEW v \in Values, NEW d \in Secs, evalSET(k, v, d) PROVE TypeOK'
    BY <2>2, <1>0, ExpiryType, SMTT(60) DEF TypeOK, evalSET, NewObj, Silent, Write
  <2>3. ASSUME NEW k \in Keys, evalGET(k) PROVE TypeOK'
    BY <2>3, <1>0, DelType, TouchType, SMTT(60) DEF TypeOK, evalGET, Reply, Commands
  <2>4. ASSUME NEW k \in Keys, evalTTL(k) PROVE TypeOK'
    <3>1. last' # Nil => last'.cmd \in Commands /\ last'.keys \in SUBSET Keys
      <4>1. \E r : Reply("TTL", {k}, r)
        BY <2>4 DEF evalTTL
      <4> QED
        BY <4>1, ReplyType DEF Commands
    <3>2. /\ store' \in [Keys -> Obj \cup {Nil}] /\ expires' \in [Objs -> Deadline \cup {Nil}]
          /\ stat' \in Int
      <4>1. CASE Found(k)
        <5>1. Touch(k) /\ UNCHANGED <<expires, stat>>
          BY <2>4, <4>1 DEF evalTTL
        <5> QED
          BY <5>1, <4>1, TouchType DEF TypeOK
      <4>2. CASE ~Found(k)
        <5>1. Del({k})
          BY <2>4, <4>2 DEF evalTTL
        <5> QED
          BY <5>1, DelType
      <4> QED
        BY <4>1, <4>2
    <3>3. now' \in Readings /\ UNCHANGED <<pc, todo, n, pend, pool, keyset>>
      BY <2>4 DEF evalTTL
    <3> QED
      BY <3>1, <3>2, <3>3, <1>0 DEF TypeOK
  <2>5. ASSUME NEW D \in SUBSET Keys, evalDEL(D) PROVE TypeOK'
    BY <2>5, DelType DEF TypeOK, evalDEL, Reply, Commands
  <2>6. ASSUME NEW k \in Keys, NEW d \in Secs, evalEXPIRE(k, d) PROVE TypeOK'
    <3>1. CASE Found(k)
      <4>1. /\ Touch(k) /\ now' \in Readings /\ Reply("EXPIRE", {k}, 1)
            /\ expires' = [expires EXCEPT ![store[k].ptr] = Expiry(now', d)]
            /\ UNCHANGED <<stat, pc, todo, n, pend, pool, keyset>>
        BY <2>6, <3>1 DEF evalEXPIRE
      <4>2. Expiry(now', d) \in Deadline
        BY <4>1, <1>0, ExpiryType
      <4>3. expires' \in [Objs -> Deadline \cup {Nil}]
        BY <4>1, <4>2 DEF TypeOK
      <4> QED
        BY <4>1, <4>3, <3>1, <1>0, TouchType, ReplyType DEF TypeOK, Commands
    <3>2. CASE ~Found(k)
      BY <2>6, <3>2, DelType, ReplyType DEF TypeOK, evalEXPIRE, Commands
    <3> QED
      BY <3>1, <3>2
  <2>7. ASSUME NEW k \in Keys, evalINCR(k) PROVE TypeOK'
    <3>1. CASE Found(k) /\ store[k].val \in Ints
      <4>1. store' = [store EXCEPT ![k].at = getCurrentClock(now),
                                   ![k].val = Increment(store[k].val)]
        BY <2>7, <3>1 DEF evalINCR, assertEncoding
      <4>2. store[k] \in Obj /\ getCurrentClock(now) \in Ticks /\ Increment(store[k].val) \in Values
        BY <3>1, <1>0, TouchType, ClockType, IncrementType DEF Values
      <4>3. store' \in [Keys -> Obj \cup {Nil}]
        BY <4>1, <4>2 DEF TypeOK, Obj
      <4> QED
        BY <2>7, <3>1, <4>3, ReplyType, SMTT(60) DEF TypeOK, evalINCR, assertEncoding, Commands
    <3>2. CASE Found(k) /\ store[k].val \notin Ints
      BY <2>7, <3>2, TouchType, ReplyType DEF TypeOK, evalINCR, assertEncoding, Commands
    <3>3. CASE ~Found(k)
      <4>1. Increment(0) \in Values
        BY IncrementType DEF Ints, Values
      <4> QED
        BY <2>7, <3>3, <4>1, DelType, SMTT(60) DEF TypeOK, evalINCR, assertEncoding, Silent, Write
    <3> QED
      BY <3>1, <3>2, <3>3
  <2>8. CASE evalINFO \/ evalLRU \/ evict \/ StartEvicting \/ StartCron \/ LRUDone
    BY <2>8, SMTT(60) DEF TypeOK, evalINFO, evalLRU, evict, StartLRU, StartEvicting, StartCron, LRUDone,
       Reply, Silent, Commands, Present
  <2>9. CASE populateEvictionPool
    <3>1. PICK k \in todo : Push(getCurrentClock(now), k, store[k].at) /\ todo' = todo \ {k}
      BY <2>9 DEF populateEvictionPool
    <3>2. k \in Keys /\ store[k].at \in Ticks
      BY <2>9, <3>1 DEF TodoPresent, populateEvictionPool, Present, TypeOK, Obj
    <3>3. pool' \in Seq(PoolItem) /\ keyset' \in SUBSET Keys
      BY <3>1, <3>2, PushType
    <3> QED
      BY <2>9, <3>1, <3>3 DEF TypeOK, populateEvictionPool, Silent
  <2>10. CASE evictAllkeysLRU
    BY <2>10, PopType, DelType, SMTT(60) DEF TypeOK, evictAllkeysLRU, Silent
  <2>11. CASE evictRange
    BY <2>11, DelType DEF TypeOK, evictRange, Silent, Present
  <2>12. CASE Put
    BY <2>12, <1>0, ClockType, SMTT(60) DEF TypeOK, Put, Reply, Commands, Write, Obj
  <2>13. CASE expireSample
    BY <2>13, <1>0, DelType DEF TypeOK, expireSample, Silent, Present
  <2>14. CASE UNCHANGED vars
    BY <2>14 DEF TypeOK, vars
  <2> QED
    BY <2>1, <2>2, <2>3, <2>4, <2>5, <2>6, <2>7, <2>8, <2>9, <2>10, <2>11, <2>12, <2>13,
       <2>14 DEF Next, Command, Internal
<1>2. TodoPresent'
  BY DEF TodoPresent, Present, Next, Command, Internal, vars, Tick, evalSET, evalGET, evalTTL,
     evalDEL, evalEXPIRE, evalINCR, evalINFO, evalLRU, StartLRU, evict, populateEvictionPool,
     StartEvicting, evictAllkeysLRU, evictRange, Put, LRUDone, StartCron, expireSample
<1> QED
  BY <1>1, <1>2

\* The types of Keyspace's variables are an invariant.
THEOREM KeyspaceTypeOK == Spec => []TypeOK
<1>1. Init => TypeInv
  BY DEF Init, TypeInv, TypeOK, TodoPresent
<1>2. TypeInv => TypeOK
  BY DEF TypeInv
<1> QED
  BY <1>1, <1>2, TypeInvInductive, PTL DEF Spec
-----------------------------------------------------------------------------
\* What the shipped constants satisfy (5 <= 16, 5 <= 40): a sample fits in the
\* pool, and an eviction takes every candidate the sample put there.
Drains == KeysLimit >= 1 /\ SampleSize <= PoolSizeMax /\ SampleSize <= EvictCount

\* No two items of the pool have the same key.
Distinct(s) == \A i, j \in DOMAIN s : s[i].key = s[j].key => i = j

\* The candidates are stored, with the access times they have now.
Fresh == \A i \in DOMAIN pool : pool[i].key \in Present /\ store[pool[i].key].at = pool[i].at

PoolOk == keyset = PoolKeys /\ Distinct(pool) /\ Fresh

\* The pool is in use only during an eviction.
PoolIdle == pc \notin {"populate", "pop"} => pool = <<>>

\* While the pool is filled it is empty only before the first key is offered,
\* and it has room for the keys still to be offered.
Filling ==
  pc = "populate" =>
    /\ n \in Nat /\ Len(pool) + n <= SampleSize
    /\ pool = <<>> => todo = Present /\ n = SampleSize
    /\ pend # Nil => Cardinality(Present) >= KeysLimit

\* While it is drained there is a turn for each candidate, and once it is empty
\* there is room for the write.
Draining ==
  pc = "pop" =>
    /\ Len(pool) <= n
    /\ pend # Nil /\ pool = <<>> => Cardinality(Present) < KeysLimit

Ranging == pc = "range" => n \in Nat /\ (n = 0 => Cardinality(Present) < KeysLimit)

NoWrite == pc \in {"idle", "cron"} => pend = Nil

CapInv ==
  TypeInv /\ PoolOk /\ PoolIdle /\ Filling /\ Draining /\ Ranging /\ NoWrite /\ Capacity
-----------------------------------------------------------------------------
\* Sorting keeps keys distinct.
LEMMA SortedDistinct ==
  ASSUME NEW S, NEW s \in Seq(S), NEW c, NEW t \in Sorted(c, s), Distinct(s)
  PROVE  Distinct(t)
<1> DEFINE D == 1 .. Len(s)
<1>1. DOMAIN s = D
  OBVIOUS
<1>2. PICK p \in Bijection(DOMAIN s, DOMAIN s) : t = [i \in DOMAIN s |-> s[p[i]]]
  BY DEF Sorted
<1>3. p \in [D -> D] /\ \A i, j \in D : p[i] = p[j] => i = j
  BY <1>1, <1>2 DEF Bijection, Injection, IsInjective
<1>4. DOMAIN t = D /\ \A i \in D : t[i] = s[p[i]]
  BY <1>1, <1>2, <1>3
<1> QED
  BY <1>1, <1>3, <1>4 DEF Distinct

\* Del removes just the keys it is given.
LEMMA DelPresent ==
  ASSUME NEW D \in SUBSET Keys, Del(D)
  PROVE  Present' = Present \ D /\ \A k \in Present' : store'[k] = store[k]
BY DEF Del, Present

\* Stamping an object removes and adds no key.
LEMMA TouchPresent ==
  ASSUME TypeOK, NEW k \in Keys, Found(k), Touch(k)
  PROVE  Present' = Present
<1>1. store[k] \in Obj
  BY TouchType
<1>2. store \in [Keys -> Obj \cup {Nil}] /\ getCurrentClock(now) \in Ticks
  <2>1. now \in Nat
    BY DEF TypeOK
  <2> QED
    BY <2>1, ClockType DEF TypeOK
<1>3. \A j \in Keys : j # k => store'[j] = store[j]
  BY <1>2 DEF Touch
<1>4. store'[k] \in Obj
  BY <1>1, <1>2 DEF Touch, Obj
<1>5. \A j \in Keys : store'[j] = Nil <=> store[j] = Nil
  BY <1>1, <1>3, <1>4
<1> QED
  BY <1>5 DEF Present

\* Fewer keys are no more keys.
LEMMA SmallerPresent ==
  ASSUME Present' \subseteq Present
  PROVE  Cardinality(Present') <= Cardinality(Present)
<1>1. IsFiniteSet(Present)
  BY KeysFinite DEF Present
<1> QED
  BY <1>1, FS_Subset

\* Removing a stored key makes room.
LEMMA OneLess ==
  ASSUME NEW k \in Present, Present' = Present \ {k}
  PROVE  Cardinality(Present') = Cardinality(Present) - 1
<1>1. IsFiniteSet(Present)
  BY KeysFinite DEF Present
<1> QED
  BY <1>1, FS_RemoveElement

\* A command that takes the pool as empty and adds no key keeps the invariant.
LEMMA QuietStep ==
  ASSUME CapInv, TypeInv', pc \in {"idle", "cron"}, Present' \subseteq Present,
         UNCHANGED <<pool, keyset>>,
         \/ pc' \in {"idle", "cron"} /\ pend' = pend
         \/ pc' = "put"
  PROVE  CapInv'
<1>1. Present \in SUBSET Keys /\ Present' \in SUBSET Keys
  BY DEF Present
<1>2. Capacity'
  BY <1>1, KeysFinite, SmallerPresent DEF CapInv, Capacity
<1>3. PoolOk' /\ PoolIdle'
  BY DEF CapInv, PoolOk, PoolIdle, PoolKeys, Distinct, Fresh
<1> QED
  BY <1>2, <1>3 DEF CapInv, Filling, Draining, Ranging, NoWrite

\* Offering a key to a pool with room puts it there, unless it is there.
LEMMA PushInPool ==
  ASSUME TypeOK, PoolOk, NEW k \in Present, NEW c, Len(pool) < PoolSizeMax,
         Push(c, k, store[k].at), UNCHANGED store
  PROVE  /\ PoolOk' /\ pool' # <<>> /\ Len(pool') \in Nat /\ Len(pool') <= Len(pool) + 1
<1> DEFINE item == [key |-> k, at |-> store[k].at]
           long == Append(pool, item)
<1>0. Present' = Present
  BY DEF Present
<1>1. pool \in Seq(PoolItem) /\ item \in PoolItem /\ long \in Seq(PoolItem)
  BY DEF TypeOK, Present, Obj, PoolItem
<1>2. /\ Len(pool) \in Nat /\ DOMAIN pool = 1 .. Len(pool)
      /\ Len(long) = Len(pool) + 1 /\ DOMAIN long = 1 .. Len(pool) + 1
      /\ long[Len(pool) + 1] = item /\ \A i \in 1 .. Len(pool) : long[i] = pool[i]
  BY <1>1
<1>item. item.key = k /\ item.at = store[k].at
  OBVIOUS
<1>long. long = Append(pool, item)
  OBVIOUS
<1> HIDE DEF long, item
<1>3. CASE k \notin keyset /\ pool' \in Sorted(c, long) /\ keyset' = keyset \cup {k}
  <2>1. Distinct(long)
    BY <1>2, <1>item, <1>3 DEF PoolOk, PoolKeys, Distinct
  <2>2. Distinct(pool')
    BY <1>1, <1>3, <2>1, SortedDistinct
  <2>3. /\ pool' \in Seq(PoolItem) /\ Len(pool') = Len(long)
        /\ \A i \in DOMAIN pool' : \E j \in DOMAIN long : pool'[i] = long[j]
        /\ \A j \in DOMAIN long : \E i \in DOMAIN pool' : pool'[i] = long[j]
    BY <1>1, <1>3, SortedPermutes
  <2>4. Fresh'
    <3>1. \A j \in DOMAIN long : long[j].key \in Present /\ store[long[j].key].at = long[j].at
      BY <1>2, <1>item DEF PoolOk, Fresh
    <3>2. \A i \in DOMAIN pool' : pool'[i].key \in Present /\ store[pool'[i].key].at = pool'[i].at
      BY <2>3, <3>1
    <3> QED
      BY <1>0, <3>2 DEF Fresh
  <2>5. keyset' = PoolKeys'
    <3>1. keyset' = {long[j].key : j \in DOMAIN long}
      BY <1>2, <1>item, <1>3 DEF PoolOk, PoolKeys
    <3>2. PoolKeys' = {long[j].key : j \in DOMAIN long}
      BY <2>3 DEF PoolKeys
    <3> QED
      BY <3>1, <3>2
  <2>6. pool' # <<>> /\ Len(pool') \in Nat
    BY <1>1, <1>2, <2>3
  <2> QED
    BY <1>1, <1>2, <2>2, <2>3, <2>4, <2>5, <2>6 DEF PoolOk
<1>4. CASE k \in keyset /\ UNCHANGED <<pool, keyset>>
  <2>1. PoolOk'
    BY <1>0, <1>4 DEF PoolOk, PoolKeys, Fresh, Distinct
  <2>2. pool # <<>>
    BY <1>4 DEF PoolOk, PoolKeys
  <2> QED
    BY <1>1, <1>4, <2>1, <2>2
<1> QED
  BY <1>1, <1>3, <1>4, <1>long DEF Push, item

\* Taking the head off the pool and deleting its key leaves the rest as it was.
LEMMA PopFromPool ==
  ASSUME TypeOK, PoolOk, pool # <<>>, Pop, Del({Head(pool).key})
  PROVE  /\ PoolOk' /\ Len(pool') = Len(pool) - 1
         /\ Head(pool).key \in Present /\ Present' = Present \ {Head(pool).key}
<1>1. /\ pool \in Seq(PoolItem) /\ Len(pool) \in Nat \ {0} /\ DOMAIN pool = 1 .. Len(pool)
      /\ Head(pool) = pool[1]
  BY DEF TypeOK
<1>2. /\ pool' = Tail(pool) /\ Len(pool') = Len(pool) - 1 /\ DOMAIN pool' = 1 .. Len(pool) - 1
      /\ \A i \in DOMAIN pool' : pool'[i] = pool[i + 1]
  BY <1>1 DEF Pop
<1>3. Head(pool).key \in Present /\ Head(pool).key \in Keys
  BY <1>1 DEF PoolOk, Fresh, Present
<1>4. Present' = Present \ {Head(pool).key} /\ \A k \in Present' : store'[k] = store[k]
  BY <1>3, DelPresent
<1>5. \A i \in DOMAIN pool' : i + 1 \in DOMAIN pool /\ pool[i + 1].key # Head(pool).key
  BY <1>1, <1>2 DEF PoolOk, Distinct
<1>6. Distinct(pool')
  BY <1>1, <1>2, <1>5 DEF PoolOk, Distinct
<1>7. Fresh'
  BY <1>1, <1>2, <1>4, <1>5 DEF PoolOk, Fresh
<1>8. keyset' = PoolKeys'
  <2>1. keyset' = {pool[i].key : i \in DOMAIN pool} \ {Head(pool).key}
    BY DEF PoolOk, PoolKeys, Pop
  <2>2. \A i \in DOMAIN pool : pool[i].key # Head(pool).key => i - 1 \in DOMAIN pool'
    BY <1>1, <1>2
  <2>3. \A i \in DOMAIN pool : pool[i].key # Head(pool).key => pool'[i - 1] = pool[i]
    BY <1>1, <1>2, <2>2
  <2> QED
    BY <1>2, <1>5, <2>1, <2>2, <2>3 DEF PoolKeys
<1> QED
  BY <1>2, <1>3, <1>4, <1>6, <1>7, <1>8 DEF PoolOk
-----------------------------------------------------------------------------
\* What the commands but LRU, and the cron, have in common: they only ever
\* remove keys, leave the pool alone, and a write waits in Put.
Quiet ==
  /\ pc \in {"idle", "cron"} /\ Present' \subseteq Present /\ UNCHANGED <<pool, keyset>>
  /\ \/ pc' \in {"idle", "cron"} /\ pend' = pend
     \/ pc' = "put"

\* Each of these commands is quiet.
LEMMA CommandIsQuiet ==
  ASSUME TypeOK, Command \/ StartCron \/ expireSample, ~evalLRU
  PROVE  Quiet
<1>1. ASSUME NEW k \in Keys, NEW v \in Values, NEW d \in Secs, evalSET(k, v, d) PROVE Quiet
  <2>1. Present' = Present
    BY <1>1 DEF evalSET, Present
  <2> QED
    BY <1>1, <2>1 DEF evalSET, Quiet
<1>2. ASSUME NEW k \in Keys, evalGET(k) \/ evalTTL(k) \/ (\E d \in Secs : evalEXPIRE(k, d))
      PROVE  Quiet
  <2>1. /\ pc = "idle" /\ UNCHANGED <<pc, pend, pool, keyset>>
        /\ (Found(k) /\ Touch(k)) \/ Del({k})
    BY <1>2 DEF evalGET, evalTTL, evalEXPIRE
  <2>2. Present' \subseteq Present
    BY <2>1, TouchPresent, DelPresent
  <2> QED
    BY <2>1, <2>2 DEF Quiet
<1>3. ASSUME NEW k \in Keys, evalINCR(k) PROVE Quiet
  <2>1. CASE Found(k) /\ ~Touch(k)
    <3>1. /\ pc = "idle" /\ UNCHANGED <<pc, pend, pool, keyset>>
          /\ store' = [store EXCEPT ![k].at = getCurrentClock(now),
                                    ![k].val = Increment(store[k].val)]
      BY <1>3, <2>1 DEF evalINCR
    <3>2. Present' \subseteq Present
      BY <2>1, <3>1 DEF TypeOK, Present, Found
    <3> QED
      BY <3>1, <3>2 DEF Quiet
  <2>2. CASE Found(k) /\ Touch(k)
    <3>1. pc = "idle" /\ UNCHANGED <<pc, pend, pool, keyset>>
      BY <1>3, <2>2 DEF evalINCR
    <3> QED
      BY <2>2, <3>1, TouchPresent DEF Quiet
  <2>3. CASE ~Found(k)
    <3>1. pc = "idle" /\ pc' = "put" /\ UNCHANGED <<pool, keyset>> /\ Del({k})
      BY <1>3, <2>3 DEF evalINCR
    <3> QED
      BY <3>1, DelPresent DEF Quiet
  <2> QED
    BY <2>1, <2>2, <2>3
<1>4. ASSUME NEW D \in SUBSET Keys, evalDEL(D) PROVE Quiet
  BY <1>4, DelPresent DEF evalDEL, Quiet
<1>5. CASE evalINFO \/ StartCron
  <2>1. Present' = Present
    BY <1>5 DEF evalINFO, StartCron, Present
  <2> QED
    BY <1>5, <2>1 DEF evalINFO, StartCron, Quiet
<1>6. CASE expireSample
  <2>1. PICK D \in SUBSET Present : Del(D)
    BY <1>6 DEF expireSample
  <2>2. Present' \subseteq Present
    BY <2>1, DelPresent DEF Present
  <2> QED
    BY <1>6, <2>2 DEF expireSample, Quiet
<1> QED
  BY <1>1, <1>2, <1>3, <1>4, <1>5, <1>6 DEF Command

\* So none of them disturbs the invariant.
LEMMA CommandStep ==
  ASSUME CapInv, TypeInv', Command \/ StartCron \/ expireSample, ~evalLRU
  PROVE  CapInv'
BY CommandIsQuiet, QuietStep DEF CapInv, TypeInv, Quiet

\* An eviction starts with an empty pool and, for a write, a full keyspace.
LEMMA StartStep ==
  ASSUME CapInv, TypeInv', Drains, evalLRU \/ evict
  PROVE  CapInv'
<1>1. UNCHANGED <<store, pool, keyset, pend>> /\ pool = <<>> /\ Present' = Present
  BY DEF CapInv, PoolIdle, evalLRU, evict, StartLRU, Present
<1>2. Capacity' /\ PoolOk' /\ Cardinality(Present') = Cardinality(Present)
  BY <1>1 DEF CapInv, Capacity, PoolOk, PoolKeys, Distinct, Fresh
<1>3. CASE StartLRU /\ (pc = "idle" \/ Cardinality(Present) >= KeysLimit)
  <2>1. Filling'
    BY <1>1, <1>2, <1>3 DEF CapInv, StartLRU, Filling, NoWrite
  <2> QED
    BY <1>2, <1>3, <2>1 DEF CapInv, StartLRU, PoolIdle, Draining, Ranging, NoWrite
<1>4. CASE pc' = "range" /\ n' = (IF EvictionStrategy = "simple-first" \/ EvictCount < 1
                                THEN 1 ELSE EvictCount)
  <2>1. n' \in Nat \ {0}
    BY <1>4
  <2> QED
    BY <1>1, <1>2, <1>4, <2>1 DEF CapInv, PoolIdle, Filling, Draining, Ranging, NoWrite
<1> QED
  BY <1>3, <1>4 DEF evalLRU, evict

\* One more key is offered to the pool.
LEMMA PopulateStep ==
  ASSUME CapInv, TypeInv', Drains, populateEvictionPool
  PROVE  CapInv'
<1>0. TypeOK /\ PoolOk /\ TodoPresent
  BY DEF CapInv, TypeInv
<1>1. /\ pc = "populate" /\ pc' = "populate" /\ n > 0 /\ n' = n - 1
      /\ UNCHANGED <<store, pend>> /\ Present' = Present
  BY <1>0 DEF populateEvictionPool, Sampled, CapInv, Filling, Present
<1>2. n \in Nat /\ Len(pool) + n <= SampleSize /\ Len(pool) \in Nat
  BY <1>0, <1>1 DEF CapInv, Filling, TypeOK
<1>3. PICK k \in Present : Push(getCurrentClock(now), k, store[k].at)
  BY <1>0, <1>1 DEF populateEvictionPool, TodoPresent
<1>4. PoolOk' /\ pool' # <<>> /\ Len(pool') \in Nat /\ Len(pool') <= Len(pool) + 1
  <2>1. Len(pool) < PoolSizeMax
    BY <1>1, <1>2 DEF Drains
  <2> QED
    BY <1>0, <1>1, <1>3, <2>1, PushInPool
<1>5. Filling'
  BY <1>1, <1>2, <1>4 DEF CapInv, Filling
<1> QED
  BY <1>1, <1>4, <1>5 DEF CapInv, Capacity, PoolIdle, Draining, Ranging, NoWrite

\* The pool is not empty when the keyspace is not, and there is a turn for
\* each of its items.
LEMMA StartEvictingStep ==
  ASSUME CapInv, TypeInv', Drains, StartEvicting
  PROVE  CapInv'
<1>1. /\ pc = "populate" /\ pc' = "pop" /\ n' = EvictCount /\ Sampled
      /\ UNCHANGED <<store, pend, pool, keyset>> /\ Present' = Present
  BY DEF StartEvicting, Present
<1>2. n \in Nat /\ Len(pool) + n <= SampleSize /\ Len(pool) \in Nat
  BY <1>1 DEF CapInv, Filling, TypeInv, TypeOK
<1>3. pend # Nil => pool # <<>>
  <2> SUFFICES ASSUME pend # Nil, pool = <<>> PROVE FALSE
    OBVIOUS
  <2>1. todo = Present /\ n = SampleSize /\ Cardinality(Present) >= KeysLimit
    BY <1>1 DEF CapInv, Filling
  <2>2. Present = {}
    BY <1>1, <2>1 DEF Sampled
  <2> QED
    BY <2>1, <2>2, FS_EmptySet DEF Drains
<1>4. Draining'
  BY <1>1, <1>2, <1>3 DEF Draining, Drains
<1>5. PoolOk'
  BY <1>1 DEF CapInv, PoolOk, PoolKeys, Distinct, Fresh
<1> QED
  BY <1>1, <1>4, <1>5 DEF CapInv, Capacity, PoolIdle, Filling, Ranging, NoWrite

\* A candidate is evicted: it is always there, so each turn makes room.
LEMMA EvictStep ==
  ASSUME CapInv, TypeInv', evictAllkeysLRU
  PROVE  CapInv'
<1>0. TypeOK /\ PoolOk /\ Draining /\ Cardinality(Present) <= KeysLimit
  BY DEF CapInv, TypeInv, Capacity
<1>1. /\ pc = "pop" /\ pc' = "pop" /\ n' = n - 1 /\ pend' = pend
      /\ pool # <<>> /\ Pop /\ Del({Head(pool).key})
  BY DEF evictAllkeysLRU
<1>2. /\ PoolOk' /\ Len(pool') = Len(pool) - 1
      /\ Head(pool).key \in Present /\ Present' = Present \ {Head(pool).key}
  BY <1>0, <1>1, PopFromPool
<1>3. Cardinality(Present') = Cardinality(Present) - 1 /\ Cardinality(Present) \in Nat
  BY <1>2, OneLess, KeysFinite DEF Present
<1>4. Len(pool') <= n'
  BY <1>0, <1>1, <1>2 DEF Draining, TypeOK
<1>5. Draining' /\ Capacity'
  BY <1>0, <1>3, <1>4 DEF Draining, Capacity
<1> QED
  BY <1>1, <1>2, <1>5 DEF CapInv, PoolIdle, Filling, Ranging, NoWrite

\* The range loops delete a stored key in each turn.
LEMMA RangeStep ==
  ASSUME CapInv, TypeInv', evictRange
  PROVE  CapInv'
<1>0. TypeOK /\ PoolOk /\ pool = <<>> /\ n \in Nat /\ Cardinality(Present) <= KeysLimit
  BY DEF CapInv, TypeInv, Capacity, PoolIdle, Ranging, evictRange
<1>1. /\ pc = "range" /\ pc' = "range" /\ n > 0 /\ n' = n - 1
      /\ UNCHANGED <<pend, pool, keyset>>
  BY DEF evictRange
<1>2. PICK k \in Present : Del({k})
  BY DEF evictRange
<1>3. Present' = Present \ {k}
  BY <1>2, DelPresent DEF Present
<1>4. Cardinality(Present') = Cardinality(Present) - 1 /\ Cardinality(Present) \in Nat
  BY <1>3, OneLess, KeysFinite DEF Present
<1>5. Ranging' /\ Capacity'
  BY <1>0, <1>1, <1>4 DEF Ranging, Capacity
<1>6. PoolOk'
  BY <1>0, <1>1 DEF PoolOk, PoolKeys, Distinct, Fresh
<1> QED
  BY <1>0, <1>1, <1>5, <1>6 DEF CapInv, PoolIdle, Filling, Draining, NoWrite

\* When an eviction is over the pool is empty and there is room for a write.
LEMMA DoneStep ==
  ASSUME CapInv, Drains, EvictDone
  PROVE  pool = <<>> /\ keyset = {} /\ (pend # Nil => Cardinality(Present) < KeysLimit)
<1>0. TypeOK /\ PoolOk
  BY DEF CapInv, TypeInv
<1>1. CASE pc = "pop"
  <2>1. Len(pool) <= n /\ (n <= 0 \/ pool = <<>>)
    BY <1>1 DEF CapInv, Draining, EvictDone
  <2>2. pool = <<>>
    BY <1>0, <2>1 DEF TypeOK
  <2> QED
    BY <1>0, <1>1, <2>2 DEF CapInv, Draining, PoolOk, PoolKeys
<1>2. CASE pc = "range"
  <2>1. pool = <<>> /\ keyset = {}
    BY <1>0, <1>2 DEF CapInv, PoolIdle, PoolOk, PoolKeys
  <2>2. CASE n = 0
    BY <1>2, <2>1, <2>2 DEF CapInv, Ranging
  <2>3. CASE Present = {}
    BY <2>1, <2>3, FS_EmptySet DEF Drains
  <2> QED
    BY <1>2, <2>1, <2>2, <2>3 DEF EvictDone
<1> QED
  BY <1>1, <1>2 DEF EvictDone

\* The write adds one key at most.
LEMMA PutStep ==
  ASSUME CapInv, TypeInv', Drains, Put
  PROVE  CapInv'
<1>0. TypeOK /\ pend \in Write
  BY DEF CapInv, TypeInv, TypeOK, Put
<1>1. /\ pc' = "idle" /\ pend' = Nil /\ UNCHANGED <<pool, keyset>>
      /\ store' = [store EXCEPT ![pend.key] =
                     [ptr |-> pend.ptr, val |-> pend.val, at |-> getCurrentClock(now)]]
  BY DEF Put
<1>2. pool = <<>> /\ keyset = {} /\ Cardinality(Present) < KeysLimit
  <2>1. CASE EvictDone
    BY <2>1, DoneStep DEF Put
  <2>2. CASE pc = "put" /\ Cardinality(Present) < KeysLimit
    BY <2>2 DEF CapInv, PoolIdle, PoolOk, PoolKeys
  <2> QED
    BY <2>1, <2>2 DEF Put
<1>3. Present' \subseteq Present \cup {pend.key}
  BY <1>0, <1>1 DEF Present, TypeOK
<1>4. Cardinality(Present') <= KeysLimit
  <2>1. IsFiniteSet(Present) /\ Cardinality(Present) \in Nat /\ Cardinality(Present') \in Nat
    BY KeysFinite DEF Present
  <2>2. /\ IsFiniteSet(Present \cup {pend.key})
        /\ Cardinality(Present \cup {pend.key}) <= Cardinality(Present) + 1
    <3>1. /\ IsFiniteSet(Present \cup {pend.key})
          /\ Cardinality(Present \cup {pend.key})
               = IF pend.key \in Present THEN Cardinality(Present) ELSE Cardinality(Present) + 1
      BY <2>1, FS_AddElement, Zenon
    <3> QED
      BY <2>1, <3>1
  <2>3. Cardinality(Present') <= Cardinality(Present \cup {pend.key})
    BY <1>3, <2>2, FS_Subset
  <2>4. Cardinality(Present \cup {pend.key}) \in Nat
    BY <2>2, FS_CardinalityType
  <2> QED
    BY <1>2, <2>1, <2>2, <2>3, <2>4
<1>5. PoolOk'
  BY <1>1, <1>2 DEF PoolOk, PoolKeys, Distinct, Fresh
<1> QED
  BY <1>1, <1>2, <1>4, <1>5
  DEF CapInv, Capacity, PoolIdle, Filling, Draining, Ranging, NoWrite

\* The LRU command is done, the clock moves, or nothing happens.
LEMMA OtherStep ==
  ASSUME CapInv, TypeInv', Drains, LRUDone \/ Tick \/ UNCHANGED vars
  PROVE  CapInv'
<1>1. Present' = Present /\ UNCHANGED <<store, pend, pool, keyset>>
  BY DEF LRUDone, Tick, vars, Present
<1>2. PoolOk' /\ Capacity'
  BY <1>1 DEF CapInv, Capacity, PoolOk, PoolKeys, Distinct, Fresh
<1>3. CASE LRUDone
  <2>1. pool = <<>> /\ pend = Nil /\ pc' = "idle"
    BY <1>3, DoneStep DEF LRUDone
  <2> QED
    BY <1>1, <1>2, <2>1 DEF CapInv, PoolIdle, Filling, Draining, Ranging, NoWrite
<1>4. CASE Tick \/ UNCHANGED vars
  <2>1. UNCHANGED <<pc, n, todo>>
    BY <1>4 DEF Tick, vars
  <2> QED
    BY <1>1, <1>2, <2>1 DEF CapInv, PoolIdle, Filling, Draining, Ranging, NoWrite
<1> QED
  BY <1>3, <1>4

\* CapInv holds throughout, if an eviction drains the pool.
LEMMA CapInvInductive == Drains => (Spec => []CapInv)
<1> SUFFICES ASSUME Drains PROVE Spec => []CapInv
  OBVIOUS
<1>1. Init => CapInv
  <2> SUFFICES ASSUME Init PROVE CapInv
    OBVIOUS
  <2>1. TypeInv
    BY DEF Init, TypeInv, TypeOK, TodoPresent
  <2>2. Present = {} /\ pool = <<>> /\ keyset = {} /\ pc = "idle" /\ pend = Nil
    BY DEF Init, Present
  <2>3. Capacity
    BY <2>2, FS_EmptySet DEF Capacity
  <2> QED
    BY <2>1, <2>2, <2>3 DEF CapInv, PoolOk, PoolKeys, Distinct, Fresh, PoolIdle, Filling, Draining,
       Ranging, NoWrite
<1>2. CapInv /\ [Next]_vars => CapInv'
  <2> SUFFICES ASSUME CapInv, [Next]_vars PROVE CapInv'
    OBVIOUS
  <2>1. TypeInv'
    BY TypeInvInductive DEF CapInv
  <2> QED
    BY <2>1, CommandStep, StartStep, PopulateStep, StartEvictingStep, EvictStep, RangeStep,
       PutStep, OtherStep DEF Next, Command, Internal
<1> QED
  BY <1>1, <1>2, PTL DEF Spec

-----------------------------------------------------------------------------
\* The turns an eviction by a range loop takes.
Turns == IF EvictionStrategy = "simple-first" \/ EvictCount < 1 THEN 1 ELSE EvictCount

\* A configuration that evicts by a range loop, and has room for a key.
Ranges == KeysLimit >= 1 /\ EvictionStrategy # "allkeys-lru"

\* Then only the LRU command uses the pool, and in a range loop each turn taken
\* has made room for one key.
RoomInv ==
  /\ TypeInv /\ NoWrite /\ Capacity
  /\ pc \in {"populate", "pop"} => pend = Nil
  /\ pc = "range" => n \in Nat /\ Cardinality(Present) <= KeysLimit - (Turns - n)

\* What is left when a range loop is done: Turns keys of room, or no key.
LEMMA RangeDone ==
  ASSUME RoomInv, Ranges, pend # Nil, EvictDone
  PROVE  Cardinality(Present) <= KeysLimit - Turns \/ Present = {}
<1>1. pc = "range"
  BY DEF RoomInv, EvictDone
<1>2. CASE n = 0
  <2>1. Cardinality(Present) <= KeysLimit - (Turns - 0)
    BY <1>1, <1>2 DEF RoomInv
  <2>2. Turns \in Int
    BY DEF Turns
  <2> QED
    BY <2>1, <2>2
<1> QED
  BY <1>1, <1>2 DEF EvictDone

\* Put adds one key at most.
LEMMA PutAddsOne ==
  ASSUME TypeOK, Put
  PROVE  Cardinality(Present') \in Nat /\ Cardinality(Present') <= Cardinality(Present) + 1
<1>1. /\ pend \in Write
      /\ store' = [store EXCEPT ![pend.key] =
                     [ptr |-> pend.ptr, val |-> pend.val, at |-> getCurrentClock(now)]]
  BY DEF TypeOK, Put
<1>2. Present' \subseteq Present \cup {pend.key}
  BY <1>1 DEF Present, TypeOK
<1>3. IsFiniteSet(Present) /\ Cardinality(Present) \in Nat /\ Cardinality(Present') \in Nat
  BY KeysFinite DEF Present
<1>4. /\ IsFiniteSet(Present \cup {pend.key})
      /\ Cardinality(Present \cup {pend.key})
           = IF pend.key \in Present THEN Cardinality(Present) ELSE Cardinality(Present) + 1
  BY <1>3, FS_AddElement, Zenon
<1>5. Cardinality(Present') <= Cardinality(Present \cup {pend.key})
  BY <1>2, <1>4, FS_Subset
<1> QED
  BY <1>3, <1>4, <1>5

\* RoomInv holds throughout, if evictions are range loops.
LEMMA RoomInvInductive == Ranges => (Spec => []RoomInv)
<1> SUFFICES ASSUME Ranges PROVE Spec => []RoomInv
  OBVIOUS
<1>1. Init => RoomInv
  <2> SUFFICES ASSUME Init PROVE RoomInv
    OBVIOUS
  <2>1. TypeInv
    BY DEF Init, TypeInv, TypeOK, TodoPresent
  <2>2. Present = {} /\ pc = "idle" /\ pend = Nil
    BY DEF Init, Present
  <2> QED
    BY <2>1, <2>2, FS_EmptySet DEF RoomInv, NoWrite, Capacity
<1>2. RoomInv /\ [Next]_vars => RoomInv'
  <2> SUFFICES ASSUME RoomInv, [Next]_vars PROVE RoomInv'
    OBVIOUS
  <2>0. TypeOK /\ TypeInv' /\ NoWrite /\ Cardinality(Present) <= KeysLimit
    BY TypeInvInductive DEF RoomInv, TypeInv, Capacity
  <2>card. Cardinality(Present) \in Nat /\ Cardinality(Present') \in Nat
    BY KeysFinite DEF Present
  <2>1. CASE (Command \/ StartCron \/ expireSample) /\ ~evalLRU
    <3>1. Quiet
      BY <2>0, <2>1, CommandIsQuiet
    <3>2. Capacity'
      BY <2>0, <2>card, <3>1, SmallerPresent DEF Quiet, Capacity
    <3> QED
      BY <2>0, <3>1, <3>2 DEF RoomInv, NoWrite, Quiet
  <2>2. CASE evalLRU \/ evict
    <3>1. UNCHANGED <<store, pend>> /\ Present' = Present
      BY <2>2 DEF evalLRU, evict, StartLRU, Present
    <3>2. CASE evalLRU
      <4>1. pc' = "populate" /\ pend' = Nil
        BY <2>0, <3>1, <3>2 DEF evalLRU, StartLRU, NoWrite
      <4> QED
        BY <2>0, <3>1, <4>1 DEF RoomInv, NoWrite, Capacity
    <3>3. CASE evict
      <4>1. pc' = "range" /\ n' = Turns
        BY <3>3 DEF evict, Ranges, Turns
      <4>2. Turns \in Nat
        BY DEF Turns
      <4>3. Cardinality(Present') <= KeysLimit - (Turns - n')
        BY <2>0, <2>card, <3>1, <4>1, <4>2
      <4> QED
        BY <2>0, <3>1, <4>1, <4>2, <4>3 DEF RoomInv, NoWrite, Capacity
    <3> QED
      BY <2>2, <3>2, <3>3
  <2>3. CASE populateEvictionPool \/ StartEvicting
    <3>1. /\ UNCHANGED <<store, pend>> /\ Present' = Present
          /\ pc = "populate" /\ pc' \in {"populate", "pop"}
      BY <2>3 DEF populateEvictionPool, StartEvicting, Present
    <3> QED
      BY <2>0, <3>1 DEF RoomInv, NoWrite, Capacity
  <2>4. CASE evictAllkeysLRU
    <3>1. pc = "pop" /\ pc' = "pop" /\ UNCHANGED pend /\ Del({Head(pool).key})
      BY <2>4 DEF evictAllkeysLRU
    <3>2. {Head(pool).key} \in SUBSET Keys
      BY <2>0, <2>4, PopType DEF evictAllkeysLRU
    <3>3. Capacity'
      BY <2>0, <2>card, <3>1, <3>2, DelPresent, SmallerPresent DEF Capacity
    <3> QED
      BY <2>0, <3>1, <3>3 DEF RoomInv, NoWrite
  <2>5. CASE evictRange
    <3>1. pc = "range" /\ pc' = "range" /\ n > 0 /\ n' = n - 1 /\ UNCHANGED pend
      BY <2>5 DEF evictRange
    <3>2. PICK k \in Present : Del({k})
      BY <2>5 DEF evictRange
    <3>3. Present' = Present \ {k}
      BY <3>2, DelPresent DEF Present
    <3>4. Cardinality(Present') = Cardinality(Present) - 1
      BY <3>3, OneLess
    <3>5. n \in Nat /\ Cardinality(Present) <= KeysLimit - (Turns - n) /\ Turns \in Nat
      BY <3>1 DEF RoomInv, Turns
    <3>6. n' \in Nat /\ Cardinality(Present') <= KeysLimit - (Turns - n')
      BY <2>card, <3>1, <3>4, <3>5
    <3>7. Capacity'
      BY <2>0, <2>card, <3>4 DEF Capacity
    <3> QED
      BY <2>0, <3>1, <3>6, <3>7 DEF RoomInv, NoWrite
  <2>6. CASE Put
    <3>1. pc' = "idle" /\ pend' = Nil /\ pend # Nil
      BY <2>6 DEF Put
    <3>2. Cardinality(Present) < KeysLimit
      <4>1. CASE EvictDone
        <5>1. Turns \in Nat \ {0}
          BY DEF Turns
        <5>2. Present = {} => Cardinality(Present) = 0
          BY FS_EmptySet
        <5> QED
          BY <2>card, <3>1, <4>1, <5>1, <5>2, RangeDone DEF Ranges
      <4> QED
        BY <2>6, <4>1 DEF Put
    <3>3. Capacity'
      BY <2>0, <2>6, <2>card, <3>2, PutAddsOne DEF Capacity
    <3> QED
      BY <2>0, <3>1, <3>3 DEF RoomInv, NoWrite
  <2>7. CASE LRUDone \/ Tick \/ UNCHANGED vars
    <3>1. Present' = Present /\ UNCHANGED pend
      BY <2>7 DEF LRUDone, Tick, vars, Present
    <3>2. (pc' = "idle" /\ pend = Nil) \/ UNCHANGED <<pc, n>>
      BY <2>7 DEF LRUDone, Tick, vars
    <3> QED
      BY <2>0, <3>1, <3>2 DEF RoomInv, NoWrite, Capacity
  <2> QED
    BY <2>1, <2>2, <2>3, <2>4, <2>5, <2>6, <2>7 DEF Next, Command, Internal
<1> QED
  BY <1>1, <1>2, PTL DEF Spec

\* The keyspace never holds more than KeysLimit keys, whatever the strategy: a
\* range loop makes room however small an eviction is, the pool when an
\* eviction drains it.
THEOREM KeyspaceWithinLimit == Drains \/ Ranges => (Spec => []Capacity)
<1>1. CapInv => Capacity
  BY DEF CapInv
<1>2. RoomInv => Capacity
  BY DEF RoomInv
<1> QED
  BY <1>1, <1>2, CapInvInductive, RoomInvInductive, PTL

\* The pool is empty between evictions and never holds a stale candidate.
THEOREM PoolNeverStale == Drains => (Spec => []PoolFresh)
<1>1. CapInv => PoolFresh
  BY DEF CapInv, PoolFresh, PoolIdle, PoolOk, PoolKeys, Fresh
<1> QED
  BY <1>1, CapInvInductive, PTL
-----------------------------------------------------------------------------
\* For how much an LRU eviction frees: each key offered is a new candidate, the
\* pool takes SampleSize keys or all there are, and each candidate evicted is
\* one stored key less.
SampleInv ==
  /\ CapInv
  /\ pc = "range" => EvictionStrategy # "allkeys-lru"
  /\ pend # Nil /\ pc = "populate" =>
       /\ todo \cap PoolKeys = {} /\ Present \subseteq todo \cup PoolKeys
       /\ Len(pool) + n = SampleSize
  /\ pend # Nil /\ pc = "pop" =>
       \/ Cardinality(Present) <= KeysLimit - SampleSize + Len(pool)
       \/ Present \subseteq PoolKeys

\* SampleInv holds throughout, if an eviction drains the pool.
LEMMA SampleInvInductive == Drains => (Spec => []SampleInv)
<1> SUFFICES ASSUME Drains PROVE Spec => []SampleInv
  OBVIOUS
<1>1. Init => pc = "idle"
  BY DEF Init
<1>2. SampleInv /\ CapInv' /\ [Next]_vars => SampleInv'
  <2> SUFFICES ASSUME SampleInv, CapInv', [Next]_vars PROVE SampleInv'
    OBVIOUS
  <2>0. TypeOK /\ TodoPresent /\ PoolOk /\ NoWrite /\ Cardinality(Present) <= KeysLimit
    BY DEF SampleInv, CapInv, TypeInv, Capacity
  <2>len. Len(pool) \in Nat /\ Cardinality(Present) \in Nat
    BY <2>0, KeysFinite DEF TypeOK, Present
  <2>1. CASE (Command \/ StartCron \/ expireSample) /\ ~evalLRU
    <3>1. pc' \in {"idle", "cron", "put"}
      BY <2>0, <2>1, CommandIsQuiet DEF Quiet
    <3> QED
      BY <3>1 DEF SampleInv
  <2>2. CASE evalLRU \/ (evict /\ EvictionStrategy # "allkeys-lru")
    <3>1. (pc' = "populate" /\ pend' = Nil) \/ (pc' = "range" /\ EvictionStrategy # "allkeys-lru")
      BY <2>0, <2>2 DEF evalLRU, evict, StartLRU, NoWrite
    <3> QED
      BY <3>1 DEF SampleInv
  <2>3. CASE evict /\ EvictionStrategy = "allkeys-lru"
    <3>1. /\ pc' = "populate" /\ todo' = Present /\ n' = SampleSize
          /\ UNCHANGED <<store, pool>> /\ pool = <<>>
      BY <2>3 DEF evict, StartLRU, SampleInv, CapInv, PoolIdle
    <3>2. PoolKeys' = {} /\ Present' = Present /\ Len(pool') = 0
      BY <3>1 DEF PoolKeys, Present
    <3> QED
      BY <3>1, <3>2 DEF SampleInv
  <2>4. CASE populateEvictionPool
    <3>1. /\ pc = "populate" /\ pc' = "populate" /\ ~Sampled /\ n' = n - 1
          /\ UNCHANGED <<store, pend>> /\ Present' = Present
      BY <2>4 DEF populateEvictionPool, Present
    <3> SUFFICES ASSUME pend # Nil
                 PROVE  /\ todo' \cap PoolKeys' = {} /\ Present' \subseteq todo' \cup PoolKeys'
                        /\ Len(pool') + n' = SampleSize
      BY <3>1 DEF SampleInv
    <3>2. PICK k \in todo : /\ Push(getCurrentClock(now), k, store[k].at)
                            /\ todo' = todo \ {k}
      BY <2>4 DEF populateEvictionPool
    <3>3. /\ todo \cap PoolKeys = {} /\ Present \subseteq todo \cup PoolKeys
          /\ Len(pool) + n = SampleSize /\ n \in Nat /\ n # 0
      BY <3>1 DEF SampleInv, CapInv, Filling, Sampled
    <3>4. k \notin keyset /\ Len(pool) < PoolSizeMax /\ k \in Keys /\ store[k].at \in Ticks
      <4>1. k \in Present
        BY <2>0, <3>1, <3>2 DEF TodoPresent
      <4>2. k \in Keys /\ store[k].at \in Ticks
        BY <2>0, <4>1 DEF Present, TypeOK, Obj
      <4>3. Len(pool) < PoolSizeMax
        BY <2>len, <3>3 DEF Drains
      <4> QED
        BY <2>0, <3>2, <3>3, <4>2, <4>3 DEF PoolOk
    <3>5. PICK i \in PoolItem : /\ pool' \in Sorted(getCurrentClock(now), Append(pool, i))
                                /\ keyset' = keyset \cup {k}
      <4>1. [key |-> k, at |-> store[k].at] \in PoolItem
        BY <3>4 DEF PoolItem
      <4> QED
        BY <2>len, <3>2, <3>4, <4>1 DEF Push
    <3>6. Len(pool') = Len(pool) + 1
      <4>1. Append(pool, i) \in Seq(PoolItem) /\ Len(Append(pool, i)) = Len(pool) + 1
        BY <2>0 DEF TypeOK
      <4> QED
        BY <3>5, <4>1, SortedPermutes
    <3>7. PoolKeys' = PoolKeys \cup {k}
      BY <2>0, <3>5 DEF PoolOk, CapInv
    <3> QED
      BY <2>len, <3>1, <3>2, <3>3, <3>6, <3>7
  <2>5. CASE StartEvicting
    <3>1. /\ pc = "populate" /\ pc' = "pop" /\ Sampled /\ UNCHANGED <<store, pend, pool>>
          /\ Present' = Present
      BY <2>5 DEF StartEvicting, Present
    <3> SUFFICES ASSUME pend # Nil
                 PROVE  \/ Cardinality(Present) <= KeysLimit - SampleSize + Len(pool)
                        \/ Present \subseteq PoolKeys
      BY <3>1 DEF SampleInv, PoolKeys
    <3>2. Present \subseteq todo \cup PoolKeys /\ Len(pool) + n = SampleSize
      BY <3>1 DEF SampleInv
    <3>3. CASE n = 0
      BY <2>0, <2>len, <3>2, <3>3
    <3>4. CASE todo = {}
      BY <3>2, <3>4
    <3> QED
      BY <3>1, <3>3, <3>4 DEF Sampled
  <2>6. CASE evictAllkeysLRU
    <3>1. pc = "pop" /\ pc' = "pop" /\ UNCHANGED pend /\ pool # <<>> /\ Pop /\ Del({Head(pool).key})
      BY <2>6 DEF evictAllkeysLRU
    <3>2. /\ PoolOk' /\ Len(pool') = Len(pool) - 1
          /\ Head(pool).key \in Present /\ Present' = Present \ {Head(pool).key}
      BY <2>0, <3>1, PopFromPool
    <3>3. Cardinality(Present') = Cardinality(Present) - 1
      BY <3>2, OneLess
    <3>4. PoolKeys' = PoolKeys \ {Head(pool).key}
      BY <2>0, <3>1, <3>2 DEF PoolOk, Pop
    <3> SUFFICES ASSUME pend # Nil
                 PROVE  \/ Cardinality(Present') <= KeysLimit - SampleSize + Len(pool')
                        \/ Present' \subseteq PoolKeys'
      BY <3>1 DEF SampleInv
    <3> QED
      BY <2>len, <3>1, <3>2, <3>3, <3>4 DEF SampleInv
  <2>7. CASE evictRange
    BY <2>7 DEF evictRange, SampleInv
  <2>8. CASE Put \/ LRUDone
    <3>1. pc' = "idle"
      BY <2>8 DEF Put, LRUDone
    <3> QED
      BY <3>1 DEF SampleInv
  <2>9. CASE Tick \/ UNCHANGED vars
    <3>1. UNCHANGED <<store, pool, todo, pc, n, pend>>
      BY <2>9 DEF Tick, vars
    <3> QED
      BY <3>1 DEF SampleInv, Present, PoolKeys
  <2> QED
    BY <2>1, <2>2, <2>3, <2>4, <2>5, <2>6, <2>7, <2>8, <2>9 DEF Next, Command, Internal
<1>3. CapInv /\ pc = "idle" => SampleInv
  BY DEF SampleInv
<1> QED
  BY <1>1, <1>2, <1>3, CapInvInductive, PTL DEF Spec

\* A configuration whose evictions are large enough for what eviction.go:18-19
\* says of them.  With KeysLimit = 100 the shipped EvictionRatio is enough for
\* allkeys-random (40 keys) and the shipped sample of 5 keys is too small for
\* allkeys-lru: that configuration satisfies Drains and not this.
FreesEnough ==
  /\ KeysLimit >= 1
  /\ IF EvictionStrategy = "allkeys-lru"
     THEN Drains /\ 10 * SampleSize >= KeysLimit
     ELSE 10 * Turns >= KeysLimit

\* In such a configuration a tenth of KeysLimit is free when an eviction made
\* for a write is done.
THEOREM EvictionFreesTenth == FreesEnough => (Spec => []FreesTenth)
<1>1. ASSUME FreesEnough, EvictionStrategy # "allkeys-lru", RoomInv PROVE FreesTenth
  <2> SUFFICES ASSUME pend # Nil, EvictDone PROVE 10 * Cardinality(Present) <= 9 * KeysLimit
    BY DEF FreesTenth
  <2>1. Cardinality(Present) <= KeysLimit - Turns \/ Present = {}
    BY <1>1, RangeDone DEF Ranges, FreesEnough
  <2>2. Turns \in Nat /\ Cardinality(Present) \in Nat /\ 10 * Turns >= KeysLimit
    BY <1>1, KeysFinite DEF Turns, Present, FreesEnough
  <2>3. Present = {} => Cardinality(Present) = 0
    BY FS_EmptySet
  <2> QED
    BY <2>1, <2>2, <2>3
<1>2. ASSUME FreesEnough, EvictionStrategy = "allkeys-lru", SampleInv PROVE FreesTenth
  <2> SUFFICES ASSUME pend # Nil, EvictDone PROVE 10 * Cardinality(Present) <= 9 * KeysLimit
    BY DEF FreesTenth
  <2>1. pool = <<>> /\ Drains /\ 10 * SampleSize >= KeysLimit
    BY <1>2, DoneStep DEF SampleInv, FreesEnough
  <2>2. PoolKeys = {} /\ Len(pool) = 0
    BY <2>1 DEF PoolKeys
  <2>3. Cardinality(Present) <= KeysLimit - SampleSize \/ Present = {}
    BY <1>2, <2>2 DEF SampleInv, EvictDone
  <2>4. Cardinality(Present) \in Nat /\ (Present = {} => Cardinality(Present) = 0)
    BY KeysFinite, FS_EmptySet DEF Present
  <2> QED
    BY <2>1, <2>3, <2>4
<1>3. FreesEnough /\ EvictionStrategy # "allkeys-lru" => Ranges
  BY DEF FreesEnough, Ranges
<1>4. FreesEnough /\ EvictionStrategy = "allkeys-lru" => Drains
  BY DEF FreesEnough
<1>5. FreesEnough /\ EvictionStrategy # "allkeys-lru" => (Spec => []FreesTenth)
  <2> SUFFICES ASSUME FreesEnough, EvictionStrategy # "allkeys-lru" PROVE Spec => []FreesTenth
    OBVIOUS
  <2>1. RoomInv => FreesTenth
    BY <1>1
  <2>2. Spec => []RoomInv
    BY <1>3, RoomInvInductive
  <2> QED
    BY <2>1, <2>2, PTL
<1>6. FreesEnough /\ EvictionStrategy = "allkeys-lru" => (Spec => []FreesTenth)
  <2> SUFFICES ASSUME FreesEnough, EvictionStrategy = "allkeys-lru" PROVE Spec => []FreesTenth
    OBVIOUS
  <2>1. SampleInv => FreesTenth
    BY <1>2
  <2>2. Spec => []SampleInv
    BY <1>4, SampleInvInductive
  <2> QED
    BY <2>1, <2>2, PTL
<1> QED
  BY <1>5, <1>6
-----------------------------------------------------------------------------
\* keyset covers the pool, which has one item per key, and no more than its
\* bound, whatever the sizes of the sample and of an eviction: here the pool
\* may keep candidates from one eviction to the next, and Push may drop them.
PoolGuard == PoolKeys \subseteq keyset /\ Distinct(pool) /\ Len(pool) <= PoolSizeMax

\* A sequence whose items have distinct keys has as many keys as items.
LEMMA DistinctCount ==
  ASSUME NEW S, NEW s \in Seq(S), Distinct(s)
  PROVE  Cardinality({s[i].key : i \in DOMAIN s}) = Len(s)
<1> DEFINE K == {s[i].key : i \in DOMAIN s}
           f == [i \in 1 .. Len(s) |-> s[i].key]
<1>1. Len(s) \in Nat /\ DOMAIN s = 1 .. Len(s)
  OBVIOUS
<1>2. f \in [1 .. Len(s) -> K] /\ \A i \in 1 .. Len(s) : f[i] = s[i].key
  BY <1>1
<1>3. \A i, j \in 1 .. Len(s) : f[i] = f[j] => i = j
  BY <1>1, <1>2 DEF Distinct
<1>4. \A x \in K : \E i \in 1 .. Len(s) : f[i] = x
  BY <1>1, <1>2
<1> HIDE DEF K, f
<1>5. f \in Bijection(1 .. Len(s), K)
  BY <1>2, <1>3, <1>4 DEF Bijection, Injection, Surjection, IsInjective
<1>6. ExistsBijection(1 .. Len(s), K)
  BY <1>5 DEF ExistsBijection
<1>7. Cardinality(K) = Len(s)
  BY <1>1, <1>6, FS_CountingElements
<1> QED
  BY <1>7 DEF K

\* A full pool drops its head and takes the new item at its end.
LEMMA Rotated ==
  ASSUME NEW S, NEW s \in Seq(S), s # <<>>, NEW x \in S, NEW t, t = Append(Tail(s), x)
  PROVE  \E m \in Nat \ {0} :
           /\ Len(s) = m /\ Len(t) = m /\ DOMAIN s = 1 .. m /\ DOMAIN t = 1 .. m
           /\ t[m] = x
           /\ \A i \in 1 .. m : i # m => i + 1 \in 1 .. m /\ t[i] = s[i + 1]
<1> DEFINE r == Tail(s)
<1>1. PICK m \in Nat \ {0} : Len(s) = m /\ DOMAIN s = 1 .. m
  OBVIOUS
<1>2. r \in Seq(S) /\ Len(r) = m - 1 /\ \A i \in 1 .. m - 1 : r[i] = s[i + 1]
  BY <1>1
<1> HIDE DEF r
<1>3. Len(Append(r, x)) = m /\ DOMAIN Append(r, x) = 1 .. m /\ Append(r, x)[m] = x
      /\ \A i \in 1 .. m - 1 : Append(r, x)[i] = r[i]
  BY <1>2
<1>4. \A i \in 1 .. m : i # m => i \in 1 .. m - 1 /\ i + 1 \in 1 .. m
  OBVIOUS
<1>5. t = Append(r, x)
  BY DEF r
<1>6. Len(t) = m /\ DOMAIN t = 1 .. m /\ t[m] = x /\ \A i \in 1 .. m - 1 : t[i] = r[i]
  BY ONLY <1>3, <1>5, Zenon
<1>7. \A i \in 1 .. m : i # m => i + 1 \in 1 .. m /\ t[i] = s[i + 1]
  BY ONLY <1>2, <1>4, <1>6, Zenon
<1> QED
  BY ONLY <1>1, <1>6, <1>7, Zenon

\* Push adds a key only if keyset does not have it: behind the test of line 35
\* there is no second item for a key.
LEMMA PushGuards ==
  ASSUME TypeOK, PoolGuard, NEW k \in Keys, NEW at \in Ticks, NEW c, Push(c, k, at)
  PROVE  PoolGuard'
<1> DEFINE item == [key |-> k, at |-> at]
           long == Append(pool, item)
<1>1. /\ pool \in Seq(PoolItem) /\ Len(pool) \in Nat /\ DOMAIN pool = 1 .. Len(pool)
      /\ item \in PoolItem /\ item.key = k /\ long \in Seq(PoolItem)
  BY DEF TypeOK, PoolItem
<1>2. /\ Len(long) = Len(pool) + 1 /\ DOMAIN long = 1 .. Len(pool) + 1
      /\ long[Len(pool) + 1] = item /\ \A i \in 1 .. Len(pool) : long[i] = pool[i]
  BY <1>1
<1>3. k \notin keyset => \A i \in 1 .. Len(pool) : pool[i].key # k
  BY <1>1 DEF PoolGuard, PoolKeys
<1>long. long = Append(pool, item)
  OBVIOUS
<1> HIDE DEF long, item
<1>4. CASE /\ k \notin keyset /\ Len(pool) < PoolSizeMax
           /\ pool' \in Sorted(c, long) /\ keyset' = keyset \cup {k}
  <2>1. Distinct(long)
    BY <1>1, <1>2, <1>3, <1>4 DEF PoolGuard, Distinct
  <2>2. Distinct(pool')
    BY <1>1, <1>4, <2>1, SortedDistinct
  <2>3. Len(pool') = Len(long) /\ \A i \in DOMAIN pool' : \E j \in DOMAIN long : pool'[i] = long[j]
    BY <1>1, <1>4, SortedPermutes
  <2>4. \A j \in DOMAIN long : long[j].key \in keyset \cup {k}
    BY <1>1, <1>2 DEF PoolGuard, PoolKeys
  <2>5. PoolKeys' \subseteq keyset'
    BY <1>4, <2>3, <2>4 DEF PoolKeys
  <2> QED
    BY <1>1, <1>2, <1>4, <2>2, <2>3, <2>5 DEF PoolGuard
<1>5. CASE /\ k \notin keyset /\ Len(pool) >= PoolSizeMax
           /\ pool' = Append(Tail(pool), item) /\ keyset' = keyset \cup {k}
  <2>1. pool # <<>>
    BY <1>1, <1>5
  <2>2. PICK m \in Nat \ {0} :
          /\ Len(pool) = m /\ Len(pool') = m /\ DOMAIN pool = 1 .. m /\ DOMAIN pool' = 1 .. m
          /\ pool'[m] = item
          /\ \A i \in 1 .. m : i # m => i + 1 \in 1 .. m /\ pool'[i] = pool[i + 1]
    <3>1. pool' = Append(Tail(pool), item) /\ pool \in Seq(PoolItem) /\ item \in PoolItem
      BY <1>1, <1>5, Zenon
    <3> QED
      BY ONLY <2>1, <3>1, Rotated, SMTT(60)
  <2>3. \A i \in 1 .. m : i # m => pool'[i].key # k /\ pool'[i].key \in keyset
    <3>1. \A i \in 1 .. m : pool[i].key \in keyset
      BY <2>2, Zenon DEF PoolGuard, PoolKeys
    <3> QED
      BY <1>5, <2>2, <3>1, Zenon
  <2>4. pool'[m].key = k
    BY <1>1, <2>2, Zenon
  <2>5. Distinct(pool')
    <3> SUFFICES ASSUME NEW i \in 1 .. m, NEW j \in 1 .. m, pool'[i].key = pool'[j].key
                 PROVE  i = j
      BY <2>2, Zenon DEF Distinct
    <3>1. CASE i # m /\ j # m
      <4>1. /\ i + 1 \in DOMAIN pool /\ j + 1 \in DOMAIN pool
            /\ pool'[i].key = pool[i + 1].key /\ pool'[j].key = pool[j + 1].key
        BY <2>2, <3>1, Zenon
      <4>2. i + 1 = j + 1
        BY <4>1, Zenon DEF PoolGuard, Distinct
      <4> QED
        BY ONLY <4>2, i \in 1 .. m, j \in 1 .. m, m \in Nat \ {0}
    <3>2. CASE i = m \/ j = m
      BY <2>3, <2>4, <3>2, Zenon
    <3> QED
      BY <3>1, <3>2
  <2>6. PoolKeys' \subseteq keyset'
    <3>1. \A i \in 1 .. m : pool'[i].key \in keyset'
      BY <1>5, <2>3, <2>4, Zenon
    <3> QED
      BY <2>2, <3>1, Zenon DEF PoolKeys
  <2>7. Len(pool') <= PoolSizeMax
    BY <2>2, Zenon DEF PoolGuard
  <2> QED
    BY <2>5, <2>6, <2>7, Zenon DEF PoolGuard
<1>6. CASE UNCHANGED <<pool, keyset>>
  BY <1>6 DEF PoolGuard, PoolKeys, Distinct
<1> QED
  BY <1>4, <1>5, <1>6, <1>long DEF Push, item

\* Pop forgets just the key of the item it takes.
LEMMA PopGuards ==
  ASSUME TypeOK, PoolGuard, pool # <<>>, Pop
  PROVE  PoolGuard'
<1>1. /\ pool \in Seq(PoolItem) /\ Len(pool) \in Nat \ {0} /\ DOMAIN pool = 1 .. Len(pool)
      /\ Head(pool) = pool[1]
  BY DEF TypeOK
<1>2. /\ pool' = Tail(pool) /\ Len(pool') = Len(pool) - 1 /\ DOMAIN pool' = 1 .. Len(pool) - 1
      /\ \A i \in DOMAIN pool' : i + 1 \in DOMAIN pool /\ pool'[i] = pool[i + 1]
  BY <1>1 DEF Pop
<1>3. \A i \in DOMAIN pool' : pool'[i].key # Head(pool).key
  <2> SUFFICES ASSUME NEW i \in DOMAIN pool' PROVE pool[i + 1].key # pool[1].key
    BY <1>1, <1>2
  <2>1. i + 1 \in DOMAIN pool /\ 1 \in DOMAIN pool /\ i + 1 # 1
    BY <1>1, <1>2
  <2> QED
    BY <2>1 DEF PoolGuard, Distinct
<1>4. PoolKeys' \subseteq keyset'
  BY <1>2, <1>3 DEF PoolGuard, PoolKeys, Pop
<1>5. Distinct(pool')
  BY <1>1, <1>2 DEF PoolGuard, Distinct
<1> QED
  BY <1>1, <1>2, <1>4, <1>5 DEF PoolGuard

\* The pool never holds a key twice, nor one keyset does not know, and stays
\* within ePoolSizeMax, in every configuration.
THEOREM PoolStaysGuarded == Spec => []PoolInv
<1> DEFINE Inv == TypeInv /\ PoolGuard
<1>1. Init => Inv
  BY DEF Init, TypeInv, TypeOK, TodoPresent, PoolGuard, PoolKeys, Distinct
<1>2. Inv /\ [Next]_vars => Inv'
  <2> SUFFICES ASSUME TypeInv, PoolGuard, [Next]_vars PROVE PoolGuard'
    BY TypeInvInductive
  <2>0. TypeOK
    BY DEF TypeInv
  <2>1. CASE populateEvictionPool
    <3>1. PICK k \in todo : Push(getCurrentClock(now), k, store[k].at)
      BY <2>1 DEF populateEvictionPool
    <3>2. k \in Keys /\ store[k].at \in Ticks
      BY <2>1, <3>1 DEF TypeInv, TodoPresent, populateEvictionPool, Present, TypeOK, Obj
    <3> QED
      BY <2>0, <3>1, <3>2, PushGuards
  <2>2. CASE evictAllkeysLRU
    BY <2>0, <2>2, PopGuards DEF evictAllkeysLRU
  <2>3. CASE UNCHANGED <<pool, keyset>>
    BY <2>3 DEF PoolGuard, PoolKeys, Distinct
  <2>4. populateEvictionPool \/ evictAllkeysLRU \/ UNCHANGED <<pool, keyset>>
    BY DEF Next, Command, Internal, vars, Tick, evalSET, evalGET, evalTTL,
       evalDEL, evalEXPIRE, evalINCR, evalINFO, evalLRU, StartLRU, evict,
       StartEvicting, evictRange, Put, LRUDone, StartCron, expireSample
  <2> QED
    BY <2>1, <2>2, <2>3, <2>4
<1>3. Inv => PoolInv
  <2> SUFFICES ASSUME TypeOK, PoolGuard PROVE PoolInv
    BY DEF TypeInv
  <2>1. Cardinality(PoolKeys) = Len(pool)
    BY DistinctCount DEF TypeOK, PoolGuard, PoolKeys
  <2> QED
    BY <2>1 DEF PoolGuard, PoolInv
<1> QED
  BY <1>1, <1>2, <1>3, PTL DEF Spec
-----------------------------------------------------------------------------
(***************************************************************************)
(* What happens to the keys: the counter of INFO never reports fewer keys  *)
(* than are stored, deadlines lose their owner only when a key is          *)
(* overwritten, a key is lost only for one of the three reasons the code   *)
(* has, and clients see VolatileMap.                                       *)
(***************************************************************************)

\* No key appears or goes, and each keeps its object.
Kept ==
  /\ Present' = Present /\ stat' = stat
  /\ \A k \in Present : store'[k].ptr = store[k].ptr

\* Why the keys of D are deleted.
Cause(D) ==
  \A k \in D \cap Present :
    \/ hasExpired(k, now')
    \/ last' # Nil /\ last'.cmd = "DEL" /\ k \in last'.keys
    \/ pc \in {"pop", "range"}

\* Keys are deleted, and no write begins or ends.
Deletes == pend' = pend /\ \E D \in SUBSET Keys : Del(D) /\ Cause(D)

\* The key a write may find expired is deleted and a new object is made.
Makes ==
  /\ pc = "idle"
  /\ \E o \in Objs \ InUse :
       /\ pend' # Nil /\ pend'.ptr = o
       /\ \/ \E k \in Keys : Del({k}) /\ Cause({k})
          \/ Kept /\ \A p \in Objs \ {o} : expires'[p] = expires[p]

\* A stored object gets a new deadline.
Dates ==
  /\ Kept /\ pend' = pend
  /\ \E k \in Present : \A p \in Objs \ {store[k].ptr} : expires'[p] = expires[p]
-----------------------------------------------------------------------------
\* A key that is not found is absent or has expired.
LEMMA LostHasExpired ==
  ASSUME TypeOK, NEW k \in Keys, ~Found(k), now' \in Readings
  PROVE  Cause({k})
<1> SUFFICES ASSUME k \in Present PROVE hasExpired(k, now')
  BY DEF Cause
<1>1. store[k].ptr \in Objs /\ now \in Nat /\ now' \in Int /\ now' >= now
  BY SMTT(60) DEF TypeOK, Present, Obj, Readings
<1>2. expires[store[k].ptr] # Nil /\ expires[store[k].ptr] <= now
  BY DEF Found, hasExpired
<1>3. expires[store[k].ptr] \in Nat
  BY <1>1, <1>2 DEF TypeOK, Deadline
<1> QED
  BY <1>1, <1>2, <1>3 DEF hasExpired

\* Stamping keeps every key and its object.
LEMMA TouchKeeps ==
  ASSUME TypeOK, NEW k \in Keys, Found(k), Touch(k), UNCHANGED stat
  PROVE  Kept
<1>1. Present' = Present
  BY TouchPresent
<1>2. \A j \in Present : store[j] \in Obj
  BY DEF TypeOK, Present
<1>3. \A j \in Present : store'[j].ptr = store[j].ptr
  BY <1>2 DEF Touch, TypeOK, Present, Obj
<1> QED
  BY <1>1, <1>3 DEF Kept

\* Every step but Put is of one of four kinds.
LEMMA StepKinds ==
  ASSUME TypeInv, [Next]_vars
  PROVE  Put \/ Deletes \/ Makes \/ Dates \/ (Kept /\ UNCHANGED <<expires, pend>>)
<1>0. TypeOK /\ now \in Readings
  BY DEF TypeInv, TypeOK, Readings
<1>1. ASSUME NEW k \in Keys, NEW v \in Values, NEW d \in Secs, evalSET(k, v, d) PROVE Makes
  <2>1. Kept /\ pc = "idle"
    BY <1>1 DEF evalSET, Kept, Present
  <2>2. PICK o \in Objs \ InUse :
          NewObj(o, d) /\ pend' = [cmd |-> "SET", key |-> k, ptr |-> o, val |-> v]
    BY <1>1 DEF evalSET
  <2>3. pend' # Nil /\ pend'.ptr = o
    BY <2>2 DEF Write
  <2>4. \A p \in Objs \ {o} : expires'[p] = expires[p]
    BY <1>0, <2>2 DEF NewObj, TypeOK
  <2> QED
    BY <2>1, <2>3, <2>4 DEF Makes
<1>2. ASSUME NEW k \in Keys, evalGET(k) \/ evalTTL(k)
      PROVE  Deletes \/ (Kept /\ UNCHANGED <<expires, pend>>)
  <2>1. CASE Found(k)
    BY <1>0, <1>2, <2>1, TouchKeeps DEF evalGET, evalTTL
  <2>2. CASE ~Found(k)
    <3>1. Del({k}) /\ now' \in Readings /\ UNCHANGED pend
      BY <1>2, <2>2 DEF evalGET, evalTTL
    <3> QED
      BY <1>0, <2>2, <3>1, LostHasExpired DEF Deletes
  <2> QED
    BY <2>1, <2>2
<1>3. ASSUME NEW k \in Keys, NEW d \in Secs, evalEXPIRE(k, d) PROVE Deletes \/ Dates
  <2>1. CASE Found(k)
    <3>1. /\ Touch(k) /\ UNCHANGED <<stat, pend>>
          /\ expires' = [expires EXCEPT ![store[k].ptr] = Expiry(now', d)]
      BY <1>3, <2>1 DEF evalEXPIRE
    <3>2. k \in Present
      BY <2>1 DEF Found
    <3>3. Kept
      BY <1>0, <2>1, <3>1, TouchKeeps
    <3>4. \A p \in Objs \ {store[k].ptr} : expires'[p] = expires[p]
      BY <1>0, <3>1 DEF TypeOK
    <3> QED
      BY <3>1, <3>2, <3>3, <3>4 DEF Dates
  <2>2. CASE ~Found(k)
    <3>1. Del({k}) /\ now' \in Readings /\ UNCHANGED pend
      BY <1>0, <1>3, <2>2 DEF evalEXPIRE
    <3> QED
      BY <1>0, <2>2, <3>1, LostHasExpired DEF Deletes
  <2> QED
    BY <2>1, <2>2
<1>4. ASSUME NEW k \in Keys, evalINCR(k)
      PROVE  Makes \/ (Kept /\ UNCHANGED <<expires, pend>>)
  <2>1. CASE Found(k) /\ assertEncoding(k)
    <3>1. /\ UNCHANGED <<expires, stat, pend>>
          /\ store' = [store EXCEPT ![k].at = getCurrentClock(now),
                                    ![k].val = Increment(store[k].val)]
      BY <1>4, <2>1 DEF evalINCR
    <3>2. store[k] \in Obj /\ getCurrentClock(now) \in Ticks /\ Increment(store[k].val) \in Values
      BY <1>0, <2>1, TouchType, ClockType, IncrementType DEF Values, assertEncoding, TypeOK
    <3>3. store'[k] \in Obj /\ store'[k].ptr = store[k].ptr
      BY <1>0, <3>1, <3>2 DEF TypeOK, Obj
    <3>4. \A j \in Keys : j # k => store'[j] = store[j]
      BY <1>0, <3>1 DEF TypeOK
    <3>5. \A j \in Keys : store'[j] = Nil <=> store[j] = Nil
      BY <3>2, <3>3, <3>4
    <3>6. \A j \in Keys : store'[j].ptr = store[j].ptr
      BY <3>3, <3>4
    <3> QED
      BY <3>1, <3>5, <3>6 DEF Kept, Present
  <2>2. CASE Found(k) /\ ~assertEncoding(k)
    <3>1. Touch(k) /\ UNCHANGED <<expires, stat, pend>>
      BY <1>4, <2>2 DEF evalINCR
    <3> QED
      BY <1>0, <2>2, <3>1, TouchKeeps
  <2>3. CASE ~Found(k)
    <3>1. pc = "idle" /\ Del({k}) /\ UNCHANGED now
      BY <1>4, <2>3 DEF evalINCR
    <3>2. PICK o \in Objs \ InUse :
            pend' = [cmd |-> "INCR", key |-> k, ptr |-> o, val |-> Increment(0)]
      BY <1>4, <2>3 DEF evalINCR
    <3>3. pend' # Nil /\ pend'.ptr = o
      <4>1. Increment(0) \in Values
        BY IncrementType DEF Values, Ints
      <4> QED
        BY <3>2, <4>1 DEF Write
    <3>4. Cause({k})
      BY <1>0, <2>3, <3>1, LostHasExpired
    <3> QED
      BY <3>1, <3>3, <3>4 DEF Makes
  <2> QED
    BY <2>1, <2>2, <2>3
<1>5. ASSUME NEW D \in SUBSET Keys, evalDEL(D) PROVE Deletes
  <2>1. Del(D) /\ UNCHANGED pend /\ last' # Nil /\ last'.cmd = "DEL" /\ last'.keys = D
    <3>1. Reply("DEL", D, Cardinality(D \cap Present)) /\ Del(D) /\ UNCHANGED pend
      BY <1>5 DEF evalDEL
    <3>2. last' = [cmd |-> "DEL", keys |-> D, reply |-> Cardinality(D \cap Present)]
      BY <3>1 DEF Reply
    <3>3. Cardinality(D \cap Present) \in Int
      BY KeysFinite
    <3>4. last' \in Answer
      BY <3>2, <3>3 DEF Answer, Commands
    <3> QED
      BY <3>1, <3>2, <3>4
  <2> QED
    BY <2>1 DEF Deletes, Cause
<1>6. CASE evalINFO \/ evalLRU \/ evict \/ populateEvictionPool \/ StartEvicting \/ LRUDone
        \/ StartCron \/ Tick \/ UNCHANGED vars
  BY <1>6, SMTT(60) DEF Kept, Present, evalINFO, evalLRU, evict, StartLRU, populateEvictionPool,
     StartEvicting, LRUDone, StartCron, Tick, vars
<1>7. CASE evictAllkeysLRU \/ evictRange
  <2>1. pc \in {"pop", "range"} /\ UNCHANGED pend /\ \E k \in Keys : Del({k})
    <3>1. CASE evictAllkeysLRU
      <4>1. Pop /\ pool # <<>>
        BY <3>1 DEF evictAllkeysLRU
      <4>2. Head(pool).key \in Keys
        BY <1>0, <4>1, PopType
      <4> QED
        BY <3>1, <4>2 DEF evictAllkeysLRU
    <3>2. CASE evictRange
      BY <3>2 DEF evictRange, Present
    <3> QED
      BY <1>7, <3>1, <3>2
  <2> QED
    BY <2>1 DEF Deletes, Cause
<1>8. CASE expireSample
  <2>1. PICK S \in SUBSET Present : \E D \in SUBSET {k \in S : hasExpired(k, now')} : Del(D)
    BY <1>8 DEF expireSample
  <2>2. PICK D \in SUBSET {k \in S : hasExpired(k, now')} : Del(D)
    BY <2>1
  <2>3. D \in SUBSET Keys /\ Cause(D)
    BY DEF Present, Cause
  <2>4. UNCHANGED pend
    BY <1>8 DEF expireSample
  <2> QED
    BY <2>2, <2>3, <2>4 DEF Deletes
<1> QED
  BY <1>1, <1>2, <1>3, <1>4, <1>5, <1>6, <1>7, <1>8 DEF Next, Command, Internal
-----------------------------------------------------------------------------
\* Del takes as many keys off the counter as off the store.
LEMMA DelCounts ==
  ASSUME TypeOK, NEW D \in SUBSET Keys, Del(D), StatBound
  PROVE  StatBound'
<1>1. Present' = Present \ D /\ stat' = stat - Cardinality(D \cap Present)
  BY DelPresent DEF Del
<1>2. IsFiniteSet(Present) /\ Cardinality(Present) \in Nat /\ Cardinality(D \cap Present) \in Nat
  BY KeysFinite DEF Present
<1>3. Present \cap D = D \cap Present
  OBVIOUS
<1>4. Cardinality(Present \ D) = Cardinality(Present) - Cardinality(D \cap Present)
  BY <1>2, <1>3, FS_Difference
<1> QED
  BY <1>1, <1>2, <1>4 DEF StatBound, TypeOK

\* Put stores under the one key of the write.
LEMMA PutPresent ==
  ASSUME TypeOK, Put
  PROVE  /\ pend \in Write /\ pend' = Nil /\ UNCHANGED expires
         /\ Present' = Present \cup {pend.key}
         /\ store'[pend.key].ptr = pend.ptr
         /\ \A k \in Keys : k # pend.key => store'[k] = store[k]
<1>1. /\ pend \in Write /\ pend' = Nil /\ UNCHANGED expires
      /\ store' = [store EXCEPT ![pend.key] =
                     [ptr |-> pend.ptr, val |-> pend.val, at |-> getCurrentClock(now)]]
  BY DEF Put, TypeOK
<1>2. getCurrentClock(now) \in Ticks
  BY ClockType DEF TypeOK
<1>3. [ptr |-> pend.ptr, val |-> pend.val, at |-> getCurrentClock(now)] \in Obj
  BY <1>1, <1>2 DEF Write, Obj
<1>4. /\ pend.key \in Keys /\ store'[pend.key] \in Obj /\ store'[pend.key].ptr = pend.ptr
      /\ \A k \in Keys : k # pend.key => store'[k] = store[k]
  BY <1>1, <1>3 DEF TypeOK, Write
<1>5. Present' = Present \cup {pend.key}
  BY <1>4 DEF Present
<1> QED
  BY <1>1, <1>4, <1>5

\* The counter of INFO drifts upwards only.
THEOREM InfoNeverReportsLess == Spec => []StatBound
<1> DEFINE Inv == TypeInv /\ StatBound
<1>1. Init => Inv
  <2> SUFFICES ASSUME Init PROVE Inv
    OBVIOUS
  <2>1. TypeInv
    BY DEF Init, TypeInv, TypeOK, TodoPresent
  <2>2. Present = {} /\ stat = 0
    BY DEF Init, Present
  <2> QED
    BY <2>1, <2>2, FS_EmptySet DEF StatBound
<1>2. Inv /\ [Next]_vars => Inv'
  <2> SUFFICES ASSUME TypeInv, StatBound, [Next]_vars PROVE Inv'
    OBVIOUS
  <2>0. TypeOK /\ TypeInv'
    BY TypeInvInductive DEF TypeInv
  <2> SUFFICES StatBound'
    BY <2>0
  <2>1. ASSUME NEW D \in SUBSET Keys, Del(D) PROVE StatBound'
    BY <2>0, <2>1, DelCounts
  <2>2. CASE Kept
    BY <2>2 DEF Kept, StatBound
  <2>3. CASE Put
    <3>1. Present' = Present \cup {pend.key} /\ stat' = stat + 1
      BY <2>0, <2>3, PutPresent DEF Put
    <3>2. IsFiniteSet(Present) /\ Cardinality(Present) \in Nat
      BY KeysFinite DEF Present
    <3>3. Cardinality(Present \cup {pend.key})
            = IF pend.key \in Present THEN Cardinality(Present) ELSE Cardinality(Present) + 1
      BY <3>2, FS_AddElement, Zenon
    <3> QED
      BY <2>0, <3>1, <3>2, <3>3, SMTT(60) DEF StatBound, TypeOK
  <2> QED
    BY <2>1, <2>2, <2>3, StepKinds DEF Deletes, Makes, Dates
<1>3. Inv => StatBound
  OBVIOUS
<1> QED
  BY <1>1, <1>2, <1>3, PTL DEF Spec
-----------------------------------------------------------------------------
\* Between commands no write is pending, and every pending write has a key
\* that is as full as the eviction it made needs: Budget - n keys at most have
\* been deleted since the keyspace was full.
LossInv ==
  /\ TypeInv /\ NoWrite
  /\ pend # Nil =>
       /\ pc \in {"populate", "pop"} => EvictionStrategy = "allkeys-lru"
       /\ pc = "populate" => Cardinality(Present) >= KeysLimit
       /\ pc \in {"pop", "range"} => Cardinality(Present) + (Budget - n) >= KeysLimit

\* Deleting one key lowers the number of keys by one at most.
LEMMA OneDeleted ==
  ASSUME NEW k \in Keys, Del({k})
  PROVE  Cardinality(Present') \in Nat /\ Cardinality(Present') >= Cardinality(Present) - 1
<1>1. Present' = Present \ {k}
  BY DelPresent
<1>2. IsFiniteSet(Present) /\ Cardinality(Present) \in Nat
  BY KeysFinite DEF Present
<1>3. Cardinality(Present \ {k})
        = IF k \in Present THEN Cardinality(Present) - 1 ELSE Cardinality(Present)
  BY <1>2, FS_RemoveElement, Zenon
<1>4. Cardinality(Present') \in Nat
  BY <1>1, KeysFinite DEF Present
<1> QED
  BY <1>1, <1>2, <1>3, <1>4

\* Every step preserves LossInv.
LEMMA LossInvInductive == LossInv /\ [Next]_vars => LossInv'
<1> SUFFICES ASSUME LossInv, [Next]_vars PROVE LossInv'
  OBVIOUS
<1>0. TypeOK /\ TypeInv /\ TypeInv' /\ NoWrite
  BY TypeInvInductive DEF LossInv, TypeInv
<1>1. CASE \/ Tick \/ evalINFO \/ UNCHANGED vars
  <2>1. UNCHANGED <<store, pc, n, pend>> /\ Present' = Present
    BY <1>1 DEF Tick, evalINFO, vars, Present
  <2> QED
    BY <1>0, <2>1 DEF LossInv, NoWrite, Budget
<1>2. CASE \/ \E k \in Keys, v \in Values, d \in Secs : evalSET(k, v, d)
           \/ \E k \in Keys : evalGET(k) \/ evalTTL(k) \/ evalINCR(k)
           \/ \E k \in Keys, d \in Secs : evalEXPIRE(k, d)
           \/ \E D \in SUBSET Keys : evalDEL(D)
  <2>1. pc = "idle" /\ ((pc' = "idle" /\ pend' = pend) \/ pc' = "put")
    <3>1. CASE \E k \in Keys, v \in Values, d \in Secs : evalSET(k, v, d)
      BY <3>1 DEF evalSET
    <3>2. CASE \E k \in Keys : evalGET(k) \/ evalTTL(k)
      BY <3>2 DEF evalGET, evalTTL
    <3>3. CASE \E k \in Keys : evalINCR(k)
      BY <3>3 DEF evalINCR
    <3>4. CASE \E k \in Keys, d \in Secs : evalEXPIRE(k, d)
      BY <3>4 DEF evalEXPIRE
    <3>5. CASE \E D \in SUBSET Keys : evalDEL(D)
      BY <3>5 DEF evalDEL
    <3> QED
      BY <1>2, <3>1, <3>2, <3>3, <3>4, <3>5
  <2> QED
    BY <1>0, <2>1 DEF LossInv, NoWrite
<1>3. CASE Put \/ LRUDone \/ StartCron \/ expireSample
  <2>1. /\ pc' \in {"idle", "cron"} /\ pend' = Nil
    BY <1>0, <1>3 DEF Put, LRUDone, StartCron, expireSample, NoWrite
  <2> QED
    BY <1>0, <2>1 DEF LossInv, NoWrite
<1>4. CASE evalLRU \/ evict
  <2>1. UNCHANGED <<store, pend>> /\ Present' = Present
    BY <1>4 DEF evalLRU, evict, StartLRU, Present
  <2>2. CASE evalLRU
    <3>1. pc' = "populate" /\ pend' = Nil
      BY <1>0, <2>1, <2>2 DEF evalLRU, StartLRU, NoWrite
    <3> QED
      BY <1>0, <3>1 DEF LossInv, NoWrite
  <2>3. CASE evict /\ EvictionStrategy = "allkeys-lru"
    <3>1. pc' = "populate" /\ Cardinality(Present) >= KeysLimit
      BY <2>3 DEF evict, StartLRU
    <3> QED
      BY <1>0, <2>1, <2>3, <3>1 DEF LossInv, NoWrite
  <2>4. CASE evict /\ EvictionStrategy # "allkeys-lru"
    <3>1. /\ pc' = "range" /\ Cardinality(Present) >= KeysLimit
          /\ n' = IF EvictionStrategy = "simple-first" \/ EvictCount < 1 THEN 1 ELSE EvictCount
      BY <2>4 DEF evict
    <3>2. Budget' = n' /\ n' \in Int
      BY <3>1 DEF Budget
    <3>3. Cardinality(Present) \in Nat
      BY KeysFinite DEF Present
    <3> QED
      BY <1>0, <2>1, <3>1, <3>2, <3>3 DEF LossInv, NoWrite
  <2> QED
    BY <1>4, <2>2, <2>3, <2>4
<1>5. CASE populateEvictionPool
  <2>1. UNCHANGED <<store, pend>> /\ Present' = Present /\ pc = "populate" /\ pc' = "populate"
    BY <1>5 DEF populateEvictionPool, Present
  <2> QED
    BY <1>0, <2>1 DEF LossInv, NoWrite
<1>6. CASE StartEvicting
  <2>1. /\ UNCHANGED <<store, pend>> /\ Present' = Present /\ pc = "populate" /\ pc' = "pop"
        /\ n' = EvictCount
    BY <1>6 DEF StartEvicting, Present
  <2>2. pend # Nil => Budget' = EvictCount
    BY <2>1 DEF LossInv, Budget
  <2>3. Cardinality(Present) \in Nat
    BY KeysFinite DEF Present
  <2> QED
    BY <1>0, <2>1, <2>2, <2>3 DEF LossInv, NoWrite
<1>7. CASE evictAllkeysLRU \/ evictRange
  <2>1. /\ pc \in {"pop", "range"} /\ pc' = pc /\ n' = n - 1 /\ pend' = pend
    BY <1>7 DEF evictAllkeysLRU, evictRange
  <2>2. PICK k \in Keys : Del({k})
    <3>1. CASE evictAllkeysLRU
      <4>1. Head(pool).key \in Keys
        BY <1>0, <3>1, PopType DEF evictAllkeysLRU
      <4> QED
        BY <3>1, <4>1 DEF evictAllkeysLRU
    <3>2. CASE evictRange
      BY <3>2 DEF evictRange, Present
    <3> QED
      BY <1>7, <3>1, <3>2
  <2>3. /\ Cardinality(Present) \in Nat /\ Cardinality(Present') \in Nat
        /\ Cardinality(Present') >= Cardinality(Present) - 1
    BY <2>2, OneDeleted, KeysFinite DEF Present
  <2>4. Budget' = Budget /\ Budget \in Int /\ n \in Int
    BY <1>0, <2>1 DEF Budget, TypeOK
  <2> QED
    BY <1>0, <2>1, <2>3, <2>4 DEF LossInv, NoWrite
<1> QED
  BY <1>1, <1>2, <1>3, <1>4, <1>5, <1>6, <1>7 DEF Next, Command, Internal

\* A key is lost only once it has expired, to a DEL that names it, or to an
\* eviction, and a write evicts only when the keyspace was full.
THEOREM EveryLossHasACause == Spec => LossHasCause
<1>1. Init => LossInv
  BY DEF Init, LossInv, TypeInv, TypeOK, TodoPresent, NoWrite
<1>2. ASSUME LossInv, [Next]_vars, NEW k \in Present, store'[k] = Nil
      PROVE  \/ hasExpired(k, now')
             \/ last' # Nil /\ last'.cmd = "DEL" /\ k \in last'.keys
             \/ pc \in {"pop", "range"}
                /\ (pend # Nil => Cardinality(Present) + (Budget - n) >= KeysLimit)
  <2>0. TypeOK /\ TypeInv /\ k \in Keys
    BY <1>2 DEF LossInv, TypeInv, Present
  <2>1. k \notin Present'
    BY <1>2 DEF Present
  <2>2. ASSUME NEW D \in SUBSET Keys, Del(D), Cause(D)
        PROVE  \/ hasExpired(k, now')
               \/ last' # Nil /\ last'.cmd = "DEL" /\ k \in last'.keys
               \/ pc \in {"pop", "range"}
    <3>1. k \in D
      BY <2>1, <2>2, DelPresent
    <3> QED
      BY <2>2, <3>1 DEF Cause
  <2>3. ~Put /\ ~Kept
    BY <2>0, <2>1, PutPresent DEF Kept
  <2>4. \/ hasExpired(k, now')
        \/ last' # Nil /\ last'.cmd = "DEL" /\ k \in last'.keys
        \/ pc \in {"pop", "range"}
    BY <1>2, <2>0, <2>2, <2>3, StepKinds DEF Deletes, Makes, Dates
  <2> QED
    BY <1>2, <2>4 DEF LossInv
<1>3. LossInv /\ [Next]_vars => \A k \in Present : store'[k] = Nil =>
        \/ hasExpired(k, now')
        \/ last' # Nil /\ last'.cmd = "DEL" /\ k \in last'.keys
        \/ pc \in {"pop", "range"}
           /\ (pend # Nil => Cardinality(Present) + (Budget - n) >= KeysLimit)
  BY <1>2
<1> QED
  BY <1>1, <1>3, LossInvInductive, PTL DEF Spec, LossHasCause
-----------------------------------------------------------------------------
\* Del forgets the deadlines of the keys it deletes and of no other object, so
\* the entries without an owner stay what they were.
LEMMA DelOrphans ==
  ASSUME TypeOK, NEW D \in SUBSET Keys, Del(D)
  PROVE  /\ \A o \in Objs : expires'[o] # Nil =>
              expires[o] # Nil /\ ~ \E k \in D \cap Present : store[k].ptr = o
         /\ \A o \in Objs : expires[o] # Nil /\ ~ (\E k \in Present : store[k].ptr = o)
              => expires'[o] = expires[o]
         /\ {store'[k].ptr : k \in Present'} \subseteq {store[k].ptr : k \in Present}
         /\ \A k \in Present \ D : k \in Present' /\ store'[k] = store[k]
<1>1. Present' = Present \ D /\ \A k \in Present' : store'[k] = store[k]
  BY DelPresent
<1>2. \A o \in Objs : expires'[o] =
         IF \E k \in D \cap Present : store[k].ptr = o THEN Nil ELSE expires[o]
  BY DEF Del
<1> QED
  BY <1>1, <1>2

\* Between commands no write is pending.
LEMMA NoWriteStep == NoWrite /\ [Next]_vars => NoWrite'
BY DEF NoWrite, Next, Command, Internal, vars, Tick, evalSET, evalGET, evalTTL,
   evalDEL, evalEXPIRE, evalINCR, evalINFO, evalLRU, StartLRU, evict, populateEvictionPool,
   StartEvicting, evictAllkeysLRU, evictRange, Put, LRUDone, StartCron, expireSample

\* Entries of expires lose their owner when Put overwrites a key and at no
\* other step, and none is adopted again.
THEOREM OnlyOverwritesLeak == Spec => OrphansOnlyByOverwrite
<1> DEFINE Inv == TypeInv /\ NoWrite
           Step == /\ Orphans \subseteq Orphans'
                   /\ Orphans' # Orphans =>
                        /\ pend # Nil /\ pend' = Nil /\ pend.key \in Present
                        /\ Orphans' = Orphans \cup {store[pend.key].ptr}
<1>1. Init => Inv
  BY DEF Init, TypeInv, TypeOK, TodoPresent, NoWrite
<1>2. Inv /\ [Next]_vars => NoWrite'
  BY NoWriteStep
<1>3. Inv /\ [Next]_vars => Step
  <2> SUFFICES ASSUME TypeInv, NoWrite, [Next]_vars PROVE Step
    OBVIOUS
  <2>0. TypeOK /\ \A k \in Present : k \in Keys /\ store[k].ptr \in Objs
    BY DEF TypeInv, TypeOK, Present, Obj
  <2> DEFINE Ptrs == {store[k].ptr : k \in Present}
  <2>1. CASE Deletes
    <3>1. PICK D \in SUBSET Keys : Del(D)
      BY <2>1 DEF Deletes
    <3>2. pend' = pend
      BY <2>1 DEF Deletes
    <3>3. Orphans \subseteq Orphans'
      <4> SUFFICES ASSUME NEW o \in Orphans PROVE o \in Orphans'
        OBVIOUS
      <4>1. expires[o] # Nil /\ ~ \E k \in Present : store[k].ptr = o
        BY DEF Orphans, Owned
      <4>2. expires'[o] # Nil /\ ~ \E k \in Present' : store'[k].ptr = o
        BY <2>0, <3>1, <4>1, DelOrphans DEF Orphans
      <4> QED
        BY <3>2, <4>2 DEF Orphans, Owned
    <3>4. Orphans' \subseteq Orphans
      <4> SUFFICES ASSUME NEW o \in Orphans' PROVE o \in Orphans
        OBVIOUS
      <4>1. expires[o] # Nil /\ ~ \E k \in D \cap Present : store[k].ptr = o
        BY <2>0, <3>1, DelOrphans DEF Orphans
      <4>2. ~ \E k \in Present \ D : store[k].ptr = o
        BY <2>0, <3>1, DelOrphans DEF Orphans, Owned
      <4> QED
        BY <3>2, <4>1, <4>2 DEF Orphans, Owned
    <3> QED
      BY <3>3, <3>4
  <2>2. CASE Makes
    <3>1. PICK o \in Objs \ InUse :
            /\ pend' # Nil /\ pend'.ptr = o
            /\ \/ \E k \in Keys : Del({k})
               \/ Kept /\ \A p \in Objs \ {o} : expires'[p] = expires[p]
      BY <2>2 DEF Makes
    <3>2. pend = Nil /\ expires[o] = Nil /\ ~ \E k \in Present : store[k].ptr = o
      BY <2>2, <3>1 DEF Makes, NoWrite, InUse
    <3>3. CASE \E k \in Keys : Del({k})
      <4>1. PICK k \in Keys : Del({k})
        BY <3>3
      <4>2. Orphans \subseteq Orphans'
        <5> SUFFICES ASSUME NEW p \in Orphans PROVE p \in Orphans'
          OBVIOUS
        <5>1. expires[p] # Nil /\ ~ \E j \in Present : store[j].ptr = p
          BY DEF Orphans, Owned
        <5>2. expires'[p] = expires[p]
          BY <2>0, <4>1, <5>1, DelOrphans DEF Orphans
        <5>3. {store'[j].ptr : j \in Present'} \subseteq {store[j].ptr : j \in Present}
          BY <2>0, <4>1, DelOrphans
        <5>4. ~ \E j \in Present' : store'[j].ptr = p
          BY <5>1, <5>3
        <5> QED
          BY <3>1, <3>2, <5>1, <5>2, <5>4 DEF Orphans, Owned
      <4>3. Orphans' \subseteq Orphans
        <5> SUFFICES ASSUME NEW p \in Orphans' PROVE p \in Orphans
          OBVIOUS
        <5>1. expires[p] # Nil /\ ~ \E j \in {k} \cap Present : store[j].ptr = p
          BY <2>0, <4>1, DelOrphans DEF Orphans
        <5>2. ~ \E j \in Present \ {k} : store[j].ptr = p
          BY <2>0, <4>1, DelOrphans DEF Orphans, Owned
        <5> QED
          BY <3>2, <5>1, <5>2 DEF Orphans, Owned
      <4> QED
        BY <4>2, <4>3
    <3>4. CASE Kept /\ \A p \in Objs \ {o} : expires'[p] = expires[p]
      <4>1. Owned' = Owned \cup {o}
        BY <3>1, <3>2, <3>4 DEF Owned, Kept
      <4>2. Orphans' = Orphans
        BY <3>2, <3>4, <4>1 DEF Orphans
      <4> QED
        BY <4>2
    <3> QED
      BY <3>1, <3>3, <3>4
  <2>3. CASE Dates
    <3>1. PICK k \in Present : \A p \in Objs \ {store[k].ptr} : expires'[p] = expires[p]
      BY <2>3 DEF Dates
    <3>2. Owned' = Owned /\ store[k].ptr \in Owned
      BY <2>3 DEF Dates, Kept, Owned
    <3> QED
      BY <3>1, <3>2 DEF Orphans
  <2>4. CASE Kept /\ UNCHANGED <<expires, pend>>
    <3>1. Owned' = Owned
      BY <2>4 DEF Kept, Owned
    <3> QED
      BY <2>4, <3>1 DEF Orphans
  <2>5. CASE Put
    <3>1. /\ pend \in Write /\ pend' = Nil /\ UNCHANGED expires
          /\ Present' = Present \cup {pend.key}
          /\ store'[pend.key].ptr = pend.ptr
          /\ \A k \in Keys : k # pend.key => store'[k] = store[k]
      BY <2>0, <2>5, PutPresent
    <3>2. pend # Nil /\ pend.key \in Keys
      BY <3>1 DEF Write
    <3>3. Owned' = {store[k].ptr : k \in Present \ {pend.key}} \cup {pend.ptr}
      BY <2>0, <3>1, <3>2 DEF Owned
    <3>4. Owned = Ptrs \cup {pend.ptr}
      BY <3>2 DEF Owned
    <3>5. Owned' \subseteq Owned
      BY <3>3, <3>4
    <3>6. Orphans \subseteq Orphans'
      BY <3>1, <3>5 DEF Orphans
    <3>7. CASE pend.key \in Present
      <4>1. Owned \subseteq Owned' \cup {store[pend.key].ptr}
        BY <3>3, <3>4, <3>7
      <4> QED
        BY <3>1, <3>2, <3>6, <3>7, <4>1 DEF Orphans
    <3>8. CASE pend.key \notin Present
      <4>1. Owned' = Owned
        BY <3>3, <3>4, <3>8
      <4> QED
        BY <3>1, <4>1 DEF Orphans
    <3> QED
      BY <3>7, <3>8
  <2> QED
    BY <2>1, <2>2, <2>3, <2>4, <2>5, StepKinds
<1>4. TypeInv /\ [Next]_vars => TypeInv'
  BY TypeInvInductive
<1> QED
  BY <1>1, <1>2, <1>3, <1>4, PTL DEF Spec, OrphansOnlyByOverwrite
-----------------------------------------------------------------------------
\* Every deadline the server computes fits in 64 bits: what a client asks with
\* a larger EX or EXPIRE wraps, and VolatileMap has no such deadline.
NoWrap == \A t \in Start .. MaxNow, d \in Secs : t + d * MsPerSec \in Deadline

\* No object is stored under two keys, and the object a write has made is not
\* stored yet: deadlines are kept by address, so they would be shared.
OnePtr ==
  /\ \A j, k \in Present : store[j].ptr = store[k].ptr => j = k
  /\ pend # Nil => \A k \in Present : store[k].ptr # pend.ptr

RefInv == TypeInv /\ NoWrite /\ StatBound /\ OnePtr

\* The object k has at time t, as a client sees it.
Alive(k, t) == k \in Present /\ ~hasExpired(k, t)

\* What the map has under each key, in this state and in the next.
LEMMA MapAt ==
  ASSUME TypeOK
  PROVE  \A k \in Keys :
           /\ Map[k] # Nil <=> Found(k)
           /\ Found(k) => /\ Map[k] = Entry(k)
                          /\ Map[k].val = store[k].val /\ Map[k].dl = expires[store[k].ptr]
<1> SUFFICES ASSUME NEW k \in Keys, Found(k) PROVE Entry(k) # Nil
  BY DEF Map, Entry
<1>1. store[k].val \in Values /\ expires[store[k].ptr] \in Deadline \cup {Nil}
  BY DEF TypeOK, Found, Present, Obj
<1> QED
  BY <1>1, EntryAssumption DEF Entry

\* The same in the state after the step.
LEMMA NextMapAt ==
  ASSUME TypeOK'
  PROVE  \A k \in Keys :
           /\ Map'[k] # Nil <=> Found(k)'
           /\ Found(k)' => /\ Map'[k] = Entry(k)'
                           /\ Map'[k].val = store'[k].val /\ Map'[k].dl = expires'[store'[k].ptr]
<1> SUFFICES ASSUME NEW k \in Keys, Found(k)' PROVE Entry(k)' # Nil
  BY DEF Map, Entry
<1>1. store'[k].val \in Values /\ expires'[store'[k].ptr] \in Deadline \cup {Nil}
  BY DEF TypeOK, Found, Present, Obj
<1> QED
  BY <1>1, EntryAssumption DEF Entry

\* What VolatileMap keeps of the map at a later time are the objects that are
\* stored and have not expired by then.
LEMMA LiveAt ==
  ASSUME TypeOK, NEW t \in Int, t >= now
  PROVE  Abs!Live(Map, t) = [k \in Keys |-> IF Alive(k, t) THEN Entry(k) ELSE Nil]
<1> SUFFICES ASSUME NEW k \in Keys
             PROVE  (IF Map[k] # Nil /\ (Map[k].dl # Nil => t < Map[k].dl) THEN Map[k] ELSE Nil)
                      = IF Alive(k, t) THEN Entry(k) ELSE Nil
  BY DEF Abs!Live
<1>1. now \in Nat /\ (k \in Present => expires[store[k].ptr] \in Deadline \cup {Nil})
  BY SMTT(60) DEF TypeOK, Present, Obj
<1>2. CASE ~Found(k)
  <2>1. ~Alive(k, t)
    <3> SUFFICES ASSUME k \in Present PROVE hasExpired(k, t)
      BY DEF Alive
    <3>1. expires[store[k].ptr] # Nil /\ expires[store[k].ptr] <= now
      BY <1>2 DEF Found, hasExpired
    <3>2. expires[store[k].ptr] \in Nat
      BY <1>1, <3>1 DEF Deadline
    <3> QED
      BY <1>1, <3>1, <3>2 DEF hasExpired
  <2> QED
    BY <1>2, <2>1, MapAt
<1>3. CASE Found(k)
  <2>1. Map[k] # Nil /\ Map[k] = Entry(k) /\ Map[k].dl = expires[store[k].ptr] /\ k \in Present
    BY <1>3, MapAt DEF Found
  <2>2. (Map[k].dl # Nil => t < Map[k].dl) <=> ~hasExpired(k, t)
    BY <1>1, <2>1 DEF hasExpired, Deadline
  <2> QED
    BY <2>1, <2>2 DEF Alive
<1> QED
  BY <1>2, <1>3

\* Nothing in the map has expired yet.
LEMMA LiveNow == ASSUME TypeOK PROVE Abs!Live(Map, now) = Map
<1>1. now \in Int
  BY DEF TypeOK
<1>2. Abs!Live(Map, now) = [k \in Keys |-> IF Alive(k, now) THEN Entry(k) ELSE Nil]
  BY <1>1, LiveAt
<1> QED
  BY <1>2 DEF Map, Alive, Found

\* If the objects alive at now' are left what they were, and no other is alive,
\* the map has only aged.
LEMMA MapAges ==
  ASSUME TypeOK, now' \in Readings,
         \A k \in Keys : Alive(k, now') => k \in Present' /\ Entry(k)' = Entry(k),
         \A k \in Keys : Found(k)' => Alive(k, now')
  PROVE  Map' = Abs!Live(Map, now')
<1>1. now' \in Int /\ now' >= now
  BY DEF TypeOK, Readings
<1>2. ASSUME NEW k \in Keys, Alive(k, now') PROVE Found(k)'
  <2>1. k \in Present' /\ Entry(k)' = Entry(k)
    BY <1>2
  <2>2. expires'[store'[k].ptr] = expires[store[k].ptr]
    BY <2>1 DEF Entry
  <2> QED
    BY <1>2, <2>1, <2>2 DEF Alive, Found, hasExpired
<1>3. Map' = [k \in Keys |-> IF Alive(k, now') THEN Entry(k) ELSE Nil]
  BY <1>2 DEF Map
<1> QED
  BY <1>1, <1>3, LiveAt

\* In particular if no object changes.
LEMMA MapSame ==
  ASSUME TypeOK, now' \in Readings, Present' = Present,
         \A k \in Present : Entry(k)' = Entry(k)
  PROVE  Map' = Abs!Live(Map, now')
<1>1. ASSUME NEW k \in Keys, Found(k)' PROVE Alive(k, now')
  <2>1. k \in Present /\ expires'[store'[k].ptr] = expires[store[k].ptr]
    BY <1>1 DEF Entry, Found
  <2> QED
    BY <1>1, <2>1 DEF Alive, Found, hasExpired
<1> QED
  BY <1>1, MapAges DEF Alive

\* Del takes the keys it deletes off the map and leaves the others' entries.
LEMMA DelEntries ==
  ASSUME TypeOK, OnePtr, NEW D \in SUBSET Keys, Del(D)
  PROVE  /\ Present' = Present \ D
         /\ \A k \in Present' : store'[k] = store[k] /\ Entry(k)' = Entry(k)
         /\ pend # Nil => expires'[pend.ptr] = expires[pend.ptr]
<1>1. Present' = Present \ D /\ \A k \in Present' : store'[k] = store[k]
  BY DelPresent
<1>2. \A o \in Objs : expires'[o] =
         IF \E k \in D \cap Present : store[k].ptr = o THEN Nil ELSE expires[o]
  BY DEF Del
<1>3. ASSUME NEW k \in Present' PROVE Entry(k)' = Entry(k)
  <2>1. k \in Present /\ k \notin D /\ store[k].ptr \in Objs /\ store'[k] = store[k]
    BY <1>1, <1>3 DEF TypeOK, Present, Obj
  <2>2. ~ \E j \in D \cap Present : store[j].ptr = store[k].ptr
    BY <2>1 DEF OnePtr
  <2>3. expires'[store[k].ptr] = expires[store[k].ptr]
    BY <1>2, <2>1, <2>2
  <2> QED
    BY <2>1, <2>3 DEF Entry
<1>4. pend # Nil => expires'[pend.ptr] = expires[pend.ptr]
  BY <1>2 DEF OnePtr, TypeOK, Write
<1> QED
  BY <1>1, <1>3, <1>4

\* So what is left after Del is the live part of the map without those keys.
LEMMA DelMap ==
  ASSUME TypeOK, OnePtr, NEW D \in SUBSET Keys, Del(D), now' \in Readings
  PROVE  Map' = [k \in Keys |-> IF k \in D THEN Nil ELSE Abs!Live(Map, now')[k]]
<1>1. now' \in Int /\ now' >= now
  BY DEF TypeOK, Readings
<1>2. /\ Present' = Present \ D
      /\ \A k \in Present' : store'[k] = store[k] /\ Entry(k)' = Entry(k)
  BY DelEntries
<1>3. ASSUME NEW k \in Keys PROVE Found(k)' <=> k \notin D /\ Alive(k, now')
  <2>1. ASSUME k \in Present' PROVE expires'[store'[k].ptr] = expires[store[k].ptr]
    BY <1>2, <2>1 DEF Entry
  <2> QED
    BY <1>2, <2>1 DEF Found, Alive, hasExpired
<1>4. \A k \in Keys : Map'[k] = IF k \notin D /\ Alive(k, now') THEN Entry(k) ELSE Nil
  BY <1>2, <1>3 DEF Map, Found
<1>5. \A k \in Keys : Abs!Live(Map, now')[k] = IF Alive(k, now') THEN Entry(k) ELSE Nil
  BY <1>1, LiveAt
<1>6. Map' = [k \in Keys |-> Map'[k]]
  BY DEF Map
<1> QED
  BY <1>4, <1>5, <1>6

\* Deleting a key that is not found, or keys that have expired by now', only
\* ages the map.
LEMMA DelAges ==
  ASSUME TypeOK, OnePtr, NEW D \in SUBSET Keys, Del(D), now' \in Readings,
         \A k \in D : ~Alive(k, now')
  PROVE  Map' = Abs!Live(Map, now')
<1>1. now' \in Int /\ now' >= now
  BY DEF TypeOK, Readings
<1>2. Abs!Live(Map, now') = [k \in Keys |-> IF Alive(k, now') THEN Entry(k) ELSE Nil]
  BY <1>1, LiveAt
<1> QED
  BY <1>2, DelMap
-----------------------------------------------------------------------------
\* The write in progress keeps its deadline.
LEMMA ReqSame ==
  ASSUME pend' = pend, pend # Nil => expires'[pend.ptr] = expires[pend.ptr]
  PROVE  Req' = Req
BY DEF Req

\* Between commands VolatileMap has no write in progress either.
LEMMA NoReq == ASSUME NoWrite, pc \in {"idle", "cron"} PROVE pend = Nil /\ Req = Nil
BY DEF NoWrite, Req

\* A step that replies nothing and changes no object is a Forget of no key.
LEMMA SilentForgets ==
  ASSUME UNCHANGED <<store, expires, now, pend>>, Silent
  PROVE  Abs!Forget
<1>1. Map' = Map /\ Req' = Req
  BY DEF Map, Found, Entry, Present, hasExpired, Req
<1>2. Map' = [k \in Keys |-> IF k \in {} THEN Nil ELSE Map[k]]
  BY <1>1 DEF Map
<1>3. \E S \in SUBSET Keys : Map' = [k \in Keys |-> IF k \in S THEN Nil ELSE Map[k]]
  BY <1>2
<1> QED
  BY <1>1, <1>3 DEF Abs!Forget, Silent

\* The clock makes expired entries vanish.
LEMMA TickRefines == ASSUME RefInv, Tick PROVE Abs!Tick
<1>0. TypeOK
  BY DEF RefInv, TypeInv
<1>1. now' > now /\ now' \in Readings
  BY <1>0 DEF Tick, TypeOK, Readings
<1>2. Present' = Present /\ \A k \in Present : Entry(k)' = Entry(k)
  BY DEF Tick, Present, Entry
<1>3. Map' = Abs!Live(Map, now')
  BY <1>0, <1>1, <1>2, MapSame
<1>4. Req' = Req
  BY ReqSame DEF Tick
<1> QED
  BY <1>1, <1>3, <1>4 DEF Tick, Silent, Abs!Tick, Abs!Later, Readings

\* Within 64 bits the deadline of an object is the one VolatileMap gives it.
LEMMA ExpiryExact ==
  ASSUME NoWrap, NEW t \in Start .. MaxNow, NEW d \in Secs
  PROVE  Expiry(t, d) = t + d * MsPerSec
<1> DEFINE x == t + d * MsPerSec
<1>1. x \in 0 .. U64 - 1
  BY DEF NoWrap, Deadline
<1> HIDE DEF x
<1>2. x % U64 = x
  BY <1>1
<1> QED
  BY <1>2 DEF Expiry, x

\* SET makes an object nothing else refers to: the map does not change yet.
LEMMA SetRefines ==
  ASSUME RefInv, NoWrap, NEW k \in Keys, NEW v \in Values, NEW d \in Secs, evalSET(k, v, d)
  PROVE  Abs!RequestSet(k, v, d)
<1>0. TypeOK /\ NoWrite /\ now \in Readings /\ now \in Start .. MaxNow
  BY DEF RefInv, TypeInv, TypeOK, Readings
<1>1. PICK o \in Objs \ InUse :
        NewObj(o, d) /\ pend' = [cmd |-> "SET", key |-> k, ptr |-> o, val |-> v]
  BY DEF evalSET
<1>2. pc = "idle" /\ UNCHANGED <<store, now>> /\ Silent
  BY DEF evalSET
<1>3. Req = Nil
  BY <1>0, <1>2, NoReq
<1>4. Map' = Map
  <2>1. \A j \in Present : store[j].ptr # o /\ store[j].ptr \in Objs
    BY <1>0, <1>1 DEF InUse, TypeOK, Present, Obj
  <2>2. \A p \in Objs \ {o} : expires'[p] = expires[p]
    BY <1>0, <1>1 DEF NewObj, TypeOK
  <2>3. \A j \in Present : Entry(j)' = Entry(j)
    BY <1>2, <2>1, <2>2 DEF Entry
  <2>4. Map' = Abs!Live(Map, now') /\ now' = now
    BY <1>0, <1>2, <2>3, MapSame DEF Present
  <2> QED
    BY <1>0, <2>4, LiveNow
<1>5. expires'[o] = IF d > 0 THEN now + d * MsPerSec ELSE Nil
  <2>1. expires[o] = Nil
    BY <1>1 DEF InUse
  <2>2. CASE d > 0
    BY <1>0, <1>1, <2>2, ExpiryExact DEF NewObj, TypeOK
  <2>3. CASE ~ (d > 0)
    BY <1>1, <2>1, <2>3 DEF NewObj
  <2> QED
    BY <2>2, <2>3
<1>6. Req' = [cmd |-> "SET", key |-> k, val |-> v, dl |-> expires'[o]]
  <2>1. pend' # Nil
    BY <1>1 DEF Write
  <2> QED
    BY <1>1, <2>1 DEF Req
<1> QED
  BY <1>2, <1>3, <1>4, <1>5, <1>6 DEF Abs!RequestSet, Silent

\* Stamping an object changes no entry; the map ages while the command runs.
LEMMA TouchAges ==
  ASSUME TypeOK, NEW k \in Keys, Found(k), Touch(k), UNCHANGED expires, now' \in Readings
  PROVE  Map' = Abs!Live(Map, now')
<1>1. Present' = Present
  BY TouchPresent
<1>2. \A j \in Present : store[j] \in Obj
  BY DEF TypeOK, Present
<1>3. \A j \in Present : store'[j].ptr = store[j].ptr /\ store'[j].val = store[j].val
  BY <1>2, SMTT(60) DEF Touch, TypeOK, Present, Obj
<1>4. \A j \in Present : Entry(j)' = Entry(j)
  BY <1>3 DEF Entry
<1> QED
  BY <1>1, <1>4, MapSame

\* A key that is not found has no entry later in the command either.
LEMMA NotFoundLater ==
  ASSUME TypeOK, NEW k \in Keys, ~Found(k), now' \in Readings
  PROVE  ~Alive(k, now')
<1>1. CASE k \in Present
  <2>1. expires[store[k].ptr] # Nil /\ expires[store[k].ptr] <= now
    BY <1>1 DEF Found, hasExpired
  <2>2. expires[store[k].ptr] \in Nat /\ now \in Nat /\ now' \in Nat /\ now' >= now
    BY <1>1, <2>1, SMTT(60) DEF TypeOK, Present, Obj, Deadline, Readings
  <2> QED
    BY <2>1, <2>2 DEF Alive, hasExpired
<1> QED
  BY <1>1 DEF Alive

\* What GET, TTL and EXPIRE do to the map: it ages, whether or not the key is
\* found, and the entry the key then has is the one of its object.
LEMMA LookupAges ==
  ASSUME RefInv, NEW k \in Keys, now' \in Readings,
         \/ Found(k) /\ Touch(k) /\ UNCHANGED expires
         \/ ~Found(k) /\ Del({k})
  PROVE  /\ Map' = Abs!Live(Map, now')
         /\ Map'[k] = IF Alive(k, now') THEN Entry(k) ELSE Nil
         /\ Alive(k, now') => Entry(k) # Nil /\ Found(k)
<1>0. TypeOK /\ OnePtr
  BY DEF RefInv, TypeInv
<1>1. Map' = Abs!Live(Map, now')
  <2>1. CASE Found(k) /\ Touch(k) /\ UNCHANGED expires
    BY <1>0, <2>1, TouchAges
  <2>2. CASE ~Found(k) /\ Del({k})
    <3>1. ~Alive(k, now')
      BY <1>0, <2>2, NotFoundLater
    <3> QED
      BY <1>0, <2>2, <3>1, DelAges
  <2> QED
    BY <2>1, <2>2
<1>2. now' \in Int /\ now' >= now
  BY <1>0 DEF TypeOK, Readings
<1>3. Map'[k] = IF Alive(k, now') THEN Entry(k) ELSE Nil
  BY <1>0, <1>1, <1>2, LiveAt
<1>4. Alive(k, now') => Entry(k) # Nil /\ Found(k)
  BY <1>0, NotFoundLater, MapAt
<1> QED
  BY <1>1, <1>3, <1>4

\* GET answers with what the key holds when it answers.
LEMMA GetRefines == ASSUME RefInv, NEW k \in Keys, evalGET(k) PROVE Abs!Get(k)
<1>0. TypeOK /\ NoWrite
  BY DEF RefInv, TypeInv
<1>1. /\ pc = "idle" /\ now' \in Readings /\ UNCHANGED pend
      /\ (Found(k) /\ Touch(k) /\ UNCHANGED expires) \/ (~Found(k) /\ Del({k}))
  BY DEF evalGET
<1>2. /\ Map' = Abs!Live(Map, now')
      /\ Map'[k] = IF Alive(k, now') THEN Entry(k) ELSE Nil
      /\ Alive(k, now') => Entry(k) # Nil /\ Found(k)
  BY <1>1, LookupAges
<1>3. Req = Nil /\ Req' = Nil
  BY <1>0, <1>1, NoReq DEF Req
<1>4. Reply("GET", {k}, IF Map'[k] = Nil THEN Nil ELSE Map'[k].val)
  <2>1. CASE Found(k)
    <3>1. Reply("GET", {k}, IF hasExpired(k, now') THEN Nil ELSE store[k].val)
      BY <2>1 DEF evalGET
    <3>2. hasExpired(k, now') <=> Map'[k] = Nil
      BY <1>2, <2>1 DEF Alive, Found
    <3>3. Map'[k] # Nil => Map'[k].val = store[k].val
      BY <1>2 DEF Entry
    <3> QED
      BY <3>1, <3>2, <3>3 DEF Reply
  <2>2. CASE ~Found(k)
    BY <1>2, <2>2 DEF evalGET
  <2> QED
    BY <2>1, <2>2
<1> QED
  BY <1>1, <1>2, <1>3, <1>4 DEF Abs!Get, Abs!Later, Abs!Reply, Reply, Readings

\* A reply is a record, whatever it answers.
LEMMA Replied ==
  ASSUME NEW cmd \in Commands, NEW D \in SUBSET Keys,
         NEW r \in Int \cup Text \cup {Nil, Ok, Err}, Reply(cmd, D, r)
  PROVE  last' # Nil /\ last'.cmd = cmd /\ last'.keys = D /\ last'.reply = r
<1>1. last' = [cmd |-> cmd, keys |-> D, reply |-> r]
  BY DEF Reply
<1>2. last' \in Answer
  BY <1>1 DEF Answer
<1> QED
  BY <1>1, <1>2

\* The unsigned subtraction of TTL is exact as long as the deadline is ahead.
LEMMA TtlExact ==
  ASSUME NEW exp \in Deadline, NEW t \in Nat, t < exp
  PROVE  (exp - t) % U64 = exp - t
<1> DEFINE x == exp - t
<1>1. x \in 0 .. U64 - 1
  BY DEF Deadline
<1> HIDE DEF x
<1>2. x % U64 = x
  BY <1>1
<1> QED
  BY <1>2 DEF x

\* TTL answers with the seconds left, unless the key expires meanwhile.
LEMMA TtlRefines == ASSUME RefInv, NEW k \in Keys, evalTTL(k) PROVE Abs!Ttl(k)
<1>0. TypeOK /\ NoWrite /\ now \in Nat
  BY DEF RefInv, TypeInv, TypeOK
<1>1. /\ pc = "idle" /\ now' \in Readings /\ UNCHANGED pend
      /\ (Found(k) /\ Touch(k) /\ UNCHANGED expires) \/ (~Found(k) /\ Del({k}))
  BY DEF evalTTL
<1>2. /\ Map' = Abs!Live(Map, now')
      /\ Map'[k] = IF Alive(k, now') THEN Entry(k) ELSE Nil
      /\ Alive(k, now') => Entry(k) # Nil /\ Found(k)
  BY <1>1, LookupAges
<1>3. Req = Nil /\ Req' = Nil
  BY <1>0, <1>1, NoReq DEF Req
<1>4. now' \in Nat /\ now' >= now
  BY <1>0, <1>1 DEF Readings
<1> DEFINE Answers ==
      \/ Map[k] = Nil /\ Reply("TTL", {k}, -2)
      \/ /\ Map'[k] # Nil
         /\ Reply("TTL", {k}, IF Map[k].dl = Nil THEN -1 ELSE (Map[k].dl - now') \div MsPerSec)
      \/ /\ Map[k] # Nil /\ Map'[k] = Nil
         /\ last' # Nil /\ last'.cmd = "TTL" /\ last'.keys = {k}
<1>5. Answers
  <2>1. CASE ~Found(k)
    <3>1. Reply("TTL", {k}, -2) /\ Map[k] = Nil
      BY <1>0, <2>1, MapAt DEF evalTTL
    <3> QED
      BY <3>1
  <2>2. CASE Found(k)
    <3> DEFINE exp == expires[store[k].ptr]
    <3>1. /\ k \in Present /\ Map[k] # Nil /\ Map[k].dl = exp /\ exp \in Deadline \cup {Nil}
      BY <1>0, <2>2, MapAt DEF Found, TypeOK, Present, Obj
    <3>2. \/ exp = Nil /\ Reply("TTL", {k}, -1)
          \/ \E t \in now .. now' :
               \/ exp # Nil /\ exp < t /\ Reply("TTL", {k}, -2)
               \/ exp # Nil /\ exp >= t /\ Reply("TTL", {k}, ((exp - now') % U64) \div MsPerSec)
      BY <2>2 DEF evalTTL
    <3>3. hasExpired(k, now') <=> exp # Nil /\ exp <= now'
      BY DEF hasExpired
    <3>4. Map'[k] = Nil <=> hasExpired(k, now')
      BY <1>2, <2>2 DEF Alive, Found
    <3> HIDE DEF exp, Answers
    <3>5. CASE exp = Nil
      BY <3>1, <3>2, <3>3, <3>4, <3>5 DEF Answers
    <3>6. CASE exp # Nil /\ exp <= now'
      <4>1. PICK r \in Int : Reply("TTL", {k}, r)
        <5>1. \A x \in Int : (x % U64) \div MsPerSec \in Int
          OBVIOUS
        <5>2. exp - now' \in Int
          BY <1>4, <3>1, <3>6 DEF Deadline
        <5>3. ((exp - now') % U64) \div MsPerSec \in Int
          BY <5>1, <5>2
        <5>4. Reply("TTL", {k}, -2) \/ Reply("TTL", {k}, ((exp - now') % U64) \div MsPerSec)
          BY <3>2, <3>6
        <5> QED
          BY <5>3, <5>4
      <4>2. last' # Nil /\ last'.cmd = "TTL" /\ last'.keys = {k}
        BY <4>1, Replied DEF Commands
      <4> QED
        BY <3>1, <3>3, <3>4, <3>6, <4>2 DEF Answers
    <3>7. CASE exp # Nil /\ ~ (exp <= now')
      <4>1. exp \in Deadline /\ exp \in Nat /\ now' < exp
        BY <1>4, <3>1, <3>7 DEF Deadline
      <4>2. ~ \E t \in now .. now' : exp < t
        BY <1>0, <1>4, <4>1
      <4>3. Reply("TTL", {k}, ((exp - now') % U64) \div MsPerSec)
        BY <3>2, <3>7, <4>2
      <4>4. Reply("TTL", {k}, (exp - now') \div MsPerSec)
        BY <1>4, <4>1, <4>3, TtlExact
      <4> QED
        BY <3>1, <3>3, <3>4, <3>7, <4>4 DEF Answers
    <3> QED
      BY <3>5, <3>6, <3>7
  <2> QED
    BY <2>1, <2>2
<1> QED
  BY <1>1, <1>2, <1>3, <1>5 DEF Abs!Ttl, Abs!Later, Abs!Reply, Reply, Readings

\* VolatileMap counts as Keyspace does.
LEMMA SameCount == ASSUME NEW S PROVE Abs!Cardinality(S) = Cardinality(S)
BY DEF Abs!Cardinality, Cardinality

\* DEL counts every entry it takes away, and the expired keys it met.
LEMMA DelRefines == ASSUME RefInv, NEW D \in SUBSET Keys, evalDEL(D) PROVE Abs!Delete(D)
<1>0. TypeOK /\ NoWrite /\ OnePtr /\ now' \in Readings /\ now' = now
  BY DEF RefInv, TypeInv, TypeOK, Readings, evalDEL
<1>1. pc = "idle" /\ Del(D) /\ UNCHANGED <<now, pend>> /\ Reply("DEL", D, Cardinality(D \cap Present))
  BY DEF evalDEL
<1>2. Req = Nil /\ Req' = Nil
  BY <1>0, <1>1, NoReq DEF Req
<1>3. Map' = [k \in Keys |-> IF k \in D THEN Nil ELSE Map[k]]
  BY <1>0, <1>1, DelMap, LiveNow
<1>4. Cardinality(D \cap Present) \in Cardinality({k \in D : Map[k] # Nil}) .. Cardinality(D)
  <2>1. {k \in D : Map[k] # Nil} \subseteq D \cap Present
    BY <1>0, MapAt DEF Found
  <2>2. /\ IsFiniteSet(D) /\ Cardinality(D) \in Nat /\ D \cap Present \subseteq D
        /\ IsFiniteSet(D \cap Present) /\ Cardinality(D \cap Present) \in Nat
        /\ Cardinality({k \in D : Map[k] # Nil}) \in Nat
    BY KeysFinite
  <2>3. Cardinality({k \in D : Map[k] # Nil}) <= Cardinality(D \cap Present)
    BY <2>1, <2>2, FS_Subset
  <2>4. Cardinality(D \cap Present) <= Cardinality(D)
    BY <2>2, FS_Subset
  <2> QED
    BY <2>2, <2>3, <2>4
<1>5. \E c \in Cardinality({k \in D : Map[k] # Nil}) .. Cardinality(D) : Abs!Reply("DEL", D, c)
  BY <1>1, <1>4 DEF Abs!Reply, Reply
<1> QED
  BY <1>1, <1>2, <1>3, <1>5, SameCount DEF Abs!Delete

\* INFO counts every entry, and more.
LEMMA InfoRefines == ASSUME RefInv, evalINFO PROVE Abs!Info
<1>0. TypeOK /\ NoWrite /\ StatBound
  BY DEF RefInv, TypeInv
<1>1. pc = "idle" /\ UNCHANGED <<store, expires, now, pend>> /\ Reply("INFO", {}, stat)
  BY DEF evalINFO
<1>2. Req = Nil /\ Req' = Req /\ Map' = Map
  BY <1>0, <1>1, NoReq DEF Req, Map, Found, Entry, Present, hasExpired
<1>3. last' # Nil /\ last'.cmd = "INFO" /\ last'.reply = stat
  BY <1>0, <1>1, Replied DEF Commands, TypeOK
<1>4. Cardinality({k \in Keys : Map[k] # Nil}) <= stat
  <2>1. {k \in Keys : Map[k] # Nil} \subseteq Present
    BY <1>0, MapAt DEF Found
  <2>2. IsFiniteSet(Present) /\ Cardinality(Present) \in Nat
    BY KeysFinite DEF Present
  <2>3. /\ Cardinality({k \in Keys : Map[k] # Nil}) <= Cardinality(Present)
        /\ Cardinality({k \in Keys : Map[k] # Nil}) \in Nat
    BY <2>1, <2>2, FS_Subset, KeysFinite
  <2> QED
    BY <1>0, <2>2, <2>3 DEF StatBound, TypeOK
<1>5. last'.reply >= Cardinality({k \in Keys : Map[k] # Nil})
  BY <1>3, <1>4
<1> QED
  BY <1>1, <1>2, <1>3, <1>5, SameCount DEF Abs!Info

\* LRU answers OK.
LEMMA LruRefines == ASSUME RefInv, LRUDone PROVE Abs!Lru
<1>1. UNCHANGED <<store, expires, now, pend>> /\ pend = Nil /\ Reply("LRU", {}, Ok)
  BY DEF LRUDone
<1>2. Req = Nil /\ Req' = Req /\ Map' = Map
  BY <1>1 DEF Req, Map, Found, Entry, Present, hasExpired
<1> QED
  BY <1>1, <1>2 DEF Abs!Lru, Abs!Reply, Reply

\* EXPIRE gives the entry of a found key its new deadline, counted from the
\* time setExpiry reads, and no other.
LEMMA ExpireRefines ==
  ASSUME RefInv, NoWrap, NEW k \in Keys, NEW d \in Secs, evalEXPIRE(k, d)
  PROVE  Abs!Expire(k, d)
<1>0. /\ TypeOK /\ NoWrite /\ OnePtr /\ now \in Readings
      /\ \A t \in Readings : t \in Start .. MaxNow /\ t \in Int /\ t >= now
  BY DEF RefInv, TypeInv, TypeOK, Readings
<1>1. pc = "idle" /\ UNCHANGED pend /\ now' \in Readings
  BY <1>0 DEF evalEXPIRE
<1>2. Req = Nil /\ Req' = Nil
  BY <1>0, <1>1, NoReq DEF Req
<1>3. CASE Found(k)
  <2> DEFINE new == [val |-> store[k].val, dl |-> now' + d * MsPerSec]
             f == [Map EXCEPT ![k].dl = now' + d * MsPerSec]
             t == now'
  <2>1. /\ Touch(k) /\ Reply("EXPIRE", {k}, 1)
        /\ expires' = [expires EXCEPT ![store[k].ptr] = Expiry(now', d)]
    BY <1>3 DEF evalEXPIRE
  <2>2. /\ k \in Present /\ Map[k] # Nil /\ Map[k] = Entry(k)
        /\ \A j \in Present : store[j] \in Obj /\ store[j].ptr \in Objs
    BY <1>0, <1>3, MapAt DEF Found, TypeOK, Present, Obj
  <2>3. Present' = Present
    BY <1>0, <1>3, <2>1, TouchPresent
  <2>4. \A j \in Present : store'[j].ptr = store[j].ptr /\ store'[j].val = store[j].val
    BY <1>0, <2>1, <2>2, SMTT(60) DEF Touch, TypeOK, Present, Obj
  <2>5. expires'[store[k].ptr] = now' + d * MsPerSec /\ now' + d * MsPerSec \in Deadline
    <3>1. Expiry(now', d) = now' + d * MsPerSec
      BY <1>0, <1>1, ExpiryExact
    <3>2. now' + d * MsPerSec \in Deadline
      BY <1>0, <1>1 DEF NoWrap
    <3> QED
      BY <1>0, <2>1, <2>2, <3>1, <3>2 DEF TypeOK
  <2>6. \A j \in Present : j # k => expires'[store[j].ptr] = expires[store[j].ptr]
    BY <1>0, <2>1, <2>2 DEF OnePtr, TypeOK
  <2>7. Entry(k)' = new /\ \A j \in Present : j # k => Entry(j)' = Entry(j)
    BY <2>2, <2>4, <2>5, <2>6 DEF Entry
  <2>8. /\ f[k] = new /\ DOMAIN f = Keys /\ \A j \in Keys : j # k => f[j] = Map[j]
    <3>1. Map \in [Keys -> {Map[j] : j \in Keys}]
      BY DEF Map
    <3>2. f[k] = [Map[k] EXCEPT !.dl = now' + d * MsPerSec]
      BY <3>1
    <3>3. [Map[k] EXCEPT !.dl = now' + d * MsPerSec] = new
      BY <2>2 DEF Entry
    <3> QED
      BY <3>1, <3>2, <3>3
  <2>9. /\ new # Nil /\ new.dl = now' + d * MsPerSec /\ new.dl # Nil
        /\ (now' < now' + d * MsPerSec <=> ~ (now' + d * MsPerSec <= now'))
    <3>1. new \in [val : Values, dl : Deadline \cup {Nil}]
      BY <2>2, <2>5 DEF Obj
    <3>2. now' + d * MsPerSec \in Int /\ now' \in Int
      BY <1>0, <1>1, <2>5 DEF Deadline
    <3> QED
      BY <2>5, <3>1, <3>2, EntryAssumption
  <2> HIDE DEF new, f
  <2>10. Abs!Live(f, t)[k] = Map'[k]
    <3>1. Abs!Live(f, t)[k] = IF t < now' + d * MsPerSec THEN new ELSE Nil
      BY <2>8, <2>9 DEF Abs!Live
    <3>2. Found(k)' <=> ~ (now' + d * MsPerSec <= now')
      BY <2>2, <2>3, <2>4, <2>5, <2>9 DEF Found, hasExpired
    <3> QED
      BY <2>7, <2>9, <3>1, <3>2 DEF Map
  <2>11. ASSUME NEW j \in Keys, j # k PROVE Abs!Live(f, t)[j] = Map'[j]
    <3>1. Abs!Live(f, t)[j] = Abs!Live(Map, t)[j]
      BY <2>8, <2>11 DEF Abs!Live
    <3>2. Abs!Live(Map, t)[j] = IF Alive(j, t) THEN Entry(j) ELSE Nil
      BY <1>0, <1>1, LiveAt
    <3>3. Found(j)' <=> Alive(j, t)
      BY <2>3, <2>4, <2>6, <2>11 DEF Found, Alive, hasExpired
    <3>4. Alive(j, t) => Entry(j)' = Entry(j)
      BY <2>7, <2>11 DEF Alive
    <3> QED
      BY <3>1, <3>2, <3>3, <3>4 DEF Map
  <2>12. Map' = Abs!Live(f, t)
    <3>1. Map' = [j \in Keys |-> Map'[j]]
      BY DEF Map
    <3>2. Abs!Live(f, t) = [j \in Keys |-> Abs!Live(f, t)[j]]
      BY DEF Abs!Live
    <3> QED
      BY <2>10, <2>11, <3>1, <3>2
  <2>13. Map' = Abs!Live([Map EXCEPT ![k].dl = now' + d * MsPerSec], now')
    BY <2>12 DEF f
  <2> QED
    BY <1>1, <1>2, <2>1, <2>2, <2>13 DEF Abs!Expire, Abs!Later, Abs!Reply, Reply, Readings
<1>4. CASE ~Found(k)
  <2>1. Del({k}) /\ UNCHANGED now /\ Reply("EXPIRE", {k}, 0)
    BY <1>4 DEF evalEXPIRE
  <2>2. Map' = Abs!Live(Map, now')
    BY <1>1, <1>4, <2>1, LookupAges
  <2>3. Map[k] = Nil
    BY <1>0, <1>4, MapAt
  <2> QED
    BY <1>1, <1>2, <2>1, <2>2, <2>3 DEF Abs!Expire, Abs!Later, Abs!Reply, Reply, Readings
<1> QED
  BY <1>3, <1>4

\* INCR changes the entry of a found integer in place, refuses a found text,
\* and asks for a new entry when the key is not found.
LEMMA IncrRefines ==
  ASSUME RefInv, NEW k \in Keys, evalINCR(k)
  PROVE  Abs!Incr(k) \/ Abs!RequestIncr(k)
<1>0. /\ TypeOK /\ NoWrite /\ OnePtr /\ now \in Readings
  BY DEF RefInv, TypeInv, TypeOK, Readings
<1>1. pc = "idle" /\ UNCHANGED now /\ now' \in Readings
  BY <1>0 DEF evalINCR
<1>2. Req = Nil /\ pend = Nil
  BY <1>0, <1>1, NoReq
<1>3. CASE Found(k) /\ assertEncoding(k)
  <2> DEFINE i == Increment(store[k].val)
             f == [Map EXCEPT ![k].val = i]
  <2>1. /\ UNCHANGED <<expires, pend>> /\ Reply("INCR", {k}, i)
        /\ store' = [store EXCEPT ![k].at = getCurrentClock(now), ![k].val = i]
    BY <1>3 DEF evalINCR
  <2>2. /\ k \in Present /\ Map[k] # Nil /\ Map[k] = Entry(k) /\ Map[k].val = store[k].val
        /\ store[k] \in Obj /\ store[k].val \in Ints
    BY <1>0, <1>3, MapAt DEF Found, TypeOK, Present, assertEncoding
  <2>3. i \in Values /\ getCurrentClock(now) \in Ticks
    BY <1>0, <2>2, IncrementType, ClockType DEF Values, TypeOK
  <2> HIDE DEF i
  <2>4. /\ store'[k] \in Obj /\ store'[k].ptr = store[k].ptr /\ store'[k].val = i
        /\ \A j \in Keys : j # k => store'[j] = store[j]
    BY <1>0, <2>1, <2>2, <2>3 DEF TypeOK, Obj
  <2>5. Present' = Present
    BY <2>2, <2>4 DEF Present
  <2>6. \A j \in Keys : Found(j)' <=> Found(j)
    <3>1. \A j \in Keys : store'[j].ptr = store[j].ptr
      BY <2>4
    <3> QED
      BY <1>1, <2>1, <2>5, <3>1 DEF Found, hasExpired
  <2>7. /\ Entry(k)' = [val |-> i, dl |-> expires[store[k].ptr]]
        /\ \A j \in Keys : j # k => Entry(j)' = Entry(j)
    BY <2>1, <2>4 DEF Entry
  <2>8. f = [j \in Keys |-> IF j = k THEN [Map[k] EXCEPT !.val = i] ELSE Map[j]]
    BY DEF Map
  <2>9. [Map[k] EXCEPT !.val = i] = [val |-> i, dl |-> expires[store[k].ptr]]
    BY <2>2 DEF Entry
  <2> HIDE DEF f
  <2>10. Map' = f
    BY <1>3, <2>6, <2>7, <2>8, <2>9 DEF Map
  <2>11. Map' = [Map EXCEPT ![k].val = Increment(Map[k].val)] /\ Reply("INCR", {k}, Increment(Map[k].val))
    BY <2>1, <2>2, <2>10 DEF f, i
  <2>12. Map[k].val \notin Text
    BY <2>2
  <2>13. Abs!Increment(Map[k].val) = Increment(Map[k].val)
    BY DEF Abs!Increment, Increment
  <2>14. Req' = Req
    BY <1>2, <2>1 DEF Req
  <2> QED
    BY <1>1, <1>2, <2>2, <2>11, <2>12, <2>13, <2>14 DEF Abs!Incr, Abs!Reply, Reply
<1>4. CASE Found(k) /\ ~assertEncoding(k)
  <2>1. Touch(k) /\ UNCHANGED <<expires, pend>> /\ Reply("INCR", {k}, Err)
    BY <1>4 DEF evalINCR
  <2>2. Map' = Map
    BY <1>0, <1>1, <1>4, <2>1, TouchAges, LiveNow
  <2>3. Map[k] # Nil /\ Map[k].val \in Text
    BY <1>0, <1>4, MapAt DEF Found, TypeOK, Present, Obj, assertEncoding, Values
  <2>4. Req' = Req
    BY <1>2, <2>1 DEF Req
  <2> QED
    BY <1>1, <1>2, <2>1, <2>2, <2>3, <2>4 DEF Abs!Incr, Abs!Reply, Reply
<1>5. CASE ~Found(k)
  <2>1. Del({k}) /\ Silent
    BY <1>5 DEF evalINCR
  <2>2. PICK o \in Objs \ InUse :
          pend' = [cmd |-> "INCR", key |-> k, ptr |-> o, val |-> Increment(0)]
    BY <1>5 DEF evalINCR
  <2>3. Map' = Map
    BY <1>0, <1>1, <1>5, <2>1, LookupAges, LiveNow
  <2>4. Map[k] = Nil
    BY <1>0, <1>5, MapAt
  <2>5. expires'[o] = Nil
    BY <2>1, <2>2 DEF InUse, Del
  <2>6. pend' # Nil
    <3>1. Increment(0) \in Values
      BY IncrementType DEF Values, Ints
    <3> QED
      BY <2>2, <3>1 DEF Write
  <2>7. Req' = [cmd |-> "INCR", key |-> k, val |-> Increment(0), dl |-> Nil]
    BY <2>2, <2>5, <2>6 DEF Req
  <2>8. Abs!Increment(0) = Increment(0)
    BY DEF Abs!Increment, Increment
  <2> QED
    BY <1>1, <1>2, <2>1, <2>3, <2>4, <2>7, <2>8 DEF Abs!RequestIncr, Silent
<1> QED
  BY <1>3, <1>4, <1>5

\* Put makes the entry asked for, with its deadline, unless it has passed.
LEMMA PutRefines == ASSUME RefInv, Put PROVE Abs!Complete
<1>0. TypeOK /\ OnePtr /\ now \in Int /\ now' = now
  BY DEF RefInv, TypeInv, TypeOK, Put
<1> DEFINE new == [val |-> pend.val, dl |-> expires[pend.ptr]]
           f == [Map EXCEPT ![pend.key] = new]
<1>1. /\ pend \in Write /\ pend' = Nil /\ UNCHANGED expires
      /\ Present' = Present \cup {pend.key} /\ pend.key \in Keys
      /\ store'[pend.key].ptr = pend.ptr
      /\ \A k \in Keys : k # pend.key => store'[k] = store[k]
  BY <1>0, PutPresent DEF Write
<1>2. store'[pend.key].val = pend.val
  <2>1. store' = [store EXCEPT ![pend.key] =
                    [ptr |-> pend.ptr, val |-> pend.val, at |-> getCurrentClock(now)]]
    BY DEF Put
  <2> QED
    BY <1>0, <1>1, <2>1 DEF TypeOK
<1>3. /\ Req # Nil /\ Req.cmd = pend.cmd /\ Req.key = pend.key /\ Req.val = pend.val
      /\ Req.dl = expires[pend.ptr] /\ Req' = Nil
  <2>1. pend # Nil
    BY DEF Put
  <2>2. Req = [cmd |-> pend.cmd, key |-> pend.key, val |-> pend.val, dl |-> expires[pend.ptr]]
    BY <2>1 DEF Req
  <2>3. Req \in [cmd : {"SET", "INCR"}, key : Keys, val : Values, dl : Deadline \cup {Nil}]
    BY <1>0, <1>1, <2>2 DEF Write, TypeOK
  <2> QED
    BY <1>1, <2>2, <2>3, EntryAssumption DEF Req
<1>4. new # Nil /\ new.dl = expires[pend.ptr] /\ expires[pend.ptr] \in Deadline \cup {Nil}
  <2>1. new \in [val : Values, dl : Deadline \cup {Nil}]
    BY <1>0, <1>1 DEF Write, TypeOK
  <2> QED
    BY <1>0, <1>1, <2>1, EntryAssumption DEF Write, TypeOK
<1>5. f[pend.key] = new /\ DOMAIN f = Keys /\ \A k \in Keys : k # pend.key => f[k] = Map[k]
  BY <1>1 DEF Map
<1>key. PICK key \in Keys : key = pend.key
  BY <1>1
<1>6. Entry(key)' = new
  BY <1>1, <1>2, <1>key DEF Entry
<1> HIDE DEF new, f
<1>7. Abs!Live(f, now)[key] = Map'[key]
  <2>1. Abs!Live(f, now)[key]
          = IF expires[pend.ptr] # Nil => now < expires[pend.ptr] THEN new ELSE Nil
    BY <1>key, <1>4, <1>5 DEF Abs!Live
  <2>2. Found(key)' <=> (expires[pend.ptr] # Nil => now < expires[pend.ptr])
    BY <1>0, <1>1, <1>4, <1>key DEF Found, hasExpired, Deadline
  <2> QED
    BY <1>6, <2>1, <2>2 DEF Map
<1>8. ASSUME NEW k \in Keys, k # pend.key PROVE Abs!Live(f, now)[k] = Map'[k]
  <2>1. Abs!Live(f, now)[k] = Abs!Live(Map, now)[k]
    BY <1>5, <1>8 DEF Abs!Live
  <2>2. Map'[k] = Map[k]
    BY <1>0, <1>1, <1>8 DEF Map, Found, Entry, hasExpired
  <2> QED
    BY <1>0, <2>1, <2>2, LiveNow
<1>9. Map' = Abs!Live(f, now)
  <2>1. Map' = [k \in Keys |-> Map'[k]]
    BY DEF Map
  <2>2. Abs!Live(f, now) = [k \in Keys |-> Abs!Live(f, now)[k]]
    BY DEF Abs!Live
  <2> QED
    BY <1>key, <1>7, <1>8, <2>1, <2>2
<1>10. Map' = Abs!Live([Map EXCEPT ![Req.key] = [val |-> Req.val, dl |-> Req.dl]], now)
  BY <1>3, <1>9 DEF f, new
<1>11. Reply(Req.cmd, {Req.key}, IF Req.cmd = "SET" THEN Ok ELSE Req.val)
  BY <1>3 DEF Put
<1> QED
  BY <1>0, <1>3, <1>10, <1>11 DEF Abs!Complete, Abs!Reply, Reply

\* Evicting a key forgets its entry, and never one of the write it makes room for.
LEMMA EvictRefines == ASSUME RefInv, evictAllkeysLRU \/ evictRange PROVE Abs!Forget
<1>0. TypeOK /\ OnePtr
  BY DEF RefInv, TypeInv
<1>1. UNCHANGED <<now, pend>> /\ Silent
  BY DEF evictAllkeysLRU, evictRange
<1>2. PICK k \in Keys : Del({k})
  <2>1. evictAllkeysLRU => Head(pool).key \in Keys
    BY <1>0, PopType DEF evictAllkeysLRU
  <2> QED
    BY <2>1 DEF evictAllkeysLRU, evictRange, Present
<1>3. now' \in Readings
  BY <1>0, <1>1 DEF TypeOK, Readings
<1>4. Map' = [j \in Keys |-> IF j \in {k} THEN Nil ELSE Map[j]]
  BY <1>0, <1>1, <1>2, <1>3, DelMap, LiveNow
<1>5. Req' = Req
  BY <1>0, <1>1, <1>2, DelEntries, ReqSame
<1>6. \E S \in SUBSET Keys : Map' = [j \in Keys |-> IF j \in S THEN Nil ELSE Map[j]]
  BY <1>4
<1> QED
  BY <1>1, <1>5, <1>6 DEF Abs!Forget, Silent

\* A round of the cron deletes what has expired while it ran.
LEMMA CronRefines == ASSUME RefInv, expireSample PROVE Abs!Tick \/ Abs!Forget
<1>0. TypeOK /\ NoWrite /\ OnePtr /\ now \in Nat
  BY DEF RefInv, TypeInv, TypeOK
<1>1. pc = "cron" /\ now' \in Readings /\ UNCHANGED pend /\ Silent
  BY DEF expireSample
<1>2. PICK S \in SUBSET Present : \E D \in SUBSET {k \in S : hasExpired(k, now')} : Del(D)
  BY DEF expireSample
<1>3. PICK D \in SUBSET {k \in S : hasExpired(k, now')} : Del(D)
  BY <1>2
<1>4. D \in SUBSET Keys /\ \A k \in D : ~Alive(k, now')
  BY <1>2, <1>3 DEF Present, Alive
<1>5. Map' = Abs!Live(Map, now')
  BY <1>0, <1>1, <1>3, <1>4, DelAges
<1>6. Req' = Req
  BY <1>0, <1>1, NoReq, ReqSame
<1>7. CASE now' = now
  <2>1. Map' = [j \in Keys |-> IF j \in {} THEN Nil ELSE Map[j]]
    BY <1>0, <1>5, <1>7, LiveNow DEF Map
  <2>2. \E T \in SUBSET Keys : Map' = [j \in Keys |-> IF j \in T THEN Nil ELSE Map[j]]
    BY <2>1
  <2> QED
    BY <1>1, <1>6, <1>7, <2>2 DEF Abs!Forget, Silent
<1>8. CASE now' # now
  <2>1. now' > now
    BY <1>0, <1>1, <1>8 DEF Readings
  <2> QED
    BY <1>1, <1>5, <1>6, <2>1 DEF Abs!Tick, Abs!Later, Silent, Readings
<1> QED
  BY <1>7, <1>8

\* A new object's address is not in use, so no two keys share one.
LEMMA OnePtrStep == ASSUME RefInv, [Next]_vars PROVE OnePtr'
<1>0. TypeOK /\ TypeInv /\ NoWrite
  BY DEF RefInv, TypeInv
<1>1. CASE Deletes
  <2>1. PICK D \in SUBSET Keys : Del(D)
    BY <1>1 DEF Deletes
  <2>2. Present' = Present \ D /\ \A k \in Present' : store'[k] = store[k]
    BY <2>1, DelPresent
  <2> QED
    BY <1>1, <2>2 DEF Deletes, RefInv, OnePtr
<1>2. CASE Makes
  <2>1. PICK o \in Objs \ InUse :
          pend'.ptr = o /\ ((\E k \in Keys : Del({k})) \/ Kept)
    BY <1>2 DEF Makes
  <2>2. \A k \in Present : store[k].ptr # o
    BY <2>1 DEF InUse
  <2>3. CASE Kept
    BY <2>1, <2>2, <2>3 DEF Kept, RefInv, OnePtr
  <2>4. CASE \E k \in Keys : Del({k})
    <3>1. PICK k \in Keys : Del({k})
      BY <2>4
    <3>2. Present' = Present \ {k} /\ \A j \in Present' : store'[j] = store[j]
      BY <3>1, DelPresent
    <3> QED
      BY <2>1, <2>2, <3>2 DEF RefInv, OnePtr
  <2> QED
    BY <2>1, <2>3, <2>4
<1>3. CASE Dates \/ (Kept /\ UNCHANGED <<expires, pend>>)
  BY <1>3 DEF Dates, Kept, RefInv, OnePtr
<1>4. CASE Put
  <2>1. /\ pend' = Nil /\ pend # Nil /\ Present' = Present \cup {pend.key}
        /\ store'[pend.key].ptr = pend.ptr /\ Present \subseteq Keys
        /\ \A k \in Keys : k # pend.key => store'[k] = store[k]
    BY <1>0, <1>4, PutPresent DEF Put, Present
  <2> QED
    BY <2>1 DEF RefInv, OnePtr
<1> QED
  BY <1>0, <1>1, <1>2, <1>3, <1>4, StepKinds

\* The server implements VolatileMap: whatever is deleted lazily, by the cron
\* or by an eviction, and however long a command takes, no reply shows a client
\* anything but a map whose entries vanish on time and may be forgotten.
THEOREM KeyspaceImplementsMap == NoWrap => (Spec => Refines)
<1> SUFFICES ASSUME NoWrap PROVE Spec => Refines
  OBVIOUS
<1>1. Init => RefInv /\ Abs!Init
  <2> SUFFICES ASSUME Init PROVE RefInv /\ Abs!Init
    OBVIOUS
  <2>1. TypeInv
    BY DEF Init, TypeInv, TypeOK, TodoPresent
  <2>2. Present = {} /\ pend = Nil /\ stat = 0
    BY DEF Init, Present
  <2>3. RefInv
    BY <2>1, <2>2, FS_EmptySet DEF RefInv, NoWrite, StatBound, OnePtr
  <2>4. Map = [k \in Keys |-> Nil] /\ Req = Nil
    BY <2>2 DEF Map, Req, Found
  <2> QED
    BY <2>3, <2>4 DEF Init, Abs!Init
<1>2. RefInv /\ [Next]_vars => [Abs!Next]_(Abs!vars)
  <2> SUFFICES ASSUME RefInv, [Next]_vars PROVE Abs!Next \/ UNCHANGED Abs!vars
    OBVIOUS
  <2>1. ASSUME NEW k \in Keys, NEW v \in Values, NEW d \in Secs, evalSET(k, v, d) PROVE Abs!Next
    <3>1. Abs!RequestSet(k, v, d) /\ v \in Abs!Ints \cup Text
      BY <2>1, SetRefines DEF Values, Ints, Abs!Ints
    <3> QED
      BY <3>1 DEF Abs!Next
  <2>2. ASSUME NEW k \in Keys, evalGET(k) \/ evalTTL(k) \/ evalINCR(k) PROVE Abs!Next
    BY <2>2, GetRefines, TtlRefines, IncrRefines DEF Abs!Next
  <2>3. ASSUME NEW k \in Keys, NEW d \in Secs, evalEXPIRE(k, d) PROVE Abs!Next
    BY <2>3, ExpireRefines DEF Abs!Next
  <2>4. ASSUME NEW D \in SUBSET Keys, evalDEL(D) PROVE Abs!Next
    BY <2>4, DelRefines DEF Abs!Next
  <2>5. CASE evalINFO \/ LRUDone \/ Put \/ Tick
    BY <2>5, InfoRefines, LruRefines, PutRefines, TickRefines DEF Abs!Next
  <2>6. CASE evalLRU \/ evict \/ populateEvictionPool \/ StartEvicting \/ StartCron
    <3>1. UNCHANGED <<store, expires, now, pend>> /\ Silent
      BY <2>6 DEF evalLRU, evict, StartLRU, populateEvictionPool, StartEvicting, StartCron
    <3> QED
      BY <3>1, SilentForgets DEF Abs!Next
  <2>7. CASE evictAllkeysLRU \/ evictRange \/ expireSample
    BY <2>7, EvictRefines, CronRefines DEF Abs!Next
  <2>8. CASE UNCHANGED vars
    <3>1. UNCHANGED <<Map, Req, now, last>>
      BY <2>8 DEF vars, Map, Found, Entry, Present, hasExpired, Req
    <3> QED
      BY <3>1 DEF Abs!vars
  <2> QED
    BY <2>1, <2>2, <2>3, <2>4, <2>5, <2>6, <2>7, <2>8 DEF Next, Command, Internal
<1>3. RefInv /\ StatBound' /\ [Next]_vars => RefInv'
  <2> SUFFICES ASSUME RefInv, StatBound', [Next]_vars PROVE RefInv'
    OBVIOUS
  <2>1. TypeInv'
    BY TypeInvInductive DEF RefInv
  <2>2. NoWrite'
    BY NoWriteStep DEF RefInv
  <2>3. OnePtr'
    BY OnePtrStep
  <2> QED
    BY <2>1, <2>2, <2>3 DEF RefInv
<1> QED
  BY <1>1, <1>2, <1>3, InfoNeverReportsLess, PTL DEF Spec, Refines, Abs!Spec
=============================================================================
