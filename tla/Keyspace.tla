------------------------------ MODULE Keyspace ------------------------------
(***************************************************************************)
(* The data core of the Go server: the keyspace (store.go), lazy and       *)
(* active expiration (expire.go), eviction (eviction.go with               *)
(* EvictionPool) and the commands of eval.go that work on them.            *)
(*                                                                         *)
(* One goroutine runs all of this, so a command is atomic unless it calls  *)
(* a loop or reads the clock more than once: Put, the eviction loops and   *)
(* the rounds of the expiration cron are steps of their own (pc), between  *)
(* which only the clock moves, and the clock may move within a command     *)
(* where the code reads it again.                                          *)
(***************************************************************************)
EXTENDS EvictionPool

CONSTANTS
  Objs,              \* addresses of objects (*Obj)
  Text,              \* values that strconv.ParseInt rejects
  IntHalf,           \* the integers are -IntHalf .. IntHalf-1 (2^63)
  U64,               \* deadlines are kept modulo this (2^64)
  Ok, Err,           \* replies: +OK and an error
  Secs,              \* arguments of EX and EXPIRE; -1 also stands for no EX
  KeysLimit,         \* config.KeysLimit (100)
  EvictCount,        \* int16(EvictionRatio * KeysLimit) (40)
  EvictionStrategy,  \* config.EvictionStrategy ("allkeys-lru")
  SampleSize,        \* keys offered to the pool by one eviction (5)
  ExpireLimit,       \* keys visited by one round of the cron (20)
  Start, MaxNow,     \* the clock, in milliseconds, runs from Start to MaxNow
  MaxStat            \* bound of the model: no write begins once stat has reached it

Ints == -IntHalf .. IntHalf - 1
Values == Ints \cup Text

ASSUME KeyspaceAssumption ==
  /\ IntHalf \in Nat \ {0} /\ U64 \in Nat \ {0}
  /\ Text \cap Ints = {} /\ Nil \notin Objs \cup Values
  /\ Secs \subseteq Int
  /\ KeysLimit \in Nat /\ EvictCount \in Int
  /\ EvictionStrategy \in {"simple-first", "allkeys-random", "allkeys-lru"}
  /\ SampleSize \in Nat \ {0} /\ ExpireLimit \in Nat \ {0}
  /\ Start \in Nat /\ MaxNow \in Nat /\ Start <= MaxNow /\ MaxStat \in Nat

VARIABLES
  store,     \* key -> object (its address, Value and LastAccessedAt), or Nil
  expires,   \* address -> deadline, or Nil; its keys keep the addresses in use
  stat,      \* KeyspaceStat[0]["keys"]; the nil map reads as 0
  now,       \* time.Now().UnixMilli()
  pc,        \* where the engine is: idle, put, populate, pop, range or cron
  todo,      \* keys the range loop of populateEvictionPool has not visited
  n,         \* iterations that loop, or the evicting loop, still has
  pend,      \* the write Put is working for; Nil while evicting for LRU
  last       \* the reply this step sent: command, keys and reply, or Nil

vars == <<store, expires, stat, now, pc, todo, n, pend, last, pool, keyset>>

Obj == [ptr : Objs, val : Values, at : Ticks]
Deadline == 0 .. U64 - 1
Write == [cmd : {"SET", "INCR"}, key : Keys, ptr : Objs, val : Values]
Commands == {"SET", "GET", "TTL", "DEL", "EXPIRE", "INCR", "INFO", "LRU"}
Answer == [cmd : Commands, keys : SUBSET Keys, reply : Int \cup Text \cup {Nil, Ok, Err}]
ASSUME NilAssumption == Nil \notin Obj \cup Write \cup Deadline \cup Answer
-----------------------------------------------------------------------------
Present == {k \in Keys : store[k] # Nil}

\* Addresses the garbage collector cannot hand out again.
InUse == {store[k].ptr : k \in Present} \cup {o \in Objs : expires[o] # Nil}

\* A reading of the clock in the course of a command that began now.
Readings == now .. MaxNow

\* hasExpired of the object stored under k, at time t.
hasExpired(k, t) == expires[store[k].ptr] # Nil /\ expires[store[k].ptr] <= t

\* setExpiry's deadline, in unsigned 64-bit arithmetic.
Expiry(t, secs) == (t + secs * MsPerSec) % U64

\* The object has the integer encoding, which deduceTypeEncoding gave it.
assertEncoding(k) == store[k].val \in Ints

\* i++ on an int64.
Increment(i) == IF i = IntHalf - 1 THEN -IntHalf ELSE i + 1

\* Del, forgetting the entry in expires.
DelLeaks(D) ==
  LET gone == D \cap Present IN
  /\ store' = [k \in Keys |-> IF k \in gone THEN Nil ELSE store[k]]
  /\ stat' = stat - Cardinality(gone)
  /\ UNCHANGED expires

\* Del, counting down for an absent key too.
DelUncounted(D) ==
  LET gone == D \cap Present IN
  /\ store' = [k \in Keys |-> IF k \in gone THEN Nil ELSE store[k]]
  /\ expires' = [o \in Objs |-> IF \E k \in gone : store[k].ptr = o THEN Nil ELSE expires[o]]
  /\ stat' = stat - Cardinality(D)

\* Del of every key of D; an absent key changes nothing.
Del(D) ==
  LET gone == D \cap Present IN
  /\ store' = [k \in Keys |-> IF k \in gone THEN Nil ELSE store[k]]
  /\ expires' = [o \in Objs |-> IF \E k \in gone : store[k].ptr = o THEN Nil ELSE expires[o]]
  /\ stat' = stat - Cardinality(gone)

\* NewObj at address o: it has a deadline only if d is positive.
NewObj(o, d) == expires' = IF d > 0 THEN [expires EXCEPT ![o] = Expiry(now, d)] ELSE expires

Reply(cmd, keys, r) == last' = [cmd |-> cmd, keys |-> keys, reply |-> r]
Silent == last' = Nil

\* Get(k) found an object that has not expired ...
Found(k) == k \in Present /\ ~hasExpired(k, now)

\* ... and stamps it; otherwise it deletes the key if it is there.
Touch(k) == store' = [store EXCEPT ![k].at = getCurrentClock(now)]
-----------------------------------------------------------------------------
Init ==
  /\ store = [k \in Keys |-> Nil]
  /\ expires = [o \in Objs |-> Nil]
  /\ stat = 0 /\ now = Start
  /\ pc = "idle" /\ todo = {} /\ n = 0 /\ pend = Nil
  /\ pool = <<>> /\ keyset = {}
  /\ last = Nil

\* Time passes; the server does nothing.
Tick ==
  /\ now' \in now + 1 .. MaxNow
  /\ Silent /\ UNCHANGED <<store, expires, stat, pc, todo, n, pend, pool, keyset>>

\* SET k v [EX d]: make the object, then Put it.
\* The reply is sent when Put is done.
evalSET(k, v, d) ==
  /\ pc = "idle" /\ stat < MaxStat
  /\ \E o \in Objs \ InUse :
       /\ NewObj(o, d)
       /\ pend' = [cmd |-> "SET", key |-> k, ptr |-> o, val |-> v]
  /\ pc' = "put"
  /\ Silent /\ UNCHANGED <<store, stat, now, todo, n, pool, keyset>>

\* GET that trusts Get and never looks at the deadline again.
evalGETOnce(k) ==
  /\ pc = "idle"
  /\ now' \in Readings
  /\ \/ /\ Found(k)
        /\ Touch(k) /\ UNCHANGED <<expires, stat>>
        /\ Reply("GET", {k}, store[k].val)
     \/ /\ ~Found(k)
        /\ Del({k})
        /\ Reply("GET", {k}, Nil)
  /\ UNCHANGED <<pc, todo, n, pend, pool, keyset>>

\* GET k: expiry is tested by Get and, at a later reading, by evalGET itself.
evalGET(k) ==
  /\ pc = "idle"
  /\ now' \in Readings
  /\ \/ /\ Found(k)
        /\ Touch(k) /\ UNCHANGED <<expires, stat>>
        /\ Reply("GET", {k}, IF hasExpired(k, now') THEN Nil ELSE store[k].val)
     \/ /\ ~Found(k)
        /\ Del({k})
        /\ Reply("GET", {k}, Nil)
  /\ UNCHANGED <<pc, todo, n, pend, pool, keyset>>

\* TTL k: Get, the comparison and the subtraction read the clock separately;
\* the subtraction is unsigned.
evalTTL(k) ==
  /\ pc = "idle"
  /\ now' \in Readings
  /\ \/ /\ Found(k)
        /\ Touch(k) /\ UNCHANGED <<expires, stat>>
        /\ LET exp == expires[store[k].ptr] IN
           \/ exp = Nil /\ Reply("TTL", {k}, -1)
           \/ \E t \in now .. now' :
                \/ exp # Nil /\ exp < t /\ Reply("TTL", {k}, -2)
                \/ exp # Nil /\ exp >= t
                   /\ Reply("TTL", {k}, ((exp - now') % U64) \div MsPerSec)
     \/ /\ ~Found(k)
        /\ Del({k})
        /\ Reply("TTL", {k}, -2)
  /\ UNCHANGED <<pc, todo, n, pend, pool, keyset>>

\* DEL keys: counts the keys it removed, expired or not.
evalDEL(D) ==
  /\ pc = "idle"
  /\ Del(D)
  /\ Reply("DEL", D, Cardinality(D \cap Present))
  /\ UNCHANGED <<now, pc, todo, n, pend, pool, keyset>>

\* EXPIRE k d: any d is accepted, a negative one expires the key at once.
evalEXPIRE(k, d) ==
  /\ pc = "idle"
  /\ \/ /\ Found(k)
        /\ Touch(k) /\ UNCHANGED stat
        /\ now' \in Readings
        /\ expires' = [expires EXCEPT ![store[k].ptr] = Expiry(now', d)]
        /\ Reply("EXPIRE", {k}, 1)
     \/ /\ ~Found(k)
        /\ Del({k}) /\ UNCHANGED now
        /\ Reply("EXPIRE", {k}, 0)
  /\ UNCHANGED <<pc, todo, n, pend, pool, keyset>>

\* INCR k: a found integer is changed in place and keeps its deadline; a
\* missing key is Put as 0 and then incremented.
evalINCR(k) ==
  /\ pc = "idle"
  /\ \/ /\ Found(k) /\ assertEncoding(k)
        /\ store' = [store EXCEPT ![k].at = getCurrentClock(now),
                                  ![k].val = Increment(store[k].val)]
        /\ Reply("INCR", {k}, Increment(store[k].val))
        /\ UNCHANGED <<expires, stat, pc, pend>>
     \/ /\ Found(k) /\ ~assertEncoding(k)
        /\ Touch(k)
        /\ Reply("INCR", {k}, Err)
        /\ UNCHANGED <<expires, stat, pc, pend>>
     \/ /\ ~Found(k) /\ stat < MaxStat
        /\ Del({k})
        /\ \E o \in Objs \ InUse :
             pend' = [cmd |-> "INCR", key |-> k, ptr |-> o, val |-> Increment(0)]
        /\ pc' = "put"
        /\ Silent
  /\ UNCHANGED <<now, todo, n, pool, keyset>>

\* INFO reports the counter of keys.
evalINFO ==
  /\ pc = "idle"
  /\ Reply("INFO", {}, stat)
  /\ UNCHANGED <<store, expires, stat, now, pc, todo, n, pend, pool, keyset>>
-----------------------------------------------------------------------------
\* evictAllkeysLRU first offers a sample of keys to the pool.
StartLRU ==
  /\ pc' = "populate" /\ todo' = Present /\ n' = SampleSize
  /\ Silent /\ UNCHANGED <<store, expires, stat, now, pend, pool, keyset>>

\* LRU, the command.
evalLRU ==
  /\ pc = "idle"
  /\ StartLRU

\* Put evicting whether or not the keyspace is full.
evictAlways ==
  /\ pc = "put"
  /\ StartLRU

\* The range loops counting before they delete.
evictAtMost ==
  /\ pc = "put" /\ Cardinality(Present) >= KeysLimit
  /\ pc' = "range" /\ n' = EvictCount
  /\ Silent /\ UNCHANGED <<store, expires, stat, now, todo, pend, pool, keyset>>

\* Put on a full keyspace evicts first, by the configured strategy.  The two
\* range loops delete before they count, so they delete one key at least.
evict ==
  /\ pc = "put" /\ Cardinality(Present) >= KeysLimit
  /\ \/ EvictionStrategy = "allkeys-lru" /\ StartLRU
     \/ /\ EvictionStrategy # "allkeys-lru"
        /\ pc' = "range"
        /\ n' = IF EvictionStrategy = "simple-first" \/ EvictCount < 1 THEN 1 ELSE EvictCount
        /\ Silent /\ UNCHANGED <<store, expires, stat, now, todo, pend, pool, keyset>>

Sampled == n = 0 \/ todo = {}

\* populateEvictionPool: the next key of the map's random iteration.
populateEvictionPool ==
  /\ pc = "populate" /\ ~Sampled
  /\ \E k \in todo : Push(getCurrentClock(now), k, store[k].at) /\ todo' = todo \ {k}
  /\ n' = n - 1
  /\ Silent /\ UNCHANGED <<store, expires, stat, now, pc, pend>>

\* Evicting one candidate too few.
StartEvictingShort ==
  /\ pc = "populate" /\ Sampled
  /\ pc' = "pop" /\ n' = EvictCount - 1 /\ todo' = {}
  /\ Silent /\ UNCHANGED <<store, expires, stat, now, pend, pool, keyset>>

\* ... and then evicts up to evictCount of the candidates.
StartEvicting ==
  /\ pc = "populate" /\ Sampled
  /\ pc' = "pop" /\ n' = EvictCount /\ todo' = {}
  /\ Silent /\ UNCHANGED <<store, expires, stat, now, pend, pool, keyset>>

\* The candidate's key is deleted, if it is still there.
evictAllkeysLRU ==
  /\ pc = "pop" /\ n > 0 /\ pool # <<>>
  /\ Pop
  /\ Del({Head(pool).key})
  /\ n' = n - 1
  /\ Silent /\ UNCHANGED <<now, pc, todo, pend>>

\* evictFirst and evictAllkeysRandom: the next key of the map's iteration.
evictRange ==
  /\ pc = "range" /\ n > 0
  /\ \E k \in Present : Del({k})
  /\ n' = n - 1
  /\ Silent /\ UNCHANGED <<now, pc, todo, pend, pool, keyset>>

EvictDone ==
  \/ pc = "pop" /\ (n <= 0 \/ pool = <<>>)
  \/ pc = "range" /\ (n = 0 \/ Present = {})

\* The rest of Put: the key now holds the new object, whatever it held before.
Put ==
  /\ pend # Nil
  /\ EvictDone \/ (pc = "put" /\ Cardinality(Present) < KeysLimit)
  /\ store' = [store EXCEPT ![pend.key] =
                 [ptr |-> pend.ptr, val |-> pend.val, at |-> getCurrentClock(now)]]
  /\ stat' = stat + 1
  /\ Reply(pend.cmd, {pend.key}, IF pend.cmd = "SET" THEN Ok ELSE pend.val)
  /\ pend' = Nil /\ pc' = "idle" /\ n' = 0
  /\ UNCHANGED <<expires, now, todo, pool, keyset>>

\* The LRU command is done.
LRUDone ==
  /\ pend = Nil /\ EvictDone
  /\ Reply("LRU", {}, Ok)
  /\ pc' = "idle" /\ n' = 0
  /\ UNCHANGED <<store, expires, stat, now, todo, pend, pool, keyset>>
-----------------------------------------------------------------------------
\* The event loop calls DeleteExpiredKeys at most once a second.
StartCron ==
  /\ pc = "idle"
  /\ pc' = "cron"
  /\ Silent /\ UNCHANGED <<store, expires, stat, now, todo, n, pend, pool, keyset>>

\* The test of frac the wrong way.
ManyExpired(D) == 4 * Cardinality(D) >= ExpireLimit

\* The test of frac against 0.25, turned round.
FewExpired(D) == 4 * Cardinality(D) < ExpireLimit

\* A round that visits one key too few.
expireSampleShort ==
  /\ pc = "cron"
  /\ \E S \in SUBSET Present :
       LET D == {k \in S : hasExpired(k, now)} IN
       /\ Cardinality(S) = ExpireLimit - 1 \/ (Cardinality(S) < ExpireLimit - 1 /\ S = Present)
       /\ Del(D)
       /\ pc' = IF FewExpired(D) THEN "idle" ELSE "cron"
  /\ Silent /\ UNCHANGED <<now, todo, n, pend, pool, keyset>>

\* A round of DeleteExpiredKeys: expireSample visits up to ExpireLimit keys in
\* the map's random order, reads the clock for each and deletes the expired
\* ones; another round follows unless fewer than a quarter of ExpireLimit were.
expireSample ==
  /\ pc = "cron"
  /\ now' \in Readings
  /\ \E S \in SUBSET Present : \E D \in SUBSET {k \in S : hasExpired(k, now')} :
       /\ Cardinality(S) = ExpireLimit \/ (Cardinality(S) < ExpireLimit /\ S = Present)
       /\ {k \in S : hasExpired(k, now)} \subseteq D
       /\ Del(D)
       /\ pc' = IF FewExpired(D) THEN "idle" ELSE "cron"
  /\ Silent /\ UNCHANGED <<todo, n, pend, pool, keyset>>
-----------------------------------------------------------------------------
Command ==
  \/ \E k \in Keys, v \in Values, d \in Secs : evalSET(k, v, d)
  \/ \E k \in Keys : evalGET(k) \/ evalTTL(k) \/ evalINCR(k)
  \/ \E k \in Keys, d \in Secs : evalEXPIRE(k, d)
  \/ \E D \in SUBSET Keys : evalDEL(D)
  \/ evalINFO
  \/ evalLRU

\* The steps the engine takes on its own once it has begun something.
Internal ==
  \/ evict \/ populateEvictionPool \/ StartEvicting \/ evictAllkeysLRU \/ evictRange
  \/ Put \/ LRUDone
  \/ expireSample

Next == Tick \/ Command \/ StartCron \/ Internal

Spec == Init /\ [][Next]_vars

\* The engine goroutine does not stop in the middle of a command.
FairSpec == Spec /\ WF_vars(Internal)

\* ... and the event loop comes round again and again: it polls without a
\* timeout, so this holds only while clients keep sending commands.
LoopSpec == FairSpec /\ SF_vars(StartCron)
-----------------------------------------------------------------------------
TypeOK ==
  /\ store \in [Keys -> Obj \cup {Nil}]
  /\ expires \in [Objs -> Deadline \cup {Nil}]
  /\ stat \in Int
  /\ now \in Start .. MaxNow
  /\ pc \in {"idle", "put", "populate", "pop", "range", "cron"}
  /\ todo \in SUBSET Keys
  /\ n \in Int
  /\ pend \in Write \cup {Nil}
  /\ last # Nil => last.cmd \in Commands /\ last.keys \in SUBSET Keys
  /\ pool \in Seq(PoolItem)
  /\ keyset \in SUBSET Keys
=============================================================================
