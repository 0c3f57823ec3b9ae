---------------------------- MODULE EvictionPool ----------------------------
(***************************************************************************)
(* The clock of the approximated LRU and the bounded pool of eviction      *)
(* candidates: go/core/eviction.go (clock, idle time) and                  *)
(* go/core/evictionpool.go (the pool).  The map from key to pool item is   *)
(* only ever asked whether a key is in it, so keyset is a set of keys.     *)
(***************************************************************************)
EXTENDS Integers, FiniteSets, Sequences, Functions

CONSTANTS
  Keys,         \* the keys clients use
  Nil,          \* Go's nil: no object, no deadline, no pending write
  MsPerSec,     \* milliseconds in a second (1000)
  ClockMod,     \* the LRU clock keeps the seconds modulo this (2^24)
  PoolSizeMax   \* ePoolSizeMax (16)

ASSUME PoolAssumption ==
  /\ Nil \notin Keys /\ IsFiniteSet(Keys)
  /\ MsPerSec \in Nat \ {0} /\ ClockMod \in Nat \ {0} /\ PoolSizeMax \in Nat \ {0}

VARIABLES
  pool,         \* EvictionPool.pool: the candidates, the longest idle first
  keyset        \* the domain of EvictionPool.keyset

Ticks == 0 .. ClockMod - 1

PoolItem == [key : Keys, at : Ticks]

\* The clock without the mask.
getCurrentClockUnmasked(ms) == ms \div MsPerSec

\* The clock stored in objects: the seconds, truncated to 24 bits.
getCurrentClock(ms) == (ms \div MsPerSec) % ClockMod

\* How long ago `last' was, seen from clock c.  Once the clock has wrapped the
\* code counts one second too few.
getIdleTime(c, last) == IF c >= last THEN c - last ELSE (ClockMod - 1 - last) + c

Less(c, a, b) == getIdleTime(c, a.at) > getIdleTime(c, b.at)

\* sort.Sort: any order of the items in which none precedes a more idle one.
\* The sort is not stable, so ties come out in any order.
Sorted(c, s) ==
  { t \in { [i \in DOMAIN s |-> s[p[i]]] : p \in Bijection(DOMAIN s, DOMAIN s) } :
      \A i, j \in DOMAIN s : i < j => ~Less(c, t[j], t[i]) }

\* Push without the membership test of line 35.
PushNoCheck(c, k, at) ==
  /\ Len(pool) < PoolSizeMax
  /\ pool' \in Sorted(c, Append(pool, [key |-> k, at |-> at]))
  /\ keyset' = keyset \cup {k}

\* Push(key, lastAccessedAt): a known key is ignored; while there is room the
\* item is added and the pool sorted; a full pool drops its head for a more
\* recently used item, appended unsorted, and keyset keeps the dropped key.
Push(c, k, at) ==
  LET item == [key |-> k, at |-> at] IN
  \/ /\ k \notin keyset /\ Len(pool) < PoolSizeMax
     /\ pool' \in Sorted(c, Append(pool, item))
     /\ keyset' = keyset \cup {k}
  \/ /\ k \notin keyset /\ Len(pool) >= PoolSizeMax /\ at > Head(pool).at
     /\ pool' = Append(Tail(pool), item)
     /\ keyset' = keyset \cup {k}
  \/ /\ k \in keyset \/ (Len(pool) >= PoolSizeMax /\ at <= Head(pool).at)
     /\ UNCHANGED <<pool, keyset>>

\* Pop leaving the key registered.
PopKeepsKey ==
  /\ pool' = Tail(pool)
  /\ UNCHANGED keyset

\* Pop: take the head off a pool that is not empty.
Pop ==
  /\ pool' = Tail(pool)
  /\ keyset' = keyset \ {Head(pool).key}
=============================================================================
