--------------------------- MODULE KeyspaceProps ---------------------------
(***************************************************************************)
(* What the keyspace of the Go server must do: its implementation of       *)
(* VolatileMap, and the invariants and action properties that VolatileMap  *)
(* cannot express because they are about memory, capacity and eviction.    *)
(***************************************************************************)
EXTENDS Keyspace

\* The deadline an object has, and the entry a client sees under k.
Entry(k) == [val |-> store[k].val, dl |-> expires[store[k].ptr]]

\* The map clients see, and the write in progress.
Map == [k \in Keys |-> IF Found(k) THEN Entry(k) ELSE Nil]
Req == IF pend = Nil THEN Nil
       ELSE [cmd |-> pend.cmd, key |-> pend.key, val |-> pend.val, dl |-> expires[pend.ptr]]

\* Nil is none of their records.
ASSUME EntryAssumption ==
  Nil \notin [val : Values, dl : Deadline \cup {Nil}]
    \cup [cmd : {"SET", "INCR"}, key : Keys, val : Values, dl : Deadline \cup {Nil}]

Abs == INSTANCE VolatileMap WITH map <- Map, req <- Req

\* The server keeps the promises of VolatileMap: every reply of GET, TTL, DEL,
\* EXPIRE, INCR and SET is one the map gives, although keys are deleted
\* lazily, by the cron or by eviction, and the clock moves within a command.
Refines == Abs!Spec

\* Put makes room first (store.go:34), so the keyspace never exceeds KeysLimit.
Capacity == Cardinality(Present) <= KeysLimit

\* The counter of INFO may drift (a Put over a stored key counts too), but
\* only upwards: it never reports fewer keys than are stored.
StatBound == stat >= Cardinality(Present)

\* Every deadline belongs to a stored object, to the one about to be stored,
\* or to one that was overwritten.
Owned == {store[k].ptr : k \in Present} \cup (IF pend = Nil THEN {} ELSE {pend.ptr})
Orphans == {o \in Objs : expires[o] # Nil} \ Owned

\* Entries of expires lose their owner only when Put overwrites a key: no
\* expiration, deletion or eviction leaks one, and none is ever adopted again.
OrphansOnlyByOverwrite ==
  [][ /\ Orphans \subseteq Orphans'
      /\ Orphans' # Orphans =>
           /\ pend # Nil /\ pend' = Nil /\ pend.key \in Present
           /\ Orphans' = Orphans \cup {store[pend.key].ptr} ]_vars

\* The keys the evicting loop may have deleted so far.
Budget == IF EvictionStrategy = "simple-first" \/ (pc = "range" /\ EvictCount < 1)
          THEN 1 ELSE EvictCount

\* A key is lost only once it has expired, because a DEL named it, or to an
\* eviction; and a write evicts only when the keyspace was full.
LossHasCause ==
  [][ \A k \in Present : store'[k] = Nil =>
        \/ hasExpired(k, now')
        \/ last' # Nil /\ last'.cmd = "DEL" /\ k \in last'.keys
        \/ pc \in {"pop", "range"}
           /\ (pend # Nil => Cardinality(Present) + (Budget - n) >= KeysLimit) ]_vars

PoolKeys == {pool[i].key : i \in DOMAIN pool}

\* keyset guards against a key being in the pool twice, so it must cover the
\* pool, and the pool must have no duplicates and stay within its bound.
PoolInv ==
  /\ PoolKeys \subseteq keyset
  /\ Cardinality(PoolKeys) = Len(pool)
  /\ Len(pool) <= PoolSizeMax

\* When an eviction drains the pool (the shipped configuration), nothing
\* stays in it or in keyset, and while it is filled every candidate is a
\* stored key with the access time it has now: no candidate is ever stale.
PoolFresh ==
  /\ pc \notin {"populate", "pop"} => pool = <<>> /\ keyset = {}
  /\ keyset = PoolKeys
  /\ \A i \in DOMAIN pool : pool[i].key \in Present /\ store[pool[i].key].at = pool[i].at

\* A key whose deadline has passed and that is still stored.
Overdue(k) == k \in Present /\ expires[store[k].ptr] # Nil /\ expires[store[k].ptr] <= now

\* With at most ExpireLimit keys, the cron gives the memory of expired keys
\* back although nobody asks for them, as long as the event loop comes round.
ExpiredReclaimed == \A k \in Keys : Overdue(k) ~> ~Overdue(k)

\* Whatever the engine begins it finishes: an eviction, a write, or the cron,
\* whose rounds go on as long as they find enough expired keys.
EngineReturns == pc # "idle" ~> pc = "idle"

\* eviction.go:18-19: "Randomly removes keys to make space for the new data
\* added.  The number of keys removed will be sufficient to free up least 10%
\* space": after the loop a tenth of KeysLimit is free.
FreesTenth ==
  pend # Nil /\ EvictDone => 10 * Cardinality(Present) <= 9 * KeysLimit
=============================================================================
