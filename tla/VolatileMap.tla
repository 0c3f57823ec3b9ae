---------------------------- MODULE VolatileMap ----------------------------
(***************************************************************************)
(* What the commands of the Go server promise their clients: a map whose   *)
(* entries vanish the moment their deadline is reached, and that may       *)
(* forget entries to make room.  Objects, lazy deletion, sampling and the  *)
(* eviction pool are not visible here.  Keyspace implements it (Refines in *)
(* KeyspaceProps).                                                         *)
(***************************************************************************)
EXTENDS Integers, FiniteSets

CONSTANTS Keys, Nil, Ok, Err, Text, IntHalf, Secs, MsPerSec, Start, MaxNow

Ints == -IntHalf .. IntHalf - 1

VARIABLES
  map,    \* key -> value and deadline (Nil: never), or Nil
  now,    \* the time, in milliseconds
  req,    \* the write in progress, or Nil
  last    \* the reply this step sent, or Nil

vars == <<map, now, req, last>>

\* The entries of f that exist at time t.
Live(f, t) == [k \in Keys |-> IF f[k] # Nil /\ (f[k].dl # Nil => t < f[k].dl)
                              THEN f[k] ELSE Nil]

Reply(cmd, keys, r) == last' = [cmd |-> cmd, keys |-> keys, reply |-> r]

Later == now' \in now .. MaxNow

Increment(i) == IF i = IntHalf - 1 THEN -IntHalf ELSE i + 1

Init ==
  /\ map = [k \in Keys |-> Nil]
  /\ now = Start /\ req = Nil /\ last = Nil

\* Entries vanish on time.
Tick ==
  /\ now' > now /\ Later
  /\ map' = Live(map, now')
  /\ last' = Nil /\ UNCHANGED req

\* Any entries may be forgotten.
Forget ==
  /\ \E S \in SUBSET Keys : map' = [k \in Keys |-> IF k \in S THEN Nil ELSE map[k]]
  /\ last' = Nil /\ UNCHANGED <<now, req>>

\* SET k v EX d: the deadline runs from now, and only for a positive d.
RequestSet(k, v, d) ==
  /\ req = Nil
  /\ req' = [cmd |-> "SET", key |-> k, val |-> v,
             dl |-> IF d > 0 THEN now + d * MsPerSec ELSE Nil]
  /\ last' = Nil /\ UNCHANGED <<map, now>>

\* INCR of a key that does not exist makes it 1, without a deadline.
RequestIncr(k) ==
  /\ req = Nil /\ map[k] = Nil
  /\ req' = [cmd |-> "INCR", key |-> k, val |-> Increment(0), dl |-> Nil]
  /\ last' = Nil /\ UNCHANGED <<map, now>>

\* The write takes effect, deadline included, and is answered.
Complete ==
  /\ req # Nil
  /\ map' = Live([map EXCEPT ![req.key] = [val |-> req.val, dl |-> req.dl]], now)
  /\ Reply(req.cmd, {req.key}, IF req.cmd = "SET" THEN Ok ELSE req.val)
  /\ req' = Nil /\ UNCHANGED now

\* GET answers with the value the key has, if it has one, when it answers.
Get(k) ==
  /\ req = Nil
  /\ Later /\ map' = Live(map, now')
  /\ Reply("GET", {k}, IF map'[k] = Nil THEN Nil ELSE map'[k].val)
  /\ UNCHANGED req

\* TTL answers with the whole seconds left; what it answers when the key
\* vanishes during the call is left open.
Ttl(k) ==
  /\ req = Nil
  /\ Later /\ map' = Live(map, now')
  /\ \/ map[k] = Nil /\ Reply("TTL", {k}, -2)
     \/ /\ map'[k] # Nil
        /\ Reply("TTL", {k}, IF map[k].dl = Nil THEN -1 ELSE (map[k].dl - now') \div MsPerSec)
     \/ /\ map[k] # Nil /\ map'[k] = Nil
        /\ last' # Nil /\ last'.cmd = "TTL" /\ last'.keys = {k}
  /\ UNCHANGED req

\* DEL counts every key that exists; it may count keys that just vanished.
Delete(D) ==
  /\ req = Nil
  /\ map' = [k \in Keys |-> IF k \in D THEN Nil ELSE map[k]]
  /\ \E c \in Cardinality({k \in D : map[k] # Nil}) .. Cardinality(D) : Reply("DEL", D, c)
  /\ UNCHANGED <<now, req>>

\* EXPIRE gives an existing key a new deadline.
Expire(k, d) ==
  /\ req = Nil
  /\ Later
  /\ IF map[k] = Nil
     THEN map' = Live(map, now') /\ Reply("EXPIRE", {k}, 0)
     ELSE /\ map' = Live([map EXCEPT ![k].dl = now' + d * MsPerSec], now')
          /\ Reply("EXPIRE", {k}, 1)
  /\ UNCHANGED req

\* INCR of an existing key keeps its deadline, and refuses text.
Incr(k) ==
  /\ req = Nil /\ map[k] # Nil
  /\ IF map[k].val \in Text
     THEN map' = map /\ Reply("INCR", {k}, Err)
     ELSE /\ map' = [map EXCEPT ![k].val = Increment(map[k].val)]
          /\ Reply("INCR", {k}, Increment(map[k].val))
  /\ UNCHANGED <<now, req>>

\* INFO reports at least the keys that exist.
Info ==
  /\ req = Nil
  /\ last' # Nil /\ last'.cmd = "INFO"
  /\ last'.reply >= Cardinality({k \in Keys : map[k] # Nil})
  /\ UNCHANGED <<map, now, req>>

\* LRU answers OK, whatever was forgotten for it.
Lru ==
  /\ req = Nil
  /\ Reply("LRU", {}, Ok)
  /\ UNCHANGED <<map, now, req>>

Next ==
  \/ Tick \/ Forget \/ Complete \/ Info \/ Lru
  \/ \E k \in Keys, v \in Ints \cup Text, d \in Secs : RequestSet(k, v, d)
  \/ \E k \in Keys, d \in Secs : Expire(k, d)
  \/ \E k \in Keys : RequestIncr(k) \/ Get(k) \/ Ttl(k) \/ Incr(k)
  \/ \E D \in SUBSET Keys : Delete(D)

Spec == Init /\ [][Next]_vars
=============================================================================
