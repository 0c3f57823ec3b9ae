# Verification of DiceDB (Go)

DiceDB is an in-memory key-value server that speaks the Redis protocol. This
directory holds TLA+ modules translated from its source, TLC configurations
that check them on small instances, and TLAPS proofs about them.

    tlc -workers 2 -config MCKeyspace.cfg MCKeyspace     # one run
    tlapm ServerProofs.tla                                # one module of proofs

`PROJECT.json` ties every definition to the lines it models, every run to its
properties, and every property to a mutation of the code that breaks it.

## The system

| Component | State | Operations | Interaction |
|---|---|---|---|
| Keyspace (`go/core/store.go`, `expire.go`, `eviction.go`, `evictionpool.go`, `stats.go`) | `store`: key to object; `expires`: object to deadline; `KeyspaceStat`; `ePool` | `Put`, `Get`, `Del`, `setExpiry`, `evict`, `DeleteExpiredKeys` | called by the commands and by the event loop, all in one goroutine |
| Commands (`go/core/eval.go`) | none of their own | SET, GET, TTL, DEL, EXPIRE, INCR, INFO, LRU, BGREWRITEAOF, SLEEP, MULTI, EXEC, DISCARD, ... | the only way clients reach the keyspace |
| Transactions (`go/core/comm.go`, `EvalAndRespond`) | per client: `isTxn`, `cqueue` | queue, execute, discard | between the event loop and the commands |
| Event loop and shutdown (`go/server/async_tcp.go`, `go/main.go`, `go/core/events.go`) | `eStatus`, `connectedClients`, `lastCronExecTime` | accept, read, respond, cron, poll; wait for a signal, shut down | two goroutines share `eStatus` |
| Connections (`connectedClients`) and IO multiplexer (`go/core/iomultiplexer`) | descriptors and the clients behind them, in each process; what epoll watches, for all | `accept`, `Subscribe`, `Poll`, `read`, `close` | called by the event loop; inherited by the child of BGREWRITEAOF |
| AOF (`go/core/aof.go`) | a file | `DumpAllAOF` in a forked child | forked by BGREWRITEAOF and at shutdown |
| RESP codec (`go/core/resp.go`; `java/.../RESPDecoder.java`) | none; the stream it is applied to | `Decode`, `Encode` | applied to each read and reply |
| go2 and Java echo servers | a counter of connections (go2), a thread per connection (Java) | accept, read, write, close | stand alone |
| Load generator (`go/storm/set`), Rust client | none | send, wait for the reply | clients of the servers above |

What is hard in it: the clock moves inside a command that reads it several
times; keys die lazily, by a sampling cron, by eviction or by DEL, and four
structures (`store`, `expires`, the counter, the pool) must keep up; the
eviction pool outlives the keys it names; the signal handler and the engine
race on one word; a fork copies the store at an arbitrary point of a batch, and
with it the descriptors of every client; a read takes whatever bytes there are
for whole commands; descriptor numbers are reused while events that carry them
wait.

What makes each part correct:

* Keyspace: clients see a map whose entries vanish on time and are otherwise
  lost only to eviction; evictions happen only when the keyspace is full and
  keep it within `KeysLimit`; memory of keys that are gone is given back; the
  pool names each key once and no stale key.
* Event loop and shutdown: the status tells the truth while the handler waits;
  once the engine is stopped it stays stopped; a signal ends the process;
  what was answered is in the dump.
* Transactions: server and client agree on the transaction a connection is in;
  every command is answered once; nothing discarded takes effect.
* AOF: a dump is the store of one moment; what overlapping, failing or
  interrupted dumps leave is still made of such moments, and of what the server
  found in the file.
* Codec and connection: what arrives whole is executed exactly; of what does
  not, only the last command can be spoilt, and the rest of it is not taken for
  another unless a read begins at a `*` within it; what the server encodes is
  read back, but that Go's own decoder misreads negative integers.
* Connections: numbers, connections and epoll agree; an event is true when it
  is handled; a command is replied to once, in order, by the process that read
  it, or lost with that process, that connection or a write that was refused,
  and only the batch of the fork is replied to by both; everyone is heard, and
  every connection ends.
* Echo servers: what comes back is what was sent; everyone is served.

## Modules

| Module | Models |
|---|---|
| `EvictionPool` | `eviction.go` (LRU clock, idle time) and `evictionpool.go` |
| `Keyspace` | `store.go`, `expire.go`, `eviction.go` and the commands of `eval.go` that touch the keyspace; extends `EvictionPool` |
| `VolatileMap` | nothing in particular: the map clients may rely on, which `Keyspace` implements |
| `KeyspaceProps` | the properties of `Keyspace`, with the refinement mapping |
| `KeyspaceProofs` | its theorems: types, limit and pool; losses, leaks and the refinement |
| `Server` | `async_tcp.go`, `main.go`, `events.go`: the engine and the signal handler |
| `ServerProofs` | its theorems |
| `Txn` | `comm.go` and `EvalAndRespond`, `executeCommand` of `eval.go` |
| `TxnProofs` | its theorems |
| `Aof` | `aof.go`, `events.go`, `evalBGREWRITEAOF`: forks, dumps and the file |
| `AofProofs` | its theorems |
| `Resp` | `resp.go`, and `RESPDecoder.java` for the same types |
| `Wire` | one connection, byte by byte: `sync_tcp.go`, `Client.Write`, the client of `storm/set`; extends `Resp` |
| `WireProofs` | its theorems, and those about the codec they rest on |
| `Descriptors` | connections of the event loop, `iomultiplexer` on Linux, and what BGREWRITEAOF's fork does to them |
| `DescriptorsProofs` | its theorems |
| `Echo` | `sync_server.go` of go2 and `TcpSync.java`, with their clients |
| `EchoProofs` | its theorems |
| `Recursion` | nothing: lemmas about recursive functions, sums and flattened sequences, for `AofProofs`, `TxnProofs` and `WireProofs` |
| `MCKeyspace`, `MCServer`, `MCTxn`, `MCAof`, `MCWire` | constants and symmetry for TLC |

### Keyspace

State. `store[k]` is the object under `k`, with the address it has
(`ptr`), its value and its time of last access, or `Nil`. `expires` is keyed
by address, as the Go map is keyed by pointer, so an overwritten object keeps
its entry: the address stays in use and is not handed out again (`InUse`).
`stat` is the counter that INFO prints, `pool` and `keyset` the eviction pool,
`now` the system clock in milliseconds. `pc`, `todo`, `n` and `pend` say where
the engine is within a `Put`, an eviction or the cron. `last` is the reply of
the step just taken, so that properties can be about replies.

Atomicity. All of this code runs in one goroutine, so no two commands
interleave. What does move is the clock. A command that reads it once is one
step; one that reads it again (GET, TTL, EXPIRE) chooses its later readings in
the same step; `Put`, each turn of an eviction loop and each round of the cron
are steps of their own with `Tick` between them. SLEEP is a `Tick`.

Eviction. `evict` either starts the LRU algorithm (`populateEvictionPool` for
each sampled key, `StartEvicting`, then `evictAllkeysLRU` for each candidate)
or one of the two range loops, `evictRange`, which delete before they count.
`Put` then stores the object; the command LRU runs the same steps with no
write pending and ends in `LRUDone`. Go's random map order is `\E`. `sort.Sort`
is not stable, so `Sorted` is the set of all orders it may produce.

Data. Values are a few integers, for INCR, and texts it refuses. Deadlines are
kept modulo `U64` and integers wrap at `IntHalf`. A sort reads the clock once
in the model and once per comparison in the code; the order differs only if
the second changes within the sort.

`VolatileMap` is what the commands promise. It knows neither objects nor
sampling: entries carry their deadline and vanish when it comes, `Forget` may
drop any, and each command is one step, but for SET and INCR of an absent key,
which take effect some time after they were requested (`RequestSet`,
`Complete`) because an eviction may come between. It leaves open only what a
client cannot rely on: what TTL answers if the key vanishes during the call,
whether DEL counts keys that have just expired, and by how much INFO
exceeds the number of live keys. The mapping (`KeyspaceProps!Abs`) hides
expired keys that have not been deleted.

### Server

One step for each load, store and swap of `eStatus`, since the two goroutines
may interleave there, and for each event and each command. The engine goes
through `setup`, `loop`, `cron`, `poll`, `cas`, (`switch`), `serve`, `eval`,
`mark`, and leaves through `leave` to `returned`; the handler through
`blocked`, `spin`, `store`, `shutdown`, `exit`. `applied` counts the commands
executed and `acked` how many of them had been executed when the last reply
was written; `snapshot` is `applied` at the fork.

### Txn

`clients[fd]` is the client behind a descriptor, with `isTxn` and `cqueue`;
`cmds` and `buf` are the rest of the batch `EvalAndRespond` works on and the
replies it has gathered. Each command of a batch is a step. The keyspace is a
counter: `INCR` stands for what changes it and shows by its reply what ran
before it. `log` is the history of each descriptor as its clients know it, and
`View` computes from that history alone what a client may conclude: whether it
is in a transaction, what it has queued, what it has caused, how many replies
it is owed. The properties compare the server's state with it. A MULTI within a
transaction is queued, is answered OK within EXEC and begins nothing, because
`TxnExec` resets `isTxn` after its loop; `Answered` says so.

### Aof

Processes share the file and the clients' sockets and each has its own `store`.
`Fork` copies the parent's; the child opens the file (`OpenFile`, `OpenFails`),
writes one record a step at its own offset in any order (`dumpKey`,
`WriteFails`) and returns: to nowhere after a shutdown, to the event loop after
BGREWRITEAOF, where `Serve` lets it change its own store and fork in turn. A
fork that fails answers OK and changes nothing, so it is no action.
The file may be there when the server starts, left by an earlier run (`Left`,
`old`), and may be open to anyone or to root only (`locked`); nothing in the
code reads it. A file that a child creates gets the permissions
`os.ModeAppend`, which leave the mode 0000: from then on only root opens it
(`root` is chosen initially).
Records are one or two cells long, so that a record may be overwritten in
part. `snap`, `order`, `old`, `before` and `clean` are history for the properties.
That `dumpKey` splits a value with spaces into several tokens is left out.

### Resp and Wire

`Resp` reads bytes, which are numbers, at a position of a buffer of which the
first `n` bytes were read. A reader returns a value and the position after it,
or one of three other outcomes: `error`, `unknown` (a first byte that is no
type, which the Go code calls malicious) and `panic`, a slice or an index out
of bounds, which ends the process. A slice expression of Go may reach beyond
the slice, to the end of the buffer of 512 bytes, so a bulk string that was cut
is filled up with NULs; an index may not. `Elements` is the loop of both
`readArray`s, with `WithElement` for one turn of it. The recursion of `DecodeOne`,
and with it `DecodeAt`, is a function over positions.

`Wire` is one connection. `at` is how much of the stream the server has read;
each `Read` takes any number of bytes there are, up to a buffer, decodes them
and executes what it gets. `executed` is the history of that, with which the
properties compare `sent`. `torn` says whether some read has ended within a
command, and `astray` whether one has begun within a command at a `*`: `Decode`
then takes the rest for commands, which a token can imitate. Tokens are any
bytes but NUL. `SendBuf` is what the kernel keeps of replies that are not received;
what does not fit is lost, since the code ignores the result of the write. A
`patient` client is the load generator's: it sends, waits, and hangs up only
when its connection ends; any other does as it likes.

### Descriptors

`table[p][fd]` is the connection behind a number in process `p`, and stands for
`connectedClients` too, which has the same keys. Accept takes the lowest free
number, as the kernel does. `subs` is what epoll watches: it registers a number
together with the open file behind it and drops the pair when the last process
has closed the file; its events carry the number only, while `e.conn` is
history, for the properties. `Poll` fills `events[p]` and the loop handles them
one by one in any order.

A batch takes three kinds of steps. `Read` takes all there is on a connection
into the hands of the process (`work[p]`); `Fork` is the evaluation of a
BGREWRITEAOF anywhere in the batch; `Respond` is the write of its replies, of
which the kernel takes a first part, all or nothing, while the code does not
look. The evaluation of other commands changes nothing here. Between these
steps the other process runs, clients send and hang up, and the child may be
killed (`Die`), which loses what it has in its hands. The child gets the
table, the events still to be handled and the batch without BGREWRITEAOF, whose
reply in the child is empty; after the dump (`DumpDone`) it writes the replies
of that batch like its parent and joins the loop. Commands are numbered on each
connection; `out`, `lost` (with the reason) and `shared` are histories of them
for `RepliesAccounted`. A reply torn in the middle counts as refused.

A read that finds nothing, because the client has hung up or the other process
was first, ends the connection in this process (`Close`), as does input that
`Decode` refuses from a client that is still there (`Refuse`), with the commands
decoded before it in the same read.

Which input cannot be decoded is in `Wire`; what the commands do is in the modules
above. `Aof` models the stores that parent and child change from then on.

### Echo

Both servers run the same steps, one read, one write, one close, in different
orders: go2 in one goroutine (`cur` is the connection it serves), Java in a
thread per connection. A byte `i` of client `c` is `<<c, i>>`. A client that
leaves before it has received its echo, or before the server writes to it,
makes the kernel reset the connection (`broken`); only then a read fails with
anything but EOF, and go2 closes, counts and does not leave its loop.
`ReadClosed` is that loop.

Seen from `Server`, `snapshot` is the moment `Shutdown` forks; `Aof` starts
from there and does not care what the engine was doing then.

## Runs

| Run | Checks | Bounds |
|---|---|---|
| `data` | `TypeOK`, `StatBound`, `Refines`, `OrphansOnlyByOverwrite`, `LossHasCause` | 2 keys, 3 addresses, limit 2, a pool of 1; 3 ms of clock at 2 ms a second |
| `capacity` | `Capacity`, `PoolFresh` | 3 keys, limit 2, samples, pool and evictions of 2 |
| `pool` | `PoolInv`, `FreesTenth` | 3 keys, limit 2, pool of 2, `EvictionRatio` rounding to 0: the command LRU fills the pool and never drains it, writes evict by the random strategy |
| `progress` | `EngineReturns`, `ExpiredReclaimed` | 2 keys, no symmetry |
| `shutdown` | `TypeOK`, `StatusAgrees`, `QuietForever`, `ShutdownCompletes` | 2 connections, batches of 2 commands, 3 polls, no symmetry |
| `transactions` | `TypeOK`, `QueueAgrees`, `Answered`, `Accounted` | 2 descriptors, 4 commands in batches of up to 3, any number of hang-ups |
| `dumps` | `TypeOK`, `CleanDump`, `CellsFromSnapshots`, `NoGrowth`, `OlderTail` | 2 keys, a short and a long value, 2 children, 4 changes; no file, an empty one or three cells of two records before |
| `wire` | `UncutIsExact`, `Intact`, `BegunIsExecuted`, `CodecsAgree`, `NothingAfterTorn`, `ReplyOrEnd` | 3 commands out of 4, one of them longer than the buffer of 28 bytes, one with a token that is itself an encoded command; integers of 16 bits; room for 1 reply; every way to cut the stream |
| `descriptors` | `TypeOK`, `WatchedWhileOpen`, `EventsStayTrue`, `RepliesAccounted`, `EveryoneHeard` | 2 connections, 3 commands, at most one of them BGREWRITEAOF; 2 hang-ups, refused replies and undecodable inputs together |
| `echo` | `TypeOK`, `EchoExact`, `CountTruthful`, `OnlyCarelessBlock`, `EveryoneServed` | 3 clients of 2 bytes each, a buffer of 2, one turn of the loop on a closed connection |

Two keys are enough for what relates a key to itself over time and to one other
it is evicted for; three with a limit of two make a full keyspace lose a key
that is not the one written. Three addresses let both keys be stored while a
third object is made, or one be overwritten. The clock runs over one deadline
and over the wrap of the LRU clock (`ClockMod` 2). `MaxStat` bounds the writes:
no write starts once the counter is there, which leaves three overwrites or any
number of writes and deletions. `MaxNow` bounds the clock and `MaxPolls` the
polls; the states at the bounds still offer every other action. Four commands
make a transaction of two with its MULTI and EXEC, or one that ends early and
a command after it, in any split into batches. Two children overlap, follow
each other, or fork one another; four changes let the store grow, change or
shrink between their forks, and a file of one record and a torn one is longer
than some dumps and shorter than others. The commands of `wire`
have one, two and three tokens, one of them empty, one a negative number and one
the bytes of a GET; with three of them a read holds several, ends within one,
begins where another ended, or begins at the GET within a token. The buffer of 28 bytes keeps what matters about 512: several
short commands fit and a long one does not. Two connections are enough to reuse
a number, or to have it stand for different connections in parent and child;
three commands fill a batch around BGREWRITEAOF. Connections are made in the
order of their numbers, which loses nothing since they differ in nothing else;
`MaxTroubles` bounds the hang-ups, the replies refused and the inputs that cannot
be decoded together, so any two of them meet, while the child may be killed
anyway. Only one child is forked (the second BGREWRITEAOF would need a third
process). The third client of `echo`
waits behind two others; `MaxLoops` lets go2 count a closed connection twice.

`dumps`, `wire`, `descriptors` and `echo` turn the deadlock check off: after a
shutdown whose child has finished no process is left, and a system whose
clients have all gone, or all wait, has nothing to do.

Fairness. `FairSpec` of `Keyspace` says only that the engine goroutine does
not stop within a command or the cron. `LoopSpec` adds that the event loop
comes round again and again, in the strong sense because commands come between;
the loop polls without a timeout, so this holds only while clients keep
sending, and `ExpiredReclaimed` holds under that condition alone. `FairSpec` of
`Server` says that both goroutines run; polls and signals are not fair. The
spin needs no strong fairness because `MaxPolls` lets the clients pause in the
end: without a pause each load of the spin may find the engine busy.
`FairSpec` of `Wire` says that the loop reads what there is to read and that a
client receives what has come; nobody has to send or hang up. That of
`Descriptors` says that each process goes on with its loop, the batch in its
hands and, in the child, its dump, which is up to the kernel; not that clients
hang up, and not that the child dies. That of
`Echo` says that the server, and each thread of Java, runs; go2 waits for the
client it serves to leave, so there it is assumed that clients leave some time.

### Where the code and its comments disagree

Each of these runs ends in a counterexample to a sentence of the source.

| Run | The comment | What happens |
|---|---|---|
| `lost_reply` | `async_tcp.go:37` | a command is answered after the fork and is not in the dump |
| `stale_tail` | `aof.go:28`, `aof.go:32` | the file keeps the end of an older, longer dump |

Others were met on the way and have no run of their own.

* Keyspace. TTL reads the clock for the comparison and again for the unsigned
  subtraction: if the deadline lies between, the reply is enormous, where
  `eval.go:125-126` promises the time remaining (`VolatileMap` leaves open what
  TTL answers then). Keys without a deadline use up the sample of the cron,
  where `expire.go:35-36` counts only those that have one. A write over a stored
  key counts as another key for INFO (`store.go:42`; `StatBound` bounds the
  drift from below). An eviction removes one sample, 5 keys, and not the
  `EvictionRatio` of `config/main.go:8`; with a `KeysLimit` below 13 it does
  not drain the pool and a later one may pop only keys that are gone.
* Shutdown. The engine may become BUSY, or store WAITING over SHUTTING_DOWN,
  after the handler's last load (`async_tcp.go:41-43`, `180-181`), which is how
  `lost_reply` comes about; and the deferred function of the engine sets
  SHUTTING_DOWN too (`async_tcp.go:46`).
* The file. `eval.go:168-169` describes BGREWRITEAOF as persisting the data, and it
  answers OK (`eval.go:185`); but the file it has once created has the mode 0000
  (`aof.go:23`), so a later BGREWRITEAOF of a server that does not run as root
  is answered OK and does nothing (`aof.go:24-27`).
* The fork. The child of BGREWRITEAOF, of which `eval.go:180` says it flushes to
  disk, then goes on to serve clients from its own store. A client may be
  answered by either process; the batch of the fork is answered by both, by the
  child with an empty reply to BGREWRITEAOF; what a child has read when it is
  killed nobody answers, though its connection stays open in the parent; and a
  process that finds nothing to
  read, since the other one was first, closes a healthy connection on its side.
  `EveryoneHeard` holds all the same, because the other process still has it.
* Reads. `sync_tcp.go:20-22` says that more than 512 bytes are to be done. A
  command that is cut is executed with an empty or NUL-padded last argument, or
  fails with its whole read, or crashes the server, according to where the cut
  is; a command without tokens crashes it too. Where a token holds the bytes of a
  command and a read begins there, those are executed. `readInt64` takes the sign of a
  negative integer for a digit, so Go's decoder reads another number for the -1
  and -2 of TTL (`eval.go:17-18`) and for what INCR may answer. The Java decoder takes a lone `*` for an empty
  array.
* go2. After an error other than EOF `RunSyncTCPServer` reads the connection it
  has just closed for ever, counting it down each time.

## Proofs

Every theorem holds for all values of the constants that satisfy the
assumptions of the modules, and the hypotheses it names.

`KeyspaceProofs` proves the type invariant for any finite set of keys and any
configuration. It is not inductive alone: `populateEvictionPool` reads the
access time of a key it has still to visit, so the proof adds `TodoPresent`,
that those keys are stored.

It proves `PoolFresh`, and `Capacity` for LRU evictions, under `Drains`: a
sample fits in the pool and an eviction takes as many candidates as a sample
has. The shipped constants satisfy it (5 <= 16 and 5 <= 40) and so does every
`KeysLimit` from 13 on; below it the theorem fails. The
inductive invariant `CapInv` follows an eviction: while the pool is filled it
is empty only before the first key is offered (`Filling`), so it is not empty
when a full keyspace starts to be drained; its keys are distinct and stored
(`PoolOk`), so each `Pop` makes room; there is a turn for each of them
(`Draining`), so the pool is empty again at the end (`PoolIdle`). The range
loops delete a key in every turn (`Ranging`); under `Ranges`, that the strategy
is one of them, `Capacity` needs nothing of the pool (`RoomInv`).

`FreesTenth` holds in a configuration with `FreesEnough`, which says how
large a sample, or a range, has to be against `KeysLimit`. The shipped one has
not: 5 sampled keys are a twentieth of 100, and `EvictionRatio` cannot help.
`SampleInv` adds to `CapInv` that a sample offers each key once, so that the
pool ends with `SampleSize` candidates or with all keys there are.

`PoolInv` holds in any configuration, with `PoolGuard`, that the keys in the
pool are distinct, as its inductive form: `keyset` bars a key that is in the pool, and
is allowed to bar more.

`KeyspaceProofs` also proves `StatBound`, `LossHasCause`, `OrphansOnlyByOverwrite` and the
refinement of `VolatileMap`. `StepKinds` sorts the steps but `Put` by what they do to
`store` and `expires`: they keep both, delete keys for a cause, make an
object, or give one a deadline. The first three theorems go through those kinds.
`LossInv` says that an eviction made for a write starts full and has lost no more
than its turns. For the refinement, `RefInv` adds `OnePtr`, that no two keys
share an object: `expires` is keyed by address, so two would share a
deadline. The hypothesis is `NoWrap`: no duration a client gives makes
a deadline wrap around 64 bits, since `VolatileMap` has no such deadline. `MapAges` is
what most steps come to: the map a client sees changes only in what has
expired. There is a lemma for each command, which maps it to
its counterpart in `VolatileMap`, whatever the clock does while it runs;
evictions and the cron map to `Forget` or to the passing of time.

`ServerProofs` proves the type invariant, `StatusAgrees`, with the addition
that no swap fails while the handler waits (`StatusInv`), and `QuietForever`,
which every step preserves by itself.

`AofProofs` proves the type invariant, `CellsFromSnapshots` and `NoGrowth` for
any number of children and any file the server may find. They rest on one
inductive invariant, `AofInv`: a dump works on the store of its fork (`FromFork`),
and the file reaches exactly as far as the furthest dump or as what was found
(`Extent`), so that no write starts beyond its end and leaves a hole.
`OverwriteCells` says what a write does to a
file, wherever it starts. For `OlderTail`, `TailInv` says that the file and what
an undisturbed child found are alike from its offset on: its own writes move the
offset past the cells they change (`OverwriteBeyond`), and the write of another
ends its being undisturbed. `CleanDump` needs `Begun` besides, that the keys a child
has written are stored in its snapshot and its offset is the length of their
records. `Image`, the file those records make, is a flattened sequence:
`Recursion` shows that flattening one record more adds it at the end.

`TxnProofs` proves every invariant of `Txn` for any number of descriptors and
any commands in any batches. Its inductive invariant is `TxnInv`. The commands
still to be evaluated are the end of the client's log (`Unheard`), so what a
command does is compared with what the client concludes from that very entry; a
descriptor without a client has nothing begun or queued (`Gone`), so a new
client on it starts from nothing; `Numbered` ties commands to replies, so
that a reply once given stays the reply of its command. `Fits` bounds the
counter a reply shows by the counter now, which only grows; that keeps
`Answered` true of old replies. `Accounted` is a sum over descriptors in which
one term changes.

`Recursion` has the lemmas for what recursive definitions compute. The
library's induction takes an operator as a parameter, which no prover here
instantiates; `NatInSet` takes the set of the numbers that have the
property instead, which any of them can. With it, a function that is defined
step by step exists and is what its definition says (`SeqRecursion`, for `View`),
a flattened sequence has a form that can be appended to (`FlattenAppend`),
and a sum over a finite set changes by what one of its terms does (`SumUpdate`).

`WireProofs` proves `UncutIsExact`, `Intact`, `BegunIsExecuted` and
`NothingAfterTorn` for any commands whose tokens are bytes other than 0, any
size of the buffer and any reads. The first half is the round trip: `Number`
reads what `Decimal` writes (`DecimalReads`); a bulk string that stands in a
buffer is read as it is, and the reader stops behind it (`BulkReads`); so is
an array of them (`CommandStands`), for which `DecodeOneIs` and `ValuesAre` say
that the functions over positions are what their definitions say; and so is any
number of commands one after another (`CommandsDecode`). A stream is cut up by
its borders (`BordersAre`), so a read between two of them finds those commands
(`WholeReads`), and `TypeOK` with `UncutIsExact` is inductive.

The second half is about the other reads. One that begins within a command
finds no command (`ReadWithin`) unless its first byte is a `*`
(`NoStarNoCommand`). With a `*` it may find one, as a token that holds an
encoded command shows; then `astray` is set and the three properties say
nothing more of that connection. Of the bytes of a token only NUL is excluded, so
the theorems say that this is the only way. A read that ends
within a command finds all those before it, and then (`CutTail`) nothing it can
execute, or the command with its last argument emptied or padded with NULs
(`CommandCut`, `CutRead`). `TornIsLast` is the strengthening: once a read has
ended within a command, that command is the last one executed, spoilt, and
the connection is still within it, or the connection has ended and it was not
executed at all. With `TypeOK` and `UncutIsExact` it is inductive (`TornInv`), as long as the
decoder has not gone astray:
the step that tears is `FirstTorn`, and the next read finds the connection within a
command (`ReadWithin`) and ends it.

The third part of `WireProofs` is about both decoders, for any text, and proves
`CodecsAgree`. For a text that stands somewhere in a buffer, `ReadByBoth` says that
each of them, started at its first byte, reads the value meant and stops behind
its last. It holds of each kind of reply (`SimpleRead`, `IntegerRead`, `NilRead`,
`BulkRead`; together `ReplyRead`), and if it holds of some texts then of their
gathering in an array (`GatheringsRead`), so of the replies EXEC gathers, however
many and of whatever kinds (`TransactionsAreRead`). The integers are all those of
64 bits. What Java reads is what was meant. What Go reads of a negative one, as
TTL and INCR answer, is another number: the sign counts as a digit, 253, before
the others, and the sum is cut to 64 bits (`SeenByGo`); but it too takes exactly
the bytes of the reply, so the replies after it are not affected.
Go's loop over the elements and Java's, which check their bounds at different
places, are both the fold `Elements` once every element is known to be placed
within the text (`ElementsPlaced`); the functions over positions they are made
of are what their definitions say (`DecodeOneIs`, `JavaOneIs`).

That Java takes no cut command for a whole one is about texts of which a first part
stands in a buffer (`Cut`). A cut length is a shorter number, not 0 because the
first digit written is not (`NumberPositive`), so its array wants an element and
none is there; otherwise the element the cut falls into throws (`TokenCut`,
`ElementsStop`), unless only the last CRLF is missing, which Java skips
without looking (`JavaCut`). Only after the lone `*` is there no digit at
all, and an empty array is read. The lemma is for all commands, `JavaNeverPads`
for those of a run.

`DescriptorsProofs` proves the type invariant, `WatchedWhileOpen`,
`EventsStayTrue` and `RepliesAccounted` for any number of connections and of
commands. `TableInv` is inductive by itself: a connection has one number,
in whatever process it is open (`OneNumber`, which holds because the child
inherits the numbers and only one process accepts a connection), what is open
has been accepted (`OnlyAccepted`), the child has nothing before the fork and
after its death (`Lives`), and what is in somebody's hands, or lost, is of an
accepted connection (`Hands`). `ClosedOnly` covers closing and dying alike: epoll
forgets exactly what nobody has any more. On top of it, `EventsInv` says that no
two events waiting are of one connection (`OneEvent`), so handling one cannot
spoil another (`OthersStayTrue`), and clients only add to what is ready
(`ClientsStayTrue`).

`RepliesAccounted` is inductive together with `TableInv`, and is proved in three
parts, `InOrder` for each process and connection, `Between` for what two
processes have had of one (`Had`), and `Reasons` for what was lost. A read
numbers its commands above all that were read before, by whomever
(`ReadAccounts`); a fork is the one step that gives what a process has to another as
well, and leaves out BGREWRITEAOF (`ForkAccounts`); a write divides a batch into
what was taken and what was refused (`RespondAccounts`), a death and an input
that cannot be decoded lose it whole (`DieAccounts`, `RefuseAccounts`). That a
refused input ends the connection in that process, and that it is not accepted
there again, is why `Reasons` stays true.

`EchoProofs` proves every invariant of `Echo` for any number of clients and any
size of the buffer. `EchoInv` is inductive: what has been written back and what
is in a buffer are two runs of the client's bytes, one after the other
(`Exact`), so what is read or written continues them (`RunConcat`); a
connection in the queue is there once (`Queued`); only a client that has
not received all is reset (`Bounds`). `GoInv` adds that the one open connection
of go2 is the one it serves, and that a closed one was reset.

Only model-checked: the liveness properties (`EngineReturns`, `ExpiredReclaimed`,
`ShutdownCompletes`, `ReplyOrEnd`, `EveryoneHeard`, `EveryoneServed`), which are
beyond this prover. Every invariant and every action property has a theorem.

Assumptions about constants are named where they are declared
(`PoolAssumption`, `KeyspaceAssumption`, `NilAssumption`, `EntryAssumption`, `ServerAssumption`,
`AofAssumption`, `FileAssumption`, `TxnAssumption`, `ClientAssumption`,
`WireAssumption`, `DescriptorsAssumption`, `ConnsAreNumbered`, `EchoAssumption`); the runs evaluate them.

## Not modelled

* A system clock that steps back. Go's `UnixMilli` is not monotonic.
* Durations so long that deadlines wrap; `U64` and the modulo are in the model
  but the runs stay below.
* A data race proper: the handler never touches the store in the parent
  process, and the one unprotected load of `eStatus` (`async_tcp.go:137`)
  happens only after the only other writer has finished.
* Wrong numbers or forms of arguments, which answer without an effect; PING,
  CLIENT, LATENCY.
* Darwin. The filters of kqueue are negative numbers and no bit flags
  (`types_darwin.go:36-62`), so `newOperations` calls every event a read and a
  write; the event loop never looks. A kqueue is not inherited by a fork, and
  the raw system call returns differently there.
* `newTime`: the loop polls without a timeout.
* Running out of descriptors, of memory, or of the room for events that `New`
  makes; failures of `listen` and `accept` other than that nobody waits.
* What a forked Go runtime, which has lost its other threads, may fail to do:
  the child of the model runs.
* A transaction open on a connection while the process forks: each process then
  has a queue of its own. A BGREWRITEAOF queued in a transaction forks within
  EXEC, whose array then lacks an element in the child.
* RESP types that the Go server does not encode (the other half of
  `RESPDecoder.java`), lengths that overflow an integer, and tokens that hold a
  NUL, which could not be told from the padding of a cut argument.

## Plan

1. Composition of `Txn` and `Descriptors`: transactions across a fork.
2. That idle times never invert the order of accesses.
