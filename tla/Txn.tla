-------------------------------- MODULE Txn --------------------------------
(***************************************************************************)
(* Clients and their transactions: go/core/comm.go, and the part of        *)
(* go/core/eval.go that decides whether a command of a batch is executed   *)
(* or queued (EvalAndRespond, executeCommand).                             *)
(*                                                                         *)
(* The keyspace is a single counter: INCR stands for the commands that     *)
(* change it, GET for those that only read it.  What they do to the real   *)
(* keyspace is in Keyspace.                                                *)
(***************************************************************************)
EXTENDS Integers, FiniteSets, Sequences, FiniteSetsExt

CONSTANTS
  Fds,              \* file descriptors of client connections
  Nil,              \* no client behind a descriptor; no descriptor served
  Ok, Queued, Err,  \* replies: +OK, +QUEUED and an error
  MaxBatch,         \* commands decoded from one read
  MaxSent           \* bound of the model: commands read in all

ASSUME TxnAssumption ==
  /\ IsFiniteSet(Fds) /\ Nil \notin Fds
  /\ MaxBatch \in Nat \ {0} /\ MaxSent \in Nat

VARIABLES
  db,        \* the counter
  clients,   \* connectedClients: descriptor -> client, or Nil
  serving,   \* the descriptor EvalAndRespond works for, or Nil
  cmds,      \* commands of its batch not evaluated yet
  buf,       \* replies gathered for the batch
  out,       \* replies written to each descriptor
  log        \* what clients did: the commands read from them and, after the
             \* last command of a connection, Close

vars == <<db, clients, serving, cmds, buf, out, log>>

txnCommands == {"EXEC", "DISCARD"}
Commands == {"INCR", "GET", "MULTI"} \cup txnCommands
Close == "close"

Client == [isTxn : BOOLEAN, cqueue : Seq(Commands)]
NewClient == [isTxn |-> FALSE, cqueue |-> <<>>]
ASSUME ClientAssumption == Nil \notin Client
-----------------------------------------------------------------------------
\* How many of the first i commands of q are INCR.
Incrs(q, i) == Cardinality({j \in 1 .. i : q[j] = "INCR"})

\* What executing the commands of q one after the other replies when the
\* counter is v.  A MULTI among them answers OK and has no other effect:
\* TxnExec ends the transaction after its loop.
Replies(q, v) == [i \in DOMAIN q |-> IF q[i] = "MULTI" THEN Ok ELSE v + Incrs(q, i)]

\* The commands read so far.
Sent == MapThenSumSet(LAMBDA fd : Cardinality({i \in DOMAIN log[fd] : log[fd][i] # Close}), Fds)

\* The log h of a descriptor after its connection has ended.
Ended(h) == IF h = <<>> \/ h[Len(h)] = Close THEN h ELSE Append(h, Close)

Init ==
  /\ db = 0
  /\ clients = [fd \in Fds |-> Nil]
  /\ serving = Nil /\ cmds = <<>> /\ buf = <<>>
  /\ out = [fd \in Fds |-> <<>>] /\ log = [fd \in Fds |-> <<>>]

\* A connection is accepted; the kernel may reuse a descriptor.
Accept(fd) ==
  /\ serving = Nil /\ clients[fd] = Nil
  /\ clients' = [clients EXCEPT ![fd] = NewClient]
  /\ UNCHANGED <<db, serving, cmds, buf, out, log>>

\* Hanging up noticed in the middle of a batch.
DropAnytime(fd) ==
  /\ clients[fd] # Nil
  /\ clients' = [clients EXCEPT ![fd] = Nil]
  /\ log' = [log EXCEPT ![fd] = Ended(@)]
  /\ UNCHANGED <<db, serving, cmds, buf, out>>

\* A client hangs up, whatever it had queued.
Drop(fd) ==
  /\ serving = Nil /\ clients[fd] # Nil
  /\ clients' = [clients EXCEPT ![fd] = Nil]
  /\ log' = [log EXCEPT ![fd] = Ended(@)]
  /\ UNCHANGED <<db, serving, cmds, buf, out>>

\* The commands that one read from the client holds.
readCommands(fd, batch) ==
  /\ serving = Nil /\ clients[fd] # Nil /\ Sent + Len(batch) <= MaxSent
  /\ serving' = fd /\ cmds' = batch /\ buf' = <<>>
  /\ log' = [log EXCEPT ![fd] = @ \o batch]
  /\ UNCHANGED <<db, clients, out>>
-----------------------------------------------------------------------------
\* EvalAndRespond takes a command of S, leaves the client as given and adds a
\* reply to the buffer.
Evaluate(S, client, reply) ==
  /\ serving # Nil /\ cmds # <<>> /\ Head(cmds) \in S
  /\ clients' = [clients EXCEPT ![serving] = client]
  /\ buf' = Append(buf, reply)
  /\ cmds' = Tail(cmds)
  /\ UNCHANGED <<serving, out, log>>

cl == clients[serving]

\* Outside a transaction a command is executed at once ...
evalINCR == ~cl.isTxn /\ Evaluate({"INCR"}, cl, db + 1) /\ db' = db + 1

evalGET == ~cl.isTxn /\ Evaluate({"GET"}, cl, db) /\ UNCHANGED db

TxnBegin ==
  /\ ~cl.isTxn
  /\ Evaluate({"MULTI"}, [cl EXCEPT !.isTxn = TRUE], Ok)
  /\ UNCHANGED db

WithoutMulti == ~cl.isTxn /\ Evaluate(txnCommands, cl, Err) /\ UNCHANGED db

\* ... queueing in front of the commands already queued.
TxnQueueFront ==
  /\ cl.isTxn
  /\ Evaluate(Commands \ txnCommands, [cl EXCEPT !.cqueue = <<Head(cmds)>> \o @], Queued)
  /\ UNCHANGED db

\* ... executing the command it queues.
TxnQueueAndRun ==
  /\ cl.isTxn
  /\ Evaluate(Commands \ txnCommands, [cl EXCEPT !.cqueue = Append(@, Head(cmds))], Queued)
  /\ db' = IF Head(cmds) = "INCR" THEN db + 1 ELSE db

\* ... and within one it is queued, a second MULTI too,
TxnQueue ==
  /\ cl.isTxn
  /\ Evaluate(Commands \ txnCommands, [cl EXCEPT !.cqueue = Append(@, Head(cmds))], Queued)
  /\ UNCHANGED db

\* EXEC leaving the queue to the next transaction.
TxnExecKeepsQueue ==
  /\ cl.isTxn
  /\ Evaluate({"EXEC"}, [cl EXCEPT !.isTxn = FALSE], Replies(cl.cqueue, db))
  /\ db' = db + Incrs(cl.cqueue, Len(cl.cqueue))

\* except for EXEC, which executes the queue and replies with an array,
TxnExec ==
  /\ cl.isTxn
  /\ Evaluate({"EXEC"}, NewClient, Replies(cl.cqueue, db))
  /\ db' = db + Incrs(cl.cqueue, Len(cl.cqueue))

\* and DISCARD, which forgets it.
TxnDiscard == cl.isTxn /\ Evaluate({"DISCARD"}, NewClient, Ok) /\ UNCHANGED db

\* The replies of the whole batch are written together.
Respond ==
  /\ serving # Nil /\ cmds = <<>>
  /\ out' = [out EXCEPT ![serving] = @ \o buf]
  /\ serving' = Nil /\ buf' = <<>>
  /\ UNCHANGED <<db, clients, cmds, log>>

EvalAndRespond ==
  /\ serving # Nil
  /\ evalINCR \/ evalGET \/ TxnBegin \/ WithoutMulti
     \/ TxnQueue \/ TxnExec \/ TxnDiscard \/ Respond

Next ==
  \/ \E fd \in Fds : Accept(fd) \/ Drop(fd)
  \/ \E fd \in Fds, n \in 1 .. MaxBatch : \E batch \in [1 .. n -> Commands] :
       readCommands(fd, batch)
  \/ EvalAndRespond

Spec == Init /\ [][Next]_vars
-----------------------------------------------------------------------------
TypeOK ==
  /\ db \in Nat
  /\ clients \in [Fds -> Client \cup {Nil}]
  /\ serving \in Fds \cup {Nil} /\ (serving # Nil => clients[serving] # Nil)
  /\ cmds \in Seq(Commands) /\ (serving = Nil => cmds = <<>>)
  /\ log \in [Fds -> Seq(Commands \cup {Close})]

\* What a client may conclude from what it has done on a connection: whether
\* it is in a transaction, which commands it has queued, how many increments
\* it has caused, and how many replies it must have got.
Start == [txn |-> FALSE, queue |-> <<>>, incrs |-> 0, replies |-> 0]

\* The same after one entry e more in its log.
Heard(p, e) ==
  CASE e = Close ->
         [p EXCEPT !.txn = FALSE, !.queue = <<>>]
    [] e = "DISCARD" ->
         [p EXCEPT !.txn = FALSE, !.queue = <<>>, !.replies = @ + 1]
    [] e = "EXEC" ->
         [txn |-> FALSE, queue |-> <<>>, replies |-> p.replies + 1,
          incrs |-> p.incrs + Incrs(p.queue, Len(p.queue))]
    [] e \in {"INCR", "GET", "MULTI"} /\ p.txn ->
         [p EXCEPT !.queue = Append(@, e), !.replies = @ + 1]
    [] e = "INCR" /\ ~p.txn ->
         [p EXCEPT !.incrs = @ + 1, !.replies = @ + 1]
    [] OTHER ->
         [p EXCEPT !.txn = @ \/ e = "MULTI", !.replies = @ + 1]

\* And after each of the entries of a log h.
View(h) ==
  LET f[i \in 0 .. Len(h)] == IF i = 0 THEN Start ELSE Heard(f[i - 1], h[i])
  IN f

\* The entries of a descriptor's log that have taken effect, and the replies
\* there are to them.
Evaluated(fd) == Len(log[fd]) - (IF serving = fd THEN Len(cmds) ELSE 0)
Answers(fd) == out[fd] \o (IF serving = fd THEN buf ELSE <<>>)
Seen(fd) == View(log[fd])[Evaluated(fd)]

\* The server and the client agree on the transaction the client is in: no
\* command it queued is lost or reordered, and nothing outlives EXEC, DISCARD
\* or the connection.
QueueAgrees ==
  \A fd \in Fds : clients[fd] # Nil =>
     clients[fd].isTxn = Seen(fd).txn /\ clients[fd].cqueue = Seen(fd).queue

\* The replies r there may be to a command e of a client that concluded p from
\* what it did before, while the counter is at most d.
Fits(p, e, r, d) ==
  CASE p.txn /\ e \notin txnCommands -> r = Queued
    [] p.txn /\ e = "EXEC" -> \E v \in 0 .. d : r = Replies(p.queue, v)
    [] ~p.txn /\ e \in txnCommands -> r = Err
    [] e \in {"MULTI", "DISCARD"} /\ (e = "MULTI") # p.txn -> r = Ok
    [] OTHER -> r \in 0 .. d

\* Every command is answered once, whatever it is and whatever is executed for
\* it; a transaction is answered with as many replies as it has commands,
\* those of executing them in the order they were sent.
Answered ==
  \A fd \in Fds :
    LET h == log[fd]
        seen == View(h)
        replies == Answers(fd)
    IN /\ Len(replies) = Seen(fd).replies
       /\ \A i \in 1 .. Evaluated(fd) :
            h[i] \in Commands => Fits(seen[i - 1], h[i], replies[seen[i].replies], db)

\* The commands that took effect are those executed at once and those of
\* transactions that were executed: none of a transaction that was discarded
\* or whose client went away, and none twice.
Accounted == db = SumFunction([fd \in Fds |-> Seen(fd).incrs])
=============================================================================
