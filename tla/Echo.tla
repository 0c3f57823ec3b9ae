-------------------------------- MODULE Echo --------------------------------
(***************************************************************************)
(* The two echo servers and their clients: RunSyncTCPServer of             *)
(* go2/server/sync_server.go, one goroutine that serves one connection to  *)
(* its end before it accepts the next, and runSyncTCPServer of             *)
(* java/.../TcpSync.java, which gives each connection a thread that reads  *)
(* once, writes that back and closes.                                      *)
(*                                                                         *)
(* A client may leave with some of its echo not received: then, or when    *)
(* the server writes to it later, the kernel resets the connection.  The   *)
(* client of rust/tcp_client is one that sends once and receives once.     *)
(* The i-th byte a client c sends is <<c, i>>.                             *)
(***************************************************************************)
EXTENDS Integers, Sequences, FiniteSets, FiniteSetsExt

CONSTANTS
  Clients, None,
  BufSize,     \* bytes of the buffer of a read: 512
  MaxBytes,    \* bound of the model: bytes a client sends
  MaxLoops     \* bound of the model: reads of a connection already closed

ASSUME EchoAssumption ==
  /\ IsFiniteSet(Clients) /\ None \notin Clients
  /\ BufSize \in Nat \ {0} /\ MaxBytes \in Nat /\ MaxLoops \in Nat

VARIABLES
  server,       \* "go2" or "java"
  queue,        \* connections not accepted, in order
  sent,         \* sent[c]: bytes c has sent
  got,          \* got[c]: bytes of its echo c has received
  gone,         \* clients that have left
  broken,       \* connections that have been reset
  serving,      \* serving[c]: "none", "waiting", "read", "respond" or "closed"
  buf,          \* buf[c]: bytes read from c and not written back
  echo,         \* echo[c]: bytes written to c
  cur,          \* go2: the connection being served, or None
  con_clients,  \* go2: the counter of connections
  loops         \* reads of a closed connection

vars == <<server, queue, sent, got, gone, broken, serving, buf, echo, cur, con_clients, loops>>
clientVars == <<sent, got, gone>>
go2Vars == <<cur, con_clients, loops>>

Init ==
  /\ server \in {"go2", "java"}
  /\ queue = <<>>
  /\ sent = [c \in Clients |-> 0] /\ got = [c \in Clients |-> 0]
  /\ gone = {} /\ broken = {}
  /\ serving = [c \in Clients |-> "none"]
  /\ buf = [c \in Clients |-> <<>>] /\ echo = [c \in Clients |-> <<>>]
  /\ cur = None /\ con_clients = 0 /\ loops = 0

\* Bytes of c the server has not read.
Read(c) == Len(echo[c]) + Len(buf[c])
Unread(c) == sent[c] - Read(c)
Bytes(c, n) == [i \in 1 .. n |-> <<c, Read(c) + i>>]
-----------------------------------------------------------------------------
Connect(c) ==
  /\ serving[c] = "none"
  /\ serving' = [serving EXCEPT ![c] = "waiting"]
  /\ queue' = Append(queue, c)
  /\ UNCHANGED <<server, clientVars, broken, buf, echo, go2Vars>>

Send(c, n) ==
  /\ serving[c] # "none" /\ c \notin gone /\ sent[c] + n <= MaxBytes
  /\ sent' = [sent EXCEPT ![c] = @ + n]
  /\ UNCHANGED <<server, queue, got, gone, broken, serving, buf, echo, go2Vars>>

Receive(c) ==
  /\ c \notin gone /\ \E n \in got[c] + 1 .. Len(echo[c]) : got' = [got EXCEPT ![c] = n]
  /\ UNCHANGED <<server, queue, sent, gone, broken, serving, buf, echo, go2Vars>>

Leave(c) ==
  /\ serving[c] # "none" /\ c \notin gone
  /\ gone' = gone \cup {c}
  /\ broken' = IF got[c] < Len(echo[c]) THEN broken \cup {c} ELSE broken
  /\ UNCHANGED <<server, queue, sent, got, serving, buf, echo, go2Vars>>
-----------------------------------------------------------------------------
\* Both servers: the oldest connection is accepted,
Accept(c) ==
  /\ queue # <<>> /\ c = Head(queue)
  /\ queue' = Tail(queue)
  /\ serving' = [serving EXCEPT ![c] = "read"]

\* a whole buffer taken, however little has come;
ReadWhole(c) ==
  /\ serving[c] = "read" /\ Unread(c) > 0
  /\ buf' = [buf EXCEPT ![c] = Bytes(c, BufSize)]
  /\ serving' = [serving EXCEPT ![c] = "respond"]

\* one read takes what there is, up to a buffer,
ReadSome(c) ==
  /\ serving[c] = "read"
  /\ \E n \in 1 .. Min({BufSize, Unread(c)}) : buf' = [buf EXCEPT ![c] = Bytes(c, n)]
  /\ serving' = [serving EXCEPT ![c] = "respond"]

\* or finds the end of the stream, or an error;
AtEnd(c) == serving[c] = "read" /\ Unread(c) = 0 /\ c \in gone \ broken
ReadFails(c) == serving[c] = "read" /\ c \in broken

\* what is written to a client that has left resets the connection.
Write(c) ==
  /\ echo' = [echo EXCEPT ![c] = @ \o buf[c]]
  /\ buf' = [buf EXCEPT ![c] = <<>>]
  /\ broken' = IF c \in gone /\ buf[c] # <<>> THEN broken \cup {c} ELSE broken

Close(c) == serving' = [serving EXCEPT ![c] = "closed"]
-----------------------------------------------------------------------------
AcceptGo(c) ==
  /\ server = "go2" /\ cur = None /\ Accept(c)
  /\ cur' = c /\ con_clients' = con_clients + 1
  /\ UNCHANGED <<server, clientVars, broken, buf, echo, loops>>

readCommand(c) ==
  /\ server = "go2" /\ cur = c /\ ReadSome(c)
  /\ UNCHANGED <<server, queue, clientVars, broken, echo, go2Vars>>

\* An error of the write is only logged.
respond(c) ==
  /\ server = "go2" /\ cur = c /\ serving[c] = "respond"
  /\ Write(c)
  /\ serving' = [serving EXCEPT ![c] = "read"]
  /\ UNCHANGED <<server, queue, clientVars, go2Vars>>

\* EOF not counted.
ReadEOFUncounted(c) ==
  /\ server = "go2" /\ cur = c /\ AtEnd(c) /\ Close(c)
  /\ cur' = None
  /\ UNCHANGED <<server, queue, clientVars, broken, buf, echo, con_clients, loops>>

ReadEOF(c) ==
  /\ server = "go2" /\ cur = c /\ AtEnd(c) /\ Close(c)
  /\ cur' = None /\ con_clients' = con_clients - 1
  /\ UNCHANGED <<server, queue, clientVars, broken, buf, echo, loops>>

\* EOF taken for an error like any other.
ReadErrorOrEOF(c) ==
  /\ server = "go2" /\ cur = c /\ (ReadFails(c) \/ AtEnd(c)) /\ Close(c)
  /\ con_clients' = con_clients - 1
  /\ UNCHANGED <<server, queue, clientVars, broken, buf, echo, cur, loops>>

\* Any other error closes the connection and does not leave the loop ...
ReadError(c) ==
  /\ server = "go2" /\ cur = c /\ ReadFails(c) /\ Close(c)
  /\ con_clients' = con_clients - 1
  /\ UNCHANGED <<server, queue, clientVars, broken, buf, echo, cur, loops>>

\* ... which goes on to write nothing, to read from it, and to close it again.
ReadClosed(c) ==
  /\ server = "go2" /\ cur = c /\ serving[c] = "closed" /\ loops < MaxLoops
  /\ con_clients' = con_clients - 1 /\ loops' = loops + 1
  /\ UNCHANGED <<server, queue, clientVars, broken, serving, buf, echo, cur>>

Go2(c) ==
  AcceptGo(c) \/ readCommand(c) \/ respond(c) \/ ReadEOF(c) \/ ReadError(c) \/ ReadClosed(c)
-----------------------------------------------------------------------------
\* The main thread accepts and starts a virtual thread.
runSyncTCPServer(c) ==
  /\ server = "java" /\ Accept(c)
  /\ UNCHANGED <<server, clientVars, broken, buf, echo, go2Vars>>

\* One buffer for all threads.
readFromSocketShared(c) ==
  /\ server = "java" /\ serving[c] = "read" /\ Unread(c) > 0
  /\ buf' = [d \in Clients |-> IF d = c \/ buf[d] # <<>> THEN Bytes(c, 1) ELSE <<>>]
  /\ serving' = [serving EXCEPT ![c] = "respond"]
  /\ UNCHANGED <<server, queue, clientVars, broken, echo, go2Vars>>

readFromSocket(c) ==
  /\ server = "java" /\ ReadSome(c)
  /\ UNCHANGED <<server, queue, clientVars, broken, echo, go2Vars>>

\* Nothing to write; closed in the end all the same.
ReadNothing(c) ==
  /\ server = "java" /\ AtEnd(c) /\ Close(c)
  /\ UNCHANGED <<server, queue, clientVars, broken, buf, echo, go2Vars>>

\* A thread that reads until the client leaves.
writeToSocketAgain(c) ==
  /\ server = "java" /\ serving[c] = "respond"
  /\ Write(c)
  /\ serving' = [serving EXCEPT ![c] = "read"]
  /\ UNCHANGED <<server, queue, clientVars, go2Vars>>

writeToSocket(c) ==
  /\ server = "java" /\ serving[c] = "respond"
  /\ Write(c) /\ Close(c)
  /\ UNCHANGED <<server, queue, clientVars, go2Vars>>

Java(c) == readFromSocket(c) \/ ReadNothing(c) \/ writeToSocket(c)
-----------------------------------------------------------------------------
Next ==
  \E c \in Clients :
    \/ Connect(c) \/ Receive(c) \/ Leave(c) \/ (\E n \in 1 .. MaxBytes : Send(c, n))
    \/ Go2(c) \/ runSyncTCPServer(c) \/ Java(c)

Spec == Init /\ [][Next]_vars

\* The servers run, each thread of Java by itself.  go2 waits for the client it
\* serves to leave, so it is assumed to; Java's clients may stay.
FairSpec ==
  /\ Spec
  /\ WF_vars(\E c \in Clients : Go2(c))
  /\ WF_vars(\E c \in Clients : runSyncTCPServer(c))
  /\ \A c \in Clients : WF_vars(Java(c)) /\ WF_vars(server = "go2" /\ Leave(c))
-----------------------------------------------------------------------------
\* go2 is in the loop of a connection it has closed.
Stuck == cur # None /\ serving[cur] = "closed"

Open(c) == serving[c] \in {"read", "respond"}

\* Types of the variables, and how a connection's state goes with the rest.
TypeOK ==
  /\ server \in {"go2", "java"}
  /\ queue \in Seq(Clients)
  /\ \A c \in Clients : /\ sent[c] \in 0 .. MaxBytes
                        /\ Read(c) \in 0 .. sent[c] /\ got[c] \in 0 .. Len(echo[c])
                        /\ serving[c] \in {"none", "waiting", "read", "respond", "closed"}
                        /\ buf[c] # <<>> <=> serving[c] = "respond"
  /\ gone \subseteq Clients /\ broken \subseteq gone
  /\ cur \in Clients \cup {None} /\ con_clients \in Int /\ loops \in 0 .. MaxLoops

\* What a client gets back is a beginning of what it sent, byte for byte,
\* however its bytes are read and whoever else is served.
EchoExact == \A c \in Clients : echo[c] = [i \in 1 .. Len(echo[c]) |-> <<c, i>>]

\* con_clients, logged as "concurrent clients", counts the open connections,
\* which are never more than one, until the server is stuck; from then on it
\* falls below zero (sync_server.go:41-53).
CountTruthful ==
  server = "go2" =>
    con_clients = Cardinality({c \in Clients : Open(c)}) - loops /\ con_clients <= 1
      /\ (Stuck => con_clients <= 0) /\ (~Stuck => loops = 0)

\* Only a client that left with part of its echo not received can get go2 stuck:
\* one that waits for all of it, as long as the server has read all it sent,
\* ends in EOF.
OnlyCarelessBlock == Stuck => cur \in gone /\ got[cur] < sent[cur]

\* Everyone who connects is served until its connection is closed: by go2 unless
\* that is stuck, by Java however long the other clients keep it waiting, once a
\* client has sent something or left.
EveryoneServed ==
  \A c \in Clients :
    /\ (server = "go2" /\ serving[c] = "waiting") ~> (serving[c] = "closed" \/ Stuck)
    /\ (server = "java" /\ serving[c] = "waiting" /\ (sent[c] > 0 \/ c \in gone))
         ~> (serving[c] = "closed")
=============================================================================
