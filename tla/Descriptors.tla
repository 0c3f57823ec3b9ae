----------------------------- MODULE Descriptors -----------------------------
(***************************************************************************)
(* Descriptors, connections and events of the event loop on Linux          *)
(* (server/async_tcp.go, core/iomultiplexer), and what becomes of them     *)
(* when BGREWRITEAOF forks: the child returns into the loop it inherited.  *)
(*                                                                         *)
(* A process has its own table of descriptors and its own                  *)
(* connectedClients, which always have the same keys.  The processes share *)
(* the listening socket, the epoll instance and, through the descriptors   *)
(* the child inherits, connections.  Epoll knows a descriptor by its       *)
(* number and its connection, and forgets it when no process has the       *)
(* connection open; its events carry the number alone.                     *)
(*                                                                         *)
(* What a process reads of a connection it has in its hands until it       *)
(* writes the replies; the other process may run, and the child be         *)
(* killed, in between.                                                     *)
(***************************************************************************)
EXTENDS Naturals, Sequences, FiniteSets, FiniteSetsExt, SequencesExt

CONSTANTS
  Conns,        \* connections clients may make
  None,         \* no connection behind a descriptor
  Main, Child,  \* the server and the process BGREWRITEAOF forks
  Listener,     \* serverFD
  MaxCmds,      \* bounds of the model: commands sent
  MaxTroubles   \* and hang-ups, replies refused and inputs not decoded together

Procs == {Main, Child}
Fds == 1 .. Cardinality(Conns)

ASSUME DescriptorsAssumption ==
  /\ IsFiniteSet(Conns) /\ None \notin Conns /\ Main # Child
  /\ Listener \notin Fds /\ MaxCmds \in Nat /\ MaxTroubles \in Nat

ASSUME ConnsAreNumbered == Conns \subseteq Nat

VARIABLES
  conn,      \* conn[c]: "none", "backlog" or "accepted"
  hung,      \* connections whose client has hung up
  asked,     \* asked[c]: commands sent on c
  read,      \* read[c]: how many of them some process has read
  work,      \* work[p]: the commands p has read and not yet replied to
  out,       \* out[p][c]: the commands p has replied to on c
  lost,      \* commands p has read and not replied to, and why
  status,    \* status[p]: "none", "loop", "dump" or "gone"
  table,     \* table[p][fd]: the connection behind a descriptor, or None
  subs,      \* what epoll watches: descriptors with their connections
  events,    \* events[p]: events polled and not yet handled
  shared     \* commands in the hands of both processes when the child was forked

vars == <<conn, hung, asked, read, work, out, lost, status, table, subs, events, shared>>
clientVars == <<conn, hung, asked>>
batchVars == <<read, work, out, lost, shared>>

\* A command with a reply, BGREWRITEAOF, or input Decode refuses.
Commands == {"other", "bgrewriteaof", "undecodable"}
Causes == {"refused", "undecodable", "killed"}

Idle == [conn |-> None, cmds |-> <<>>]

Unread(c) == SubSeq(asked[c], read[c] + 1, Len(asked[c]))
Numbers(c) == [i \in 1 .. Len(asked[c]) - read[c] |-> read[c] + i]

\* How much has gone wrong.
Troubles ==
  Cardinality(hung) + Cardinality({l \in lost : l.why = "refused"})
    + Cardinality({x \in Conns \X (1 .. MaxCmds) :
                     x[2] <= Len(asked[x[1]]) /\ asked[x[1]][x[2]] = "undecodable"})

Holds(p, c) == \E fd \in Fds : table[p][fd] = c
Held(c) == \E p \in Procs : Holds(p, c)
Backlog == {c \in Conns : conn[c] = "backlog"}
Forked == status[Child] # "none"

Init ==
  /\ conn = [c \in Conns |-> "none"] /\ hung = {}
  /\ asked = [c \in Conns |-> <<>>]
  /\ read = [c \in Conns |-> 0] /\ work = [p \in Procs |-> Idle]
  /\ out = [p \in Procs |-> [c \in Conns |-> <<>>]] /\ lost = {} /\ shared = {}
  /\ status = [p \in Procs |-> IF p = Main THEN "loop" ELSE "none"]
  /\ table = [p \in Procs |-> [fd \in Fds |-> None]]
  /\ subs = {} /\ events = [p \in Procs |-> {}]
-----------------------------------------------------------------------------
\* Clients.  The kernel completes a connection before it is accepted.  The
\* connections are numbered in the order they are made.
Connect(c) ==
  /\ conn[c] = "none" /\ \A d \in Conns : d < c => conn[d] # "none"
  /\ conn' = [conn EXCEPT ![c] = "backlog"]
  /\ UNCHANGED <<hung, asked, status, table, subs, events>> /\ UNCHANGED batchVars

\* BGREWRITEAOF only once: without another process to fork it is like any other.
SendCommand(c, cmd) ==
  /\ conn[c] # "none" /\ c \notin hung
  /\ cmd = "bgrewriteaof" => \A d \in Conns : cmd \notin ToSet(asked[d])
  /\ cmd = "undecodable" => Troubles < MaxTroubles
  /\ MapThenSumSet(LAMBDA d : Len(asked[d]), Conns) < MaxCmds
  /\ asked' = [asked EXCEPT ![c] = Append(@, cmd)]
  /\ UNCHANGED <<conn, hung, status, table, subs, events>> /\ UNCHANGED batchVars

HangUp(c) ==
  /\ conn[c] # "none" /\ c \notin hung /\ Troubles < MaxTroubles
  /\ hung' = hung \cup {c}
  /\ UNCHANGED <<conn, asked, status, table, subs, events>> /\ UNCHANGED batchVars
-----------------------------------------------------------------------------
\* Operations and what epoll calls them.
toNative(op) == (IF "READ" \in op THEN {"IN"} ELSE {}) \cup (IF "WRITE" \in op THEN {"OUT"} ELSE {})

\* A hang-up taken for a wish to write.
newOperationsHup(native) ==
  (IF "IN" \in native THEN {"READ"} ELSE {})
    \cup (IF native \cap {"OUT", "HUP"} # {} THEN {"WRITE"} ELSE {})

newOperations(native) ==
  (IF "IN" \in native THEN {"READ"} ELSE {}) \cup (IF "OUT" \in native THEN {"WRITE"} ELSE {})

\* What the loop subscribes: reading.
Subscribed == toNative({"READ"})

\* What epoll has to say of a connection.
Native(c) ==
  LET now == (IF Unread(c) # <<>> \/ c \in hung THEN {"IN"} ELSE {})
               \cup {"OUT"} \cup (IF c \in hung THEN {"HUP"} ELSE {})
  IN now \cap (Subscribed \cup {"HUP"})

\* The events there are, as Poll returns them.
newEvent(fd, c, native) == [fd |-> fd, conn |-> c, op |-> newOperations(native)]

Ready ==
  {newEvent(s[1], s[2], Native(s[2])) : s \in {t \in subs : Native(t[2]) # {}}}
    \cup (IF Backlog = {} THEN {} ELSE {newEvent(Listener, None, Subscribed)})

\* The loop is between two events.
Free(p) == status[p] = "loop" /\ work[p] = Idle

\* Poll blocks until something is ready.
Poll(p) ==
  /\ Free(p) /\ events[p] = {} /\ Ready # {}
  /\ events' = [events EXCEPT ![p] = Ready]
  /\ UNCHANGED <<clientVars, batchVars, status, table, subs>>

\* The loop handles an event, in the order epoll chose.
Handle(p, e) ==
  /\ Free(p) /\ e \in events[p]
  /\ events' = [events EXCEPT ![p] = @ \ {e}]

\* The descriptor accept returns.  There is one for every connection.
LowestFree(p, fd) == table[p][fd] = None /\ \A f \in 1 .. fd - 1 : table[p][f] # None

\* A connection that is not subscribed.
AcceptUnwatched(p, e) ==
  /\ Handle(p, e) /\ e.fd = Listener
  /\ \E c \in Backlog :
       /\ conn' = [conn EXCEPT ![c] = "accepted"]
       /\ \E fd \in Fds : LowestFree(p, fd) /\ table' = [table EXCEPT ![p][fd] = c]
  /\ UNCHANGED <<hung, asked, status, subs>> /\ UNCHANGED batchVars

\* A new connection gets the lowest free descriptor and is subscribed.
Accept(p, e) ==
  /\ Handle(p, e) /\ e.fd = Listener
  /\ \E c \in Backlog, fd \in Fds :
       /\ LowestFree(p, fd)
       /\ conn' = [conn EXCEPT ![c] = "accepted"]
       /\ table' = [table EXCEPT ![p][fd] = c]
       /\ subs' = subs \cup {<<fd, c>>}
  /\ UNCHANGED <<hung, asked, status>> /\ UNCHANGED batchVars

\* Another process has accepted it before.
AcceptFails(p, e) ==
  /\ Handle(p, e) /\ e.fd = Listener /\ Backlog = {}
  /\ UNCHANGED <<clientVars, batchVars, status, table, subs>>

\* An event for a descriptor that is no client's.
Skip(p, e) ==
  /\ Handle(p, e) /\ e.fd # Listener /\ table[p][e.fd] = None
  /\ UNCHANGED <<clientVars, batchVars, status, table, subs>>

\* All that has come on c, and can be decoded, is in the hands of p.
Take(p, c) ==
  /\ Unread(c) # <<>> /\ "undecodable" \notin ToSet(Unread(c))
  /\ work' = [work EXCEPT ![p] = [conn |-> c, cmds |-> Numbers(c)]]

\* Commands counted again with those before them.
ReadTwice(p, e) ==
  /\ Handle(p, e) /\ e.fd # Listener
  /\ \E c \in Conns :
       /\ c = table[p][e.fd] /\ Take(p, c)
       /\ read' = [read EXCEPT ![c] = @ + Len(asked[c])]
  /\ UNCHANGED <<clientVars, out, lost, shared, status, table, subs>>

\* The connection read from is the one behind the number now.
Read(p, e) ==
  /\ Handle(p, e) /\ e.fd # Listener
  /\ \E c \in Conns :
       /\ c = table[p][e.fd] /\ Take(p, c)
       /\ read' = [read EXCEPT ![c] = Len(asked[c])]
  /\ UNCHANGED <<clientVars, out, lost, shared, status, table, subs>>

\* BGREWRITEAOF is evaluated, somewhere in the batch, and forks.  The child has
\* the tables, the events still to be handled and the batch.
Forking(i) ==
  /\ status[Main] = "loop" /\ status[Child] = "none"
  /\ asked[work[Main].conn][work[Main].cmds[i]] = "bgrewriteaof"
  /\ shared' = {<<work[Main].conn, n>> : n \in ToSet(RemoveAt(work[Main].cmds, i))}
  /\ status' = [status EXCEPT ![Child] = "dump"]
  /\ table' = [table EXCEPT ![Child] = table[Main]]
  /\ events' = [events EXCEPT ![Child] = events[Main]]
  /\ UNCHANGED <<clientVars, read, out, lost, subs>>

\* A child that replies to BGREWRITEAOF like its parent.
ForkTwoReplies(i) == Forking(i) /\ work' = [work EXCEPT ![Child] = work[Main]]

\* The child's reply to BGREWRITEAOF is empty.
Fork(i) ==
  /\ Forking(i)
  /\ work' = [work EXCEPT ![Child] = [work[Main] EXCEPT !.cmds = RemoveAt(@, i)]]

\* The child returns from the command.
DumpDone ==
  /\ status[Child] = "dump"
  /\ status' = [status EXCEPT ![Child] = "loop"]
  /\ UNCHANGED <<clientVars, batchVars, table, subs, events>>

\* Commands p will not reply to.
Losing(p, c, numbers, why) ==
  lost' = lost \cup {[by |-> p, conn |-> c, n |-> n, why |-> why] : n \in numbers}

\* The batch is evaluated to its end and replied to with one write, of which
\* the kernel may take a part, or nothing: the code does not look.  A
\* BGREWRITEAOF that did not fork is a command like any other.
Respond(p) ==
  /\ status[p] = "loop" /\ work[p] # Idle
  /\ LET c == work[p].conn
         cmds == work[p].cmds
     IN \E k \in 0 .. Len(cmds) :
          /\ Troubles + Len(cmds) - k <= MaxTroubles
          /\ out' = [out EXCEPT ![p][c] = @ \o SubSeq(cmds, 1, k)]
          /\ Losing(p, c, ToSet(SubSeq(cmds, k + 1, Len(cmds))), "refused")
  /\ work' = [work EXCEPT ![p] = Idle]
  /\ UNCHANGED <<clientVars, read, shared, status, table, subs, events>>

\* What epoll still watches when the descriptors are t.
Watched(t) == {s \in subs : \E p \in Procs, fd \in Fds : t[p][fd] = s[2]}

\* The descriptor of an event and the client behind it are dropped.
Drop(p, e) ==
  /\ Handle(p, e) /\ e.fd # Listener /\ table[p][e.fd] # None
  /\ table' = [table EXCEPT ![p][e.fd] = None]
  /\ subs' = Watched(table')
  /\ UNCHANGED <<clientVars, work, out, shared, status>>

\* A read that returns nothing taken for no error.
CloseOnError(p, e) ==
  /\ Drop(p, e) /\ UNCHANGED <<read, lost>>
  /\ Unread(table[p][e.fd]) = <<>> /\ table[p][e.fd] \notin hung

\* A read that returns nothing, for the client has hung up, or an error: its
\* replies were refused, or there is nothing to read.
Close(p, e) ==
  /\ Drop(p, e) /\ UNCHANGED <<read, lost>>
  /\ Unread(table[p][e.fd]) = <<>> \/ table[p][e.fd] \in hung

\* Something cannot be decoded: what was read with it is thrown away, and the
\* connection closed.
Refuse(p, e) ==
  /\ Drop(p, e)
  /\ \E c \in Conns :
       /\ c = table[p][e.fd] /\ "undecodable" \in ToSet(Unread(c))
       /\ read' = [read EXCEPT ![c] = Len(asked[c])]
       /\ Losing(p, c, ToSet(Numbers(c)), "undecodable")

\* The child is killed, with all it has in its hands.
Die ==
  /\ status[Child] \in {"dump", "loop"}
  /\ status' = [status EXCEPT ![Child] = "gone"]
  /\ table' = [table EXCEPT ![Child] = [fd \in Fds |-> None]]
  /\ subs' = Watched(table')
  /\ events' = [events EXCEPT ![Child] = {}]
  /\ work' = [work EXCEPT ![Child] = Idle]
  /\ Losing(Child, work[Child].conn, ToSet(work[Child].cmds), "killed")
  /\ UNCHANGED <<clientVars, read, out, shared>>

Loop(p) ==
  \/ Poll(p) \/ Respond(p)
  \/ \E e \in events[p] : \/ Accept(p, e) \/ AcceptFails(p, e) \/ Skip(p, e)
                          \/ Read(p, e) \/ Close(p, e) \/ Refuse(p, e)
  \/ (p = Child /\ DumpDone)
  \/ (p = Main /\ \E i \in 1 .. Len(work[p].cmds) : Fork(i))

Next ==
  \/ \E c \in Conns : Connect(c) \/ HangUp(c) \/ \E cmd \in Commands : SendCommand(c, cmd)
  \/ \E p \in Procs : Loop(p)
  \/ Die

Spec == Init /\ [][Next]_vars

\* Both processes run, and a dump ends.
FairSpec == Spec /\ \A p \in Procs : WF_vars(Loop(p))
-----------------------------------------------------------------------------
Events == [fd : Fds \cup {Listener}, conn : Conns \cup {None}, op : SUBSET {"READ", "WRITE"}]

\* Types of the variables.
TypeOK ==
  /\ conn \in [Conns -> {"none", "backlog", "accepted"}] /\ hung \subseteq Conns
  /\ asked \in [Conns -> Seq(Commands)]
  /\ read \in [Conns -> Nat] /\ \A c \in Conns : read[c] <= Len(asked[c])
  /\ work \in [Procs -> [conn : Conns \cup {None}, cmds : Seq(Nat)]]
  /\ out \in [Procs -> [Conns -> Seq(Nat)]]
  /\ lost \subseteq [by : Procs, conn : Conns, n : Nat, why : Causes]
  /\ status \in [Procs -> {"none", "loop", "dump", "gone"}]
  /\ table \in [Procs -> [Fds -> Conns \cup {None}]]
  /\ subs \subseteq Fds \X Conns
  /\ events \in [Procs -> SUBSET Events]
  /\ shared \subseteq Conns \X Nat

\* Each descriptor a process has open is watched under its number, with the
\* connection it is for, whichever process subscribed it and whoever has closed
\* it; and nothing else is watched.
WatchedWhileOpen ==
  subs = {s \in Fds \X Conns : \E p \in Procs : table[p][s[1]] = s[2]}

\* Without a fork an event stays true until it is handled, whatever is handled
\* before it: its number still stands for the connection it is about, which is
\* ready for what was subscribed, reading.  So "comm == nil" and a read with
\* nothing to read never happen, and the server closes a connection only when
\* its client has hung up or sent what cannot be decoded (async_tcp.go:164-173).
EventsStayTrue ==
  ~Forked =>
    \A e \in events[Main] :
      /\ e.op = {"READ"}
      /\ IF e.fd = Listener THEN Backlog # {}
         ELSE table[Main][e.fd] = e.conn /\ (Unread(e.conn) # <<>> \/ e.conn \in hung)

\* The commands on c that p has replied to and has still to reply to, in order.
Line(p, c) ==
  out[p][c] \o (IF work[p].conn = c THEN work[p].cmds ELSE <<>>)

LostBy(p, c) == {l.n : l \in {m \in lost : m.by = p /\ m.conn = c}}
Increasing(s) == \A i, j \in 1 .. Len(s) : i < j => s[i] < s[j]

\* Two processes read the same connections, and either may stop between reading
\* commands and writing their replies.  Each replies in the order of the
\* commands, at most once; every command read is in the line of a process, or
\* that process has lost it; both have had only commands the child inherited in
\* the middle of a batch, never BGREWRITEAOF itself.  Beyond what the kernel
\* refuses, commands are lost only with the child, or with the connection in the
\* process that could not decode them (async_tcp.go:164-175, eval.go:174-186,
\* 307-333).
RepliesAccounted ==
  /\ \A c \in Conns :
       /\ \A p \in Procs : Increasing(Line(p, c)) /\ ToSet(Line(p, c)) \cap LostBy(p, c) = {}
       /\ LET had == [p \in Procs |-> ToSet(Line(p, c)) \cup LostBy(p, c)]
          IN /\ had[Main] \cup had[Child] = 1 .. read[c]
             /\ \A n \in had[Main] \cap had[Child] : <<c, n>> \in shared
  /\ \A l \in lost :
       /\ l.why = "undecodable" => ~Holds(l.by, l.conn)
       /\ l.why = "killed" => l.by = Child /\ status[Child] = "gone"

\* The connection of c has ended: no process keeps it.
Ended(c) == conn[c] = "accepted" /\ ~Held(c)

\* A command on c is unread, or somebody has it in his hands.
Waiting(c) == Unread(c) # <<>> \/ \E p \in Procs : work[p].conn = c

\* Whatever is forked and killed: a command that was sent is replied to in the
\* end, or lost, or the connection ends; and once a client has hung up its
\* connection ends, in every process that has it (async_tcp.go:109-175).
EveryoneHeard ==
  \A c \in Conns : (Waiting(c) \/ c \in hung) ~> (Ended(c) \/ ~(Waiting(c) \/ c \in hung))
=============================================================================
