------------------------------- MODULE Server -------------------------------
(***************************************************************************)
(* The two goroutines of the Go server and the word they share:            *)
(* RunAsyncTCPServer, the engine, which runs the event loop, and           *)
(* WaitForSignal, the handler, which on SIGTERM or SIGINT waits until the  *)
(* engine is not BUSY, forbids it to go on and dumps the store from a      *)
(* forked child (server/async_tcp.go, main.go, core/events.go).            *)
(*                                                                         *)
(* Each load, store and swap of eStatus is a step of its own.  The store   *)
(* is the number of commands applied to it: what they do is in Keyspace.   *)
(***************************************************************************)
EXTENDS Naturals

CONSTANTS
  Conns,      \* file descriptors of client connections
  Listener,   \* serverFD
  None,       \* no snapshot has been taken
  MaxCmds,    \* commands of one read
  MaxPolls    \* bound of the model: polls that return events

ASSUME ServerAssumption ==
  Listener \notin Conns /\ None \notin Nat /\ MaxCmds \in Nat \ {0} /\ MaxPolls \in Nat

VARIABLES
  eStatus,    \* "WAITING", "BUSY" or "SHUTTING_DOWN"
  engine,     \* where RunAsyncTCPServer is
  handler,    \* where WaitForSignal is
  alive,      \* the process has not exited
  sigs,       \* a signal is in the channel
  clients,    \* the keys of connectedClients
  events,     \* descriptors the poll returned and the loop has not handled
  cmds,       \* commands read from the client and not yet executed
  applied,    \* commands executed
  acked,      \* commands executed whose reply has been written
  snapshot,   \* value of applied the forked child started from, or None
  polls       \* polls that returned events

vars == <<eStatus, engine, handler, alive, sigs, clients, events, cmds, applied,
          acked, snapshot, polls>>
loopVars == <<clients, events, cmds, applied, acked, polls>>
handlerVars == <<handler, sigs, snapshot>>

Statuses == {"WAITING", "BUSY", "SHUTTING_DOWN"}
EnginePoints == {"setup", "loop", "cron", "poll", "cas", "switch", "serve", "eval", "mark",
                 "leave", "returned"}
HandlerPoints == {"blocked", "spin", "store", "shutdown", "exit"}

Init ==
  /\ eStatus = "WAITING" /\ engine = "setup" /\ handler = "blocked"
  /\ alive = TRUE /\ sigs = FALSE
  /\ clients = {} /\ events = {} /\ cmds = 0 /\ applied = 0 /\ acked = 0
  /\ snapshot = None /\ polls = 0
-----------------------------------------------------------------------------
\* A step of the engine from one point to another.
Go(from, to) == alive /\ engine = from /\ engine' = to /\ UNCHANGED <<handlerVars, alive>>

\* Socket, bind, listen, multiplexer, subscribe: an error returns ...
Setup ==
  /\ Go("setup", "loop") \/ Go("setup", "leave")
  /\ UNCHANGED <<loopVars, eStatus>>

\* ... except that a multiplexer that cannot be made ends the process.
Fatal ==
  /\ alive /\ engine = "setup"
  /\ alive' = FALSE
  /\ UNCHANGED <<loopVars, handlerVars, eStatus, engine>>

\* The test of the loop; the cron runs at most once a second.
LoopTest ==
  /\ IF eStatus = "SHUTTING_DOWN" THEN Go("loop", "leave")
     ELSE Go("loop", "cron") \/ Go("loop", "poll")
  /\ UNCHANGED <<loopVars, eStatus>>

\* DeleteExpiredKeys is over; the status was WAITING all along.
CronDone == Go("cron", "poll") /\ UNCHANGED <<loopVars, eStatus>>

\* The poll blocks until some descriptor is ready.
Poll ==
  /\ Go("poll", "cas") /\ polls < MaxPolls
  /\ \E ready \in SUBSET (clients \cup {Listener}) : ready # {} /\ events' = ready
  /\ polls' = polls + 1
  /\ UNCHANGED <<clients, cmds, applied, acked, eStatus>>

\* ... or a signal interrupts it.
PollError ==
  /\ Go("poll", "loop") /\ polls < MaxPolls
  /\ polls' = polls + 1
  /\ UNCHANGED <<clients, events, cmds, applied, acked, eStatus>>

\* The engine marked busy by a plain store.
StoreBusy ==
  /\ Go("cas", "serve")
  /\ eStatus' = "BUSY"
  /\ UNCHANGED loopVars

\* Compare WAITING and swap BUSY.
CompareAndSwap ==
  /\ \/ Go("cas", "serve") /\ eStatus = "WAITING" /\ eStatus' = "BUSY"
     \/ Go("cas", "switch") /\ eStatus # "WAITING" /\ UNCHANGED eStatus
  /\ UNCHANGED loopVars

\* A failed swap reads the status again, and goes on unless it is shutting down.
Switch ==
  /\ IF eStatus = "SHUTTING_DOWN" THEN Go("switch", "leave") ELSE Go("switch", "serve")
  /\ UNCHANGED <<loopVars, eStatus>>

\* A new connection is accepted, or fails to be.
Accept ==
  /\ Go("serve", "serve") /\ Listener \in events
  /\ events' = events \ {Listener}
  /\ clients' = clients \/ \E c \in Conns \ clients : clients' = clients \cup {c}
  /\ UNCHANGED <<cmds, applied, acked, polls, eStatus>>

\* A connection that cannot be subscribed makes the server return.
SubscribeFails ==
  /\ Go("serve", "leave") /\ Listener \in events
  /\ events' = events \ {Listener}
  /\ \E c \in Conns \ clients : clients' = clients \cup {c}
  /\ UNCHANGED <<cmds, applied, acked, polls, eStatus>>

\* A client that has gone, or that cannot be understood, is dropped.
Drop ==
  /\ Go("serve", "serve")
  /\ \E c \in events \cap clients : events' = events \ {c} /\ clients' = clients \ {c}
  /\ UNCHANGED <<cmds, applied, acked, polls, eStatus>>

\* Commands are read from a client; they will be answered together.
ReadCommands ==
  /\ Go("serve", "eval")
  /\ \E c \in events \cap clients : events' = events \ {c}
  /\ cmds' \in 1 .. MaxCmds
  /\ UNCHANGED <<clients, applied, acked, polls, eStatus>>

\* One command too many.
ExecuteUnguarded ==
  /\ Go("eval", "eval")
  /\ cmds' = cmds - 1 /\ applied' = applied + 1
  /\ UNCHANGED <<clients, events, acked, polls, eStatus>>

Execute ==
  /\ Go("eval", "eval") /\ cmds > 0
  /\ cmds' = cmds - 1 /\ applied' = applied + 1
  /\ UNCHANGED <<clients, events, acked, polls, eStatus>>

Respond ==
  /\ Go("eval", "serve") /\ cmds = 0
  /\ acked' = applied
  /\ UNCHANGED <<clients, events, cmds, applied, polls, eStatus>>

\* The loop goes on without marking itself WAITING.
ServeDoneUnmarked ==
  /\ Go("serve", "loop") /\ events = {}
  /\ UNCHANGED <<loopVars, eStatus>>

ServeDone ==
  /\ Go("serve", "mark") /\ events = {}
  /\ UNCHANGED <<loopVars, eStatus>>

\* The engine is marked WAITING, whatever the status is.
MarkWaiting ==
  /\ Go("mark", "loop")
  /\ eStatus' = "WAITING"
  /\ UNCHANGED loopVars

\* The deferred store, and wg.Done: main still waits for the handler.
Leave ==
  /\ Go("leave", "returned")
  /\ eStatus' = "SHUTTING_DOWN"
  /\ UNCHANGED loopVars
-----------------------------------------------------------------------------
\* A signal is put in the channel, which holds one.
Signal ==
  /\ alive /\ ~sigs /\ sigs' = TRUE
  /\ UNCHANGED <<loopVars, eStatus, engine, handler, alive, snapshot>>

Receive ==
  /\ alive /\ handler = "blocked" /\ sigs
  /\ handler' = "spin" /\ sigs' = FALSE
  /\ UNCHANGED <<loopVars, eStatus, engine, alive, snapshot>>

\* A spin that waits for WAITING.
SpinUntilWaiting ==
  /\ alive /\ handler = "spin" /\ eStatus = "WAITING"
  /\ handler' = "store"
  /\ UNCHANGED <<loopVars, eStatus, engine, alive, sigs, snapshot>>

\* The spin ends at the first load that does not read BUSY.
SpinEnds ==
  /\ alive /\ handler = "spin" /\ eStatus # "BUSY"
  /\ handler' = "store"
  /\ UNCHANGED <<loopVars, eStatus, engine, alive, sigs, snapshot>>

\* The status is set, whatever it has become since.
StoreShuttingDown ==
  /\ alive /\ handler = "store"
  /\ eStatus' = "SHUTTING_DOWN" /\ handler' = "shutdown"
  /\ UNCHANGED <<loopVars, engine, alive, sigs, snapshot>>

\* Shutdown forks; the child dumps the memory it was forked with.  A fork
\* that fails is not noticed.
Shutdown ==
  /\ alive /\ handler = "shutdown"
  /\ snapshot' \in {applied, None} /\ handler' = "exit"
  /\ UNCHANGED <<loopVars, eStatus, engine, alive, sigs>>

Exit ==
  /\ alive /\ handler = "exit"
  /\ alive' = FALSE
  /\ UNCHANGED <<loopVars, handlerVars, eStatus, engine>>

\* Nothing happens once the process has exited.
Exited == ~alive /\ UNCHANGED vars
-----------------------------------------------------------------------------
\* What the engine does without waiting for a client.
Engine ==
  \/ Setup \/ LoopTest \/ CronDone \/ CompareAndSwap \/ Switch
  \/ Accept \/ SubscribeFails \/ Drop \/ ReadCommands \/ Execute \/ Respond
  \/ ServeDone \/ MarkWaiting \/ Leave

Handler == Receive \/ SpinEnds \/ StoreShuttingDown \/ Shutdown \/ Exit

Next == Engine \/ Fatal \/ Poll \/ PollError \/ Handler \/ Signal \/ Exited

Spec == Init /\ [][Next]_vars

\* Both goroutines run; clients and signals come when they come.
FairSpec == Spec /\ WF_vars(Engine) /\ WF_vars(Handler)
-----------------------------------------------------------------------------
TypeOK ==
  /\ eStatus \in Statuses /\ engine \in EnginePoints /\ handler \in HandlerPoints
  /\ alive \in BOOLEAN /\ sigs \in BOOLEAN
  /\ clients \in SUBSET Conns /\ events \in SUBSET (Conns \cup {Listener})
  /\ cmds \in Nat /\ applied \in Nat /\ acked \in Nat
  /\ snapshot \in Nat \cup {None} /\ polls \in Nat

\* The engine is between winning the swap and marking itself WAITING.
Serving == engine \in {"serve", "eval", "mark"}

\* Until the handler has left its spin the status says where the engine is, so
\* the load that ends the spin reads the truth; the engine writes the store
\* only while BUSY, but for the cron.
StatusAgrees ==
  handler \in {"blocked", "spin"} =>
    /\ Serving => eStatus = "BUSY"
    /\ eStatus = "BUSY" => Serving \/ engine = "leave"
    /\ engine = "returned" <=> eStatus = "SHUTTING_DOWN"

\* The handler has stored SHUTTING_DOWN while the engine was not serving.
Quiet == handler \in {"shutdown", "exit"} /\ eStatus = "SHUTTING_DOWN" /\ ~Serving

\* From then on the engine never serves again: no command is executed or
\* answered after the snapshot, whatever the engine had read or polled before.
QuietForever ==
  [][ Quiet => Quiet' /\ applied' = applied /\ acked' = acked ]_vars

\* A signal ends the process, in whatever state the engine is when it comes,
\* failed at start included, provided the clients pause at last.
ShutdownCompletes == sigs ~> ~alive
-----------------------------------------------------------------------------
\* async_tcp.go:37: "if server is busy continue to wait": the dump holds every
\* command that had been answered when the process exits.
SnapshotHasAcked == ~alive /\ snapshot # None => acked <= snapshot
=============================================================================
