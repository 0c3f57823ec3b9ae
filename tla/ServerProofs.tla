---------------------------- MODULE ServerProofs ----------------------------
(***************************************************************************)
(* Theorems about the shutdown protocol of Server, for any number of       *)
(* connections and of commands in a batch.                                 *)
(***************************************************************************)
EXTENDS Server, TLAPS

\* The type of Server's variables is an invariant.
THEOREM ServerTypeOK == Spec => []TypeOK
<1> USE DEF TypeOK, Statuses, EnginePoints, HandlerPoints
<1>1. Init => TypeOK
  <2> SUFFICES ASSUME Init PROVE TypeOK
    OBVIOUS
  <2>1. alive \in BOOLEAN /\ sigs \in BOOLEAN
    BY Zenon DEF Init
  <2> QED
    BY <2>1 DEF Init
<1>2. TypeOK /\ [Next]_vars => TypeOK'
  <2> SUFFICES ASSUME TypeOK, [Next]_vars PROVE TypeOK'
    OBVIOUS
  <2> USE DEF Go, loopVars, handlerVars
  <2>1. CASE Setup
    BY <2>1 DEF Setup
  <2>2. CASE LoopTest
    BY <2>2 DEF LoopTest
  <2>3. CASE CronDone
    BY <2>3 DEF CronDone
  <2>4. CASE CompareAndSwap
    BY <2>4 DEF CompareAndSwap
  <2>5. CASE Switch
    BY <2>5 DEF Switch
  <2>6. CASE Accept
    BY <2>6 DEF Accept
  <2>7. CASE SubscribeFails
    BY <2>7 DEF SubscribeFails
  <2>8. CASE Drop
    BY <2>8 DEF Drop
  <2>9. CASE ReadCommands
    BY <2>9, ServerAssumption DEF ReadCommands
  <2>10. CASE Execute
    BY <2>10 DEF Execute
  <2>11. CASE Respond
    BY <2>11 DEF Respond
  <2>12. CASE ServeDone
    BY <2>12 DEF ServeDone
  <2>13. CASE MarkWaiting
    BY <2>13 DEF MarkWaiting
  <2>14. CASE Leave
    BY <2>14 DEF Leave
  <2>15. CASE Poll \/ PollError
    BY <2>15 DEF Poll, PollError
  <2>16. CASE Fatal \/ Exit
    <3>1. alive' \in BOOLEAN /\ sigs' \in BOOLEAN
      BY <2>16, Zenon DEF Fatal, Exit
    <3> QED
      BY <2>16, <3>1 DEF Fatal, Exit
  <2>17. CASE Receive \/ SpinEnds \/ StoreShuttingDown \/ Shutdown \/ Signal
    <3>1. alive' \in BOOLEAN /\ sigs' \in BOOLEAN
      BY <2>17, Zenon DEF Receive, SpinEnds, StoreShuttingDown, Shutdown, Signal
    <3> QED
      BY <2>17, <3>1 DEF Receive, SpinEnds, StoreShuttingDown, Shutdown, Signal
  <2>18. CASE Exited \/ UNCHANGED vars
    BY <2>18 DEF Exited, vars
  <2> QED
    BY <2>1, <2>2, <2>3, <2>4, <2>5, <2>6, <2>7, <2>8, <2>9, <2>10, <2>11, <2>12,
       <2>13, <2>14, <2>15, <2>16, <2>17, <2>18 DEF Next, Engine, Handler
<1> QED
  BY <1>1, <1>2, PTL DEF Spec
-----------------------------------------------------------------------------
\* Until the handler leaves its spin no swap fails, so the engine never reads
\* the status a second time.
StatusInv ==
  /\ eStatus \in Statuses
  /\ StatusAgrees
  /\ handler \in {"blocked", "spin"} => engine # "switch"

\* Until the handler leaves its spin the status tells where the engine is: the
\* load that ends the spin reads the truth.
THEOREM StatusTellsTheTruth == Spec => []StatusAgrees
<1> USE DEF StatusInv, StatusAgrees, Serving, Statuses
<1>1. Init => StatusInv
  BY DEF Init
<1>2. StatusInv /\ [Next]_vars => StatusInv'
  <2> SUFFICES ASSUME StatusInv, [Next]_vars PROVE StatusInv'
    OBVIOUS
  <2> USE DEF Go, loopVars, handlerVars
  <2>1. CASE Setup \/ CronDone \/ Switch
    BY <2>1 DEF Setup, CronDone, Switch
  <2>2. CASE LoopTest
    BY <2>2 DEF LoopTest
  <2>3. CASE CompareAndSwap
    BY <2>3 DEF CompareAndSwap
  <2>4. CASE Accept \/ SubscribeFails \/ Drop \/ ReadCommands
    BY <2>4 DEF Accept, SubscribeFails, Drop, ReadCommands
  <2>5. CASE Execute \/ Respond \/ ServeDone
    BY <2>5 DEF Execute, Respond, ServeDone
  <2>6. CASE MarkWaiting \/ Leave
    BY <2>6 DEF MarkWaiting, Leave
  <2>7. CASE Fatal \/ Poll \/ PollError
    BY <2>7 DEF Fatal, Poll, PollError
  <2>8. CASE Handler
    BY <2>8 DEF Handler, Receive, SpinEnds, StoreShuttingDown, Shutdown, Exit
  <2>9. CASE Signal \/ Exited \/ UNCHANGED vars
    BY <2>9 DEF Signal, Exited, vars
  <2> QED
    BY <2>1, <2>2, <2>3, <2>4, <2>5, <2>6, <2>7, <2>8, <2>9 DEF Next, Engine
<1>3. StatusInv => StatusAgrees
  OBVIOUS
<1> QED
  BY <1>1, <1>2, <1>3, PTL DEF Spec
-----------------------------------------------------------------------------
\* When the handler has forbidden an engine that was not serving, the engine
\* never executes or answers another command.
THEOREM NeverServesAgain == Spec => QuietForever
<1>1. [Next]_vars => [Quiet => Quiet' /\ applied' = applied /\ acked' = acked]_vars
  <2> SUFFICES ASSUME [Next]_vars, Quiet
               PROVE  Quiet' /\ applied' = applied /\ acked' = acked
    OBVIOUS
  <2> USE DEF Quiet, Serving, Go, loopVars, handlerVars
  <2>1. CASE Setup \/ LoopTest \/ CronDone \/ CompareAndSwap \/ Switch
    BY <2>1 DEF Setup, LoopTest, CronDone, CompareAndSwap, Switch
  <2>2. CASE Accept \/ SubscribeFails \/ Drop \/ ReadCommands
    BY <2>2 DEF Accept, SubscribeFails, Drop, ReadCommands
  <2>3. CASE Execute \/ Respond \/ ServeDone
    BY <2>3 DEF Execute, Respond, ServeDone
  <2>4. CASE MarkWaiting \/ Leave
    BY <2>4 DEF MarkWaiting, Leave
  <2>5. CASE Fatal \/ Poll \/ PollError
    BY <2>5 DEF Fatal, Poll, PollError
  <2>6. CASE Handler
    BY <2>6 DEF Handler, Receive, SpinEnds, StoreShuttingDown, Shutdown, Exit
  <2>7. CASE Signal \/ Exited \/ UNCHANGED vars
    BY <2>7 DEF Signal, Exited, vars
  <2> QED
    BY <2>1, <2>2, <2>3, <2>4, <2>5, <2>6, <2>7 DEF Next, Engine
<1> QED
  BY <1>1, PTL DEF Spec, QuietForever
=============================================================================
