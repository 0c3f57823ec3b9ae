------------------------------ MODULE TxnProofs ------------------------------
(***************************************************************************)
(* Proofs about the clients and their transactions.  The properties of Txn *)
(* compare the server's state with what a client concludes from its log,   *)
(* the recursive function View; Recursion gives what is needed of it.      *)
(***************************************************************************)
EXTENDS Txn, Recursion

USE TxnAssumption, ClientAssumption

Entry == Commands \cup {Close}

\* What a client may know: nothing is queued but in a transaction.
Learned ==
  {p \in [txn : BOOLEAN, queue : Seq(Commands), incrs : Nat, replies : Nat] :
     p.txn \/ p.queue = <<>>}
Reply == {Ok, Queued, Err} \cup Nat \cup Seq(Nat \cup {Ok})
-----------------------------------------------------------------------------
(* The operators of the model.                                             *)

\* The increments of a queue can be counted.
LEMMA IncrsType ==
  ASSUME NEW q, NEW n \in Nat
  PROVE  Incrs(q, n) \in Nat
<1>1. IsFiniteSet(1 .. n)
  BY FS_Interval
<1>2. IsFiniteSet({j \in 1 .. n : q[j] = "INCR"})
  BY <1>1, FS_Subset
<1> QED
  BY <1>2, FS_CardinalityType DEF Incrs

\* No command, no increment.
LEMMA NoIncrs == Incrs(<<>>, Len(<<>>)) = 0
<1>1. Len(<<>>) = 0
  BY EmptySeq
<1>2. {j \in 1 .. 0 : <<>>[j] = "INCR"} = {}
  OBVIOUS
<1> QED
  BY <1>1, <1>2, FS_EmptySet DEF Incrs

\* EXEC replies with one value for each command of the queue.
LEMMA RepliesType ==
  ASSUME NEW q \in Seq(Commands), NEW v \in Nat
  PROVE  Replies(q, v) \in Reply
<1>1. DOMAIN q = 1 .. Len(q) /\ Len(q) \in Nat
  BY LenProperties
<1>2. ASSUME NEW i \in 1 .. Len(q)
      PROVE  Replies(q, v)[i] \in Nat \cup {Ok}
  <2>1. Incrs(q, i) \in Nat
    BY IncrsType
  <2>2. v + Incrs(q, i) \in Nat
    BY <2>1
  <2> QED
    BY <1>1, <2>2 DEF Replies
<1>3. Replies(q, v) \in [1 .. Len(q) -> Nat \cup {Ok}]
  BY <1>1, <1>2 DEF Replies
<1>4. Replies(q, v) \in Seq(Nat \cup {Ok})
  BY <1>1, <1>3, SeqDef
<1> QED
  BY <1>4 DEF Reply

\* What a client concludes after one entry more has the same type.
LEMMA HeardType ==
  ASSUME NEW p \in Learned, NEW e \in Entry
  PROVE  Heard(p, e) \in Learned
<1>1. p.txn \in BOOLEAN /\ p.queue \in Seq(Commands) /\ p.incrs \in Nat /\ p.replies \in Nat
  BY DEF Learned
<1>2. Len(p.queue) \in Nat /\ Incrs(p.queue, Len(p.queue)) \in Nat
  BY <1>1, LenProperties, IncrsType
<1>3. p.incrs + Incrs(p.queue, Len(p.queue)) \in Nat /\ p.replies + 1 \in Nat /\ p.incrs + 1 \in Nat
  BY <1>1, <1>2
<1>4. e # Close => e \in Commands
  BY DEF Entry
<1>5. e # Close => Append(p.queue, e) \in Seq(Commands)
  BY <1>1, <1>4
<1>6. <<>> \in Seq(Commands)
  OBVIOUS
<1>7. CASE e = Close
  BY <1>7, <1>1, <1>6 DEF Heard, Learned, Close
<1>8. CASE e = "DISCARD"
  BY <1>8, <1>1, <1>3, <1>6 DEF Heard, Learned, Close
<1>9. CASE e = "EXEC"
  BY <1>9, <1>1, <1>3, <1>6 DEF Heard, Learned, Close
<1>10. CASE e \in {"INCR", "GET", "MULTI"}
  BY <1>10, <1>1, <1>3, <1>5 DEF Heard, Learned, Close
<1> QED
  BY <1>7, <1>8, <1>9, <1>10 DEF Entry, Commands, txnCommands

\* View is the function its recursive definition describes.
LEMMA ViewUnfold ==
  ASSUME NEW h \in Seq(Entry)
  PROVE  /\ View(h) \in [0 .. Len(h) -> Learned]
         /\ View(h)[0] = Start
         /\ \A i \in 1 .. Len(h) : View(h)[i] = Heard(View(h)[i - 1], h[i])
<1> DEFINE
     n == Len(h)
     Rec(f) == f = [i \in 0 .. n |-> IF i = 0 THEN Start ELSE Heard(f[i - 1], h[i])]
<1>1. n \in Nat /\ \A i \in 1 .. n : h[i] \in Entry
  BY ElementOfSeq, LenProperties
<1>2. Start \in Learned
  BY DEF Start, Learned
<1>3. \E f : Rec(f)
  <2> DEFINE G == [i \in 1 .. n |-> [p \in Learned |-> Heard(p, h[i])]]
  <2>1. G \in [1 .. n -> [Learned -> Learned]]
    BY <1>1, HeardType
  <2> HIDE DEF G, n
  <2>2. PICK f \in [0 .. n -> Learned] :
          f[0] = Start /\ \A i \in 1 .. n : f[i] = G[i][f[i - 1]]
    <3>1. n \in Nat
      BY <1>1
    <3> HIDE DEF Learned, Start
    <3>2. HasRun(n, Learned, Start, G)
      BY ONLY <3>1, <1>2, <2>1, SeqRecursion
    <3> QED
      BY <3>2 DEF HasRun
  <2>3. ASSUME NEW i \in 0 .. n
        PROVE  f[i] = IF i = 0 THEN Start ELSE Heard(f[i - 1], h[i])
    <3>1. CASE i # 0
      <4>1. i \in 1 .. n /\ i - 1 \in 0 .. n
        BY <3>1, <1>1
      <4>2. f[i - 1] \in Learned
        BY <4>1, <2>2
      <4> QED
        BY <3>1, <4>1, <4>2, <2>2 DEF G
    <3> QED
      BY <3>1, <2>2
  <2>4. f = [i \in 0 .. n |-> IF i = 0 THEN Start ELSE Heard(f[i - 1], h[i])]
    BY <2>2, <2>3
  <2> QED
    BY <2>4
<1>4. View(h) = CHOOSE f : Rec(f)
  BY DEF View
<1>5. Rec(View(h))
  <2> HIDE DEF Rec
  <2> QED
    BY <1>3, <1>4
<1> HIDE DEF n
<1>6. DOMAIN View(h) = 0 .. n
  BY <1>5
<1>7. View(h)[0] = Start
  BY <1>5, <1>1
<1>8. \A i \in 1 .. n : View(h)[i] = Heard(View(h)[i - 1], h[i])
  BY <1>5, <1>1
<1>9. \A i \in 0 .. n : View(h)[i] \in Learned
  <2> DEFINE K == {i \in Nat : i <= n => View(h)[i] \in Learned}
  <2>1. 0 \in K
    BY <1>7, <1>2
  <2>2. \A i \in Nat : i \in K => i + 1 \in K
    <3> SUFFICES ASSUME NEW i \in Nat, i \in K, i + 1 <= n
                 PROVE  View(h)[i + 1] \in Learned
      OBVIOUS
    <3>1. i + 1 \in 1 .. n /\ (i + 1) - 1 = i /\ i <= n
      BY <1>1
    <3>2. View(h)[i] \in Learned
      BY <3>1
    <3>3. View(h)[i + 1] = Heard(View(h)[i], h[i + 1])
      BY <3>1, <1>8
    <3> QED
      BY <3>1, <3>2, <3>3, <1>1, HeardType
  <2> HIDE DEF K
  <2>3. Nat \subseteq K
    BY <2>1, <2>2, NatInSet
  <2> USE DEF K
  <2> QED
    BY <2>3, <1>1
<1>10. View(h) = [i \in 0 .. n |-> View(h)[i]]
  BY <1>5
<1>11. View(h) \in [0 .. n -> Learned]
  BY <1>9, <1>10
<1> QED
  BY <1>7, <1>8, <1>11 DEF n

\* What is concluded after n entries depends on these alone.
LEMMA ViewOfPrefix ==
  ASSUME NEW h \in Seq(Entry), NEW k \in Seq(Entry), NEW n \in Nat,
         n <= Len(h), n <= Len(k), \A i \in 1 .. n : h[i] = k[i]
  PROVE  \A i \in 0 .. n : View(h)[i] = View(k)[i]
<1> DEFINE K == {i \in Nat : i <= n => View(h)[i] = View(k)[i]}
<1>1. Len(h) \in Nat /\ Len(k) \in Nat
  BY LenProperties
<1>2. 0 \in K
  BY ViewUnfold
<1>3. \A i \in Nat : i \in K => i + 1 \in K
  <2> SUFFICES ASSUME NEW i \in Nat, i \in K, i + 1 <= n
               PROVE  View(h)[i + 1] = View(k)[i + 1]
    OBVIOUS
  <2>1. /\ i + 1 \in 1 .. n /\ (i + 1) - 1 = i /\ i <= n
        /\ i + 1 \in 1 .. Len(h) /\ i + 1 \in 1 .. Len(k)
    BY <1>1
  <2>2. View(h)[i] = View(k)[i] /\ h[i + 1] = k[i + 1]
    BY <2>1
  <2>3. /\ View(h)[i + 1] = Heard(View(h)[i], h[i + 1])
        /\ View(k)[i + 1] = Heard(View(k)[i], k[i + 1])
    BY <2>1, ViewUnfold
  <2> QED
    BY <2>2, <2>3
<1> HIDE DEF K
<1>4. Nat \subseteq K
  BY <1>2, <1>3, NatInSet
<1> USE DEF K
<1> QED
  BY <1>4
-----------------------------------------------------------------------------
(* The inductive invariant.                                                *)

\* The types of TypeOK, and those of the replies.
Typing == TypeOK /\ buf \in Seq(Reply) /\ out \in [Fds -> Seq(Reply)]

\* The commands of the batch still to be evaluated are the last ones of the
\* client's log.
Unheard ==
  serving # Nil =>
    /\ Len(cmds) <= Len(log[serving])
    /\ \A j \in 1 .. Len(cmds) : cmds[j] = log[serving][Len(log[serving]) - Len(cmds) + j]

\* Without a client behind a descriptor, nothing is begun or queued on it.
Gone == \A fd \in Fds : clients[fd] = Nil => ~Seen(fd).txn /\ Seen(fd).queue = <<>>

\* The number of the reply to a command that took effect is that of a reply.
Numbered ==
  \A fd \in Fds : \A i \in 1 .. Evaluated(fd) :
    log[fd][i] \in Commands => View(log[fd])[i].replies \in 1 .. Len(Answers(fd))

TxnInv == Typing /\ Unheard /\ Gone /\ QueueAgrees /\ Numbered /\ Answered /\ Accounted
-----------------------------------------------------------------------------
(* Types.                                                                  *)

\* Evaluating a command keeps the types.
LEMMA EvaluateTyping ==
  ASSUME Typing, serving # Nil, cmds # <<>>, cmds' = Tail(cmds),
         NEW client \in Client, clients' = [clients EXCEPT ![serving] = client],
         NEW reply \in Reply, buf' = Append(buf, reply),
         UNCHANGED <<serving, out, log>>, db' \in Nat
  PROVE  Typing'
<1>1. serving \in Fds /\ serving' = serving /\ client # Nil
  BY DEF Typing, TypeOK
<1>2. clients' \in [Fds -> Client \cup {Nil}] /\ clients'[serving] # Nil
  BY <1>1 DEF Typing, TypeOK
<1>3. cmds' \in Seq(Commands)
  BY HeadTailProperties DEF Typing, TypeOK
<1>4. buf' \in Seq(Reply)
  BY DEF Typing
<1> QED
  BY <1>1, <1>2, <1>3, <1>4 DEF Typing, TypeOK

\* The client that is served, and the next command of its batch.
LEMMA ServedTypes ==
  ASSUME Typing, serving # Nil
  PROVE  /\ serving \in Fds /\ cl \in Client
         /\ cl.isTxn \in BOOLEAN /\ cl.cqueue \in Seq(Commands)
         /\ cmds # <<>> => Head(cmds) \in Commands
         /\ db \in Nat
<1>1. cl \in Client /\ serving \in Fds
  BY DEF Typing, TypeOK, cl
<1>2. cmds # <<>> => Head(cmds) \in Commands
  BY HeadTailProperties DEF Typing, TypeOK
<1>3. cl.isTxn \in BOOLEAN /\ cl.cqueue \in Seq(Commands)
  BY <1>1 DEF Client
<1> QED
  BY <1>1, <1>2, <1>3 DEF Typing, TypeOK

\* The typing invariant is inductive.
LEMMA TypingStep ==
  ASSUME Typing, [Next]_vars
  PROVE  Typing'
<1>1. NewClient \in Client /\ NewClient # Nil
  <2>1. <<>> \in Seq(Commands)
    BY EmptySeq
  <2>2. NewClient \in Client
    BY <2>1 DEF NewClient, Client
  <2> QED
    BY <2>2
<1>2. \A fd \in Fds : Ended(log[fd]) \in Seq(Commands \cup {Close})
  BY DEF Ended, Typing, TypeOK
<1>3. ASSUME NEW fd \in Fds, Accept(fd) PROVE Typing'
  BY <1>3, <1>1 DEF Accept, Typing, TypeOK
<1>4. ASSUME NEW fd \in Fds, Drop(fd) PROVE Typing'
  <2>1. clients' \in [Fds -> Client \cup {Nil}]
    BY <1>4 DEF Drop, Typing, TypeOK
  <2>2. log' \in [Fds -> Seq(Commands \cup {Close})]
    BY <1>4, <1>2 DEF Drop, Typing, TypeOK
  <2> QED
    BY <2>1, <2>2, <1>4 DEF Drop, Typing, TypeOK
<1>5. ASSUME NEW fd \in Fds, NEW n \in 1 .. MaxBatch, NEW batch \in [1 .. n -> Commands],
             readCommands(fd, batch)
      PROVE  Typing'
  <2>1. n \in Nat /\ batch \in Seq(Commands) /\ batch \in Seq(Commands \cup {Close})
    BY SeqDef
  <2>2. log[fd] \o batch \in Seq(Commands \cup {Close})
    BY <2>1, ConcatProperties DEF Typing, TypeOK
  <2>3. log' \in [Fds -> Seq(Commands \cup {Close})]
    BY <2>2, <1>5 DEF readCommands, Typing, TypeOK
  <2>4. clients[fd] # Nil /\ clients' = clients /\ serving' = fd /\ cmds' = batch
        /\ buf' = <<>> /\ out' = out /\ db' = db
    BY <1>5 DEF readCommands
  <2> QED
    BY <2>1, <2>3, <2>4 DEF Typing, TypeOK
<1>6. ASSUME EvalAndRespond PROVE Typing'
  <2> DEFINE q == cl.cqueue
  <2>1. serving # Nil
    BY <1>6 DEF EvalAndRespond
  <2>2. /\ cl \in Client /\ q \in Seq(Commands) /\ db \in Nat
        /\ cmds # <<>> => Head(cmds) \in Commands
    BY <2>1, ServedTypes
  <2>3. {Ok, Queued, Err} \subseteq Reply /\ Nat \subseteq Reply /\ Replies(q, db) \in Reply
    BY <2>2, RepliesType DEF Reply
  <2>4. CASE evalINCR
    <3>1. db + 1 \in Nat
      BY <2>2
    <3> QED
      BY <3>1, <2>2, <2>3, <2>4, EvaluateTyping DEF evalINCR, Evaluate
  <2>5. CASE evalGET
    BY <2>2, <2>3, <2>5, EvaluateTyping DEF evalGET, Evaluate
  <2>6. CASE TxnBegin
    <3>1. [cl EXCEPT !.isTxn = TRUE] \in Client
      BY <2>2 DEF Client
    <3> QED
      BY <3>1, <2>2, <2>3, <2>6, EvaluateTyping DEF TxnBegin, Evaluate
  <2>7. CASE WithoutMulti
    BY <2>2, <2>3, <2>7, EvaluateTyping DEF WithoutMulti, Evaluate
  <2>8. CASE TxnQueue
    <3>1. cmds # <<>> /\ Head(cmds) \in Commands
      BY <2>8, <2>2 DEF TxnQueue, Evaluate
    <3>2. [cl EXCEPT !.cqueue = Append(@, Head(cmds))] \in Client
      BY <3>1, <2>2 DEF Client
    <3> QED
      BY <3>2, <2>2, <2>3, <2>8, EvaluateTyping DEF TxnQueue, Evaluate
  <2>9. CASE TxnExec
    <3>1. Len(q) \in Nat
      BY <2>2, LenProperties
    <3>2. db + Incrs(q, Len(q)) \in Nat
      BY <3>1, <2>2, IncrsType
    <3> QED
      BY <3>2, <1>1, <2>2, <2>3, <2>9, EvaluateTyping DEF TxnExec, Evaluate
  <2>10. CASE TxnDiscard
    BY <1>1, <2>2, <2>3, <2>10, EvaluateTyping DEF TxnDiscard, Evaluate
  <2>11. CASE Respond
    <3>1. serving \in Fds /\ out[serving] \in Seq(Reply) /\ buf \in Seq(Reply)
      BY <2>1 DEF Typing, TypeOK
    <3>2. out[serving] \o buf \in Seq(Reply)
      BY <3>1, ConcatProperties
    <3>3. out' \in [Fds -> Seq(Reply)]
      BY <3>2, <2>11 DEF Respond, Typing
    <3> QED
      BY <3>3, <2>11 DEF Respond, Typing, TypeOK
  <2> QED
    BY <1>6, <2>4, <2>5, <2>6, <2>7, <2>8, <2>9, <2>10, <2>11 DEF EvalAndRespond
<1>7. CASE UNCHANGED vars
  BY <1>7 DEF vars, Typing, TypeOK
<1> QED
  BY <1>3, <1>4, <1>5, <1>6, <1>7 DEF Next
-----------------------------------------------------------------------------
(* What a step adds to what the clients know.                              *)

\* The log, what is known of it and the replies are well-formed.
SeenOK ==
  \A fd \in Fds :
    /\ log[fd] \in Seq(Entry) /\ Len(log[fd]) \in Nat
    /\ Evaluated(fd) \in 0 .. Len(log[fd])
    /\ View(log[fd]) \in [0 .. Len(log[fd]) -> Learned]
    /\ View(log[fd])[0] = Start
    /\ \A i \in 1 .. Len(log[fd]) : View(log[fd])[i] = Heard(View(log[fd])[i - 1], log[fd][i])
    /\ Seen(fd) \in Learned
    /\ Answers(fd) \in Seq(Reply) /\ Len(Answers(fd)) \in Nat

\* What a client concludes from its history has the types of a client.
LEMMA SeenTypes == Typing /\ Unheard => SeenOK
<1> SUFFICES ASSUME Typing, Unheard, NEW fd \in Fds
             PROVE  /\ log[fd] \in Seq(Entry) /\ Len(log[fd]) \in Nat
                    /\ Evaluated(fd) \in 0 .. Len(log[fd])
                    /\ View(log[fd]) \in [0 .. Len(log[fd]) -> Learned]
                    /\ View(log[fd])[0] = Start
                    /\ \A i \in 1 .. Len(log[fd]) :
                         View(log[fd])[i] = Heard(View(log[fd])[i - 1], log[fd][i])
                    /\ Seen(fd) \in Learned
                    /\ Answers(fd) \in Seq(Reply) /\ Len(Answers(fd)) \in Nat
  BY DEF SeenOK
<1>1. log[fd] \in Seq(Entry)
  BY DEF Typing, TypeOK, Entry
<1>2. Len(log[fd]) \in Nat /\ Len(cmds) \in Nat
  BY <1>1, LenProperties DEF Typing, TypeOK
<1>3. Evaluated(fd) \in 0 .. Len(log[fd])
  <2>1. CASE serving = fd
    <3>1. Len(cmds) <= Len(log[fd])
      BY <2>1 DEF Unheard
    <3> QED
      BY <3>1, <2>1, <1>2 DEF Evaluated
  <2>2. CASE serving # fd
    BY <2>2, <1>2 DEF Evaluated
  <2> QED
    BY <2>1, <2>2
<1>4. Answers(fd) \in Seq(Reply)
  <2>1. out[fd] \in Seq(Reply) /\ buf \in Seq(Reply) /\ <<>> \in Seq(Reply)
    BY EmptySeq DEF Typing
  <2> QED
    BY <2>1, ConcatProperties DEF Answers
<1>5. View(log[fd]) \in [0 .. Len(log[fd]) -> Learned]
  BY <1>1, ViewUnfold
<1>6. Seen(fd) \in Learned
  BY <1>3, <1>5 DEF Seen
<1>7. Len(Answers(fd)) \in Nat
  BY <1>4, LenProperties
<1> QED
  BY <1>1, <1>2, <1>3, <1>4, <1>5, <1>6, <1>7, ViewUnfold

\* Nothing the client behind fd knew changes, it gets no reply, and no command
\* of its takes effect.
Quiet(fd) ==
  /\ Evaluated(fd) <= Evaluated(fd)'
  /\ \A i \in 0 .. Evaluated(fd) : View(log'[fd])[i] = View(log[fd])[i]
  /\ \A i \in 1 .. Evaluated(fd) : log'[fd][i] = log[fd][i]
  /\ \A i \in Evaluated(fd) + 1 .. Evaluated(fd)' : log'[fd][i] \notin Commands
  /\ Seen(fd)'.incrs = Seen(fd).incrs /\ Seen(fd)'.replies = Seen(fd).replies
  /\ Answers(fd)' = Answers(fd)

\* As long as every entry that took effect is kept and none is added, the client
\* behind fd knows what it knew.
LEMMA Kept ==
  ASSUME Typing, Unheard, Typing', Unheard', NEW fd \in Fds,
         Evaluated(fd)' = Evaluated(fd), Answers(fd)' = Answers(fd),
         \A i \in 1 .. Evaluated(fd) : log'[fd][i] = log[fd][i]
  PROVE  Quiet(fd) /\ Seen(fd)' = Seen(fd)
<1>0. SeenOK /\ SeenOK'
  BY SeenTypes, PTL
<1>1. /\ log[fd] \in Seq(Entry) /\ Evaluated(fd) \in 0 .. Len(log[fd]) /\ Len(log[fd]) \in Nat
  BY <1>0 DEF SeenOK
<1>2. /\ log'[fd] \in Seq(Entry) /\ Evaluated(fd)' \in 0 .. Len(log'[fd]) /\ Len(log'[fd]) \in Nat
  BY <1>0 DEF SeenOK
<1> DEFINE n == Evaluated(fd)
<1>3. n \in Nat /\ n <= Len(log[fd]) /\ n <= Len(log'[fd])
  BY <1>1, <1>2
<1>4. \A i \in 0 .. n : View(log'[fd])[i] = View(log[fd])[i]
  BY <1>1, <1>2, <1>3, ViewOfPrefix, ZenonT(60)
<1>5. Seen(fd)' = View(log'[fd])[n] /\ Seen(fd) = View(log[fd])[n] /\ n \in 0 .. n
  BY <1>3 DEF Seen
<1>6. Seen(fd)' = Seen(fd)
  BY <1>4, <1>5
<1>7. \A i \in n + 1 .. n : FALSE
  BY <1>3
<1> QED
  BY <1>3, <1>4, <1>6, <1>7 DEF Quiet
-----------------------------------------------------------------------------
(* Steps that answer no command.                                           *)

\* A higher counter admits no fewer replies.
LEMMA FitsMonotone ==
  ASSUME NEW p, NEW e, NEW r, NEW c \in Nat, NEW d \in Nat, c <= d, Fits(p, e, r, c)
  PROVE  Fits(p, e, r, d)
<1>1. 0 .. c \subseteq 0 .. d
  OBVIOUS
<1> HIDE DEF Replies
<1> QED
  BY <1>1 DEF Fits

\* When every client's view stays as it is and the counter too, the replies
\* stay the right ones.
LEMMA QuietStep ==
  ASSUME Typing, Unheard, Typing', Unheard', Numbered, Answered, Accounted,
         \A fd \in Fds : Quiet(fd), db' = db
  PROVE  Numbered' /\ Answered' /\ Accounted'
<1>0. SeenOK /\ SeenOK'
  BY SeenTypes, PTL
<1>1. ASSUME NEW fd \in Fds, NEW i \in 1 .. Evaluated(fd)', log'[fd][i] \in Commands
      PROVE  /\ i \in 1 .. Evaluated(fd) /\ i - 1 \in 0 .. Evaluated(fd) /\ i \in 0 .. Evaluated(fd)
             /\ log'[fd][i] = log[fd][i]
             /\ View(log'[fd])[i - 1] = View(log[fd])[i - 1]
             /\ View(log'[fd])[i] = View(log[fd])[i]
  <2>1. Evaluated(fd) \in Nat /\ Evaluated(fd)' \in Nat /\ Quiet(fd)
    BY <1>0 DEF SeenOK
  <2>2. i \in 1 .. Evaluated(fd)
    BY <2>1, <1>1 DEF Quiet
  <2>3. i - 1 \in 0 .. Evaluated(fd) /\ i \in 0 .. Evaluated(fd)
    BY <2>1, <2>2
  <2> QED
    BY <2>1, <2>2, <2>3 DEF Quiet
<1>2. Numbered'
  <2> SUFFICES ASSUME NEW fd \in Fds, NEW i \in 1 .. Evaluated(fd)', log'[fd][i] \in Commands
               PROVE  View(log'[fd])[i].replies \in 1 .. Len(Answers(fd)')
    BY DEF Numbered
  <2>1. Answers(fd)' = Answers(fd)
    BY DEF Quiet
  <2> QED
    BY <2>1, <1>1 DEF Numbered
<1>3. Answered'
  <2> SUFFICES ASSUME NEW fd \in Fds
               PROVE  /\ Len(Answers(fd)') = Seen(fd)'.replies
                      /\ \A i \in 1 .. Evaluated(fd)' : log'[fd][i] \in Commands =>
                           Fits(View(log'[fd])[i - 1], log'[fd][i],
                                Answers(fd)'[View(log'[fd])[i].replies], db')
    BY DEF Answered
  <2>1. Answers(fd)' = Answers(fd) /\ Seen(fd)'.replies = Seen(fd).replies
    BY DEF Quiet
  <2>2. Len(Answers(fd)') = Seen(fd)'.replies
    BY <2>1 DEF Answered
  <2> SUFFICES ASSUME NEW i \in 1 .. Evaluated(fd)', log'[fd][i] \in Commands
               PROVE  Fits(View(log'[fd])[i - 1], log'[fd][i],
                           Answers(fd)'[View(log'[fd])[i].replies], db')
    BY <2>2
  <2>3. Fits(View(log[fd])[i - 1], log[fd][i], Answers(fd)[View(log[fd])[i].replies], db)
    BY <1>1 DEF Answered
  <2> QED
    BY <2>1, <2>3, <1>1
<1>4. Accounted'
  <2>1. [fd \in Fds |-> Seen(fd)'.incrs] = [fd \in Fds |-> Seen(fd).incrs]
    BY DEF Quiet
  <2> QED
    BY <2>1 DEF Accounted
<1> QED
  BY <1>2, <1>3, <1>4
-----------------------------------------------------------------------------
(* Steps that answer a command.                                            *)

\* The command e of the client behind s is answered with r.
Replied(s, e, r) ==
  /\ serving = s /\ cmds # <<>> /\ e = Head(cmds) /\ cmds' = Tail(cmds)
  /\ buf' = Append(buf, r) /\ UNCHANGED <<serving, out, log>>

\* Adding to the end of a concatenation.
AtEnd(a, b, x) == a \o Append(b, x) = Append(a \o b, x)

\* It does not matter which is done first.
LEMMA AppendConcat ==
  ASSUME NEW S, NEW a \in Seq(S), NEW b \in Seq(S), NEW x \in S
  PROVE  AtEnd(a, b, x)
<1> SUFFICES a \o Append(b, x) = Append(a \o b, x)
  BY DEF AtEnd
<1>1. /\ a \o b \in Seq(S) /\ Len(a \o b) = Len(a) + Len(b)
      /\ \A i \in 1 .. Len(a) + Len(b) : (a \o b)[i] = IF i <= Len(a) THEN a[i] ELSE b[i - Len(a)]
  BY ConcatProperties
<1>2. /\ Append(b, x) \in Seq(S) /\ Len(Append(b, x)) = Len(b) + 1
      /\ \A i \in 1 .. Len(b) : Append(b, x)[i] = b[i]
      /\ Append(b, x)[Len(b) + 1] = x
  OBVIOUS
<1>3. /\ Append(a \o b, x) \in Seq(S) /\ Len(Append(a \o b, x)) = Len(a) + Len(b) + 1
      /\ \A i \in 1 .. Len(a) + Len(b) : Append(a \o b, x)[i] = (a \o b)[i]
      /\ Append(a \o b, x)[Len(a) + Len(b) + 1] = x
  BY <1>1
<1> DEFINE c == Append(b, x)
           l == a \o c
           g == Append(a \o b, x)
<1>4. /\ l \in Seq(S) /\ Len(l) = Len(a) + Len(b) + 1
      /\ \A i \in 1 .. Len(a) + Len(b) + 1 : l[i] = IF i <= Len(a) THEN a[i] ELSE c[i - Len(a)]
  <2>1. c \in Seq(S) /\ Len(c) = Len(b) + 1
    BY <1>2
  <2> HIDE DEF c
  <2>2. /\ l \in Seq(S) /\ Len(l) = Len(a) + Len(c)
        /\ \A i \in 1 .. Len(a) + Len(c) : l[i] = IF i <= Len(a) THEN a[i] ELSE c[i - Len(a)]
    BY <2>1, ConcatProperties
  <2>3. Len(a) \in Nat /\ Len(b) \in Nat
    BY LenProperties
  <2> QED
    BY <2>1, <2>2, <2>3
<1>5. Len(a) \in Nat /\ Len(b) \in Nat
  BY LenProperties
<1>6. g \in Seq(S) /\ Len(g) = Len(l)
  BY <1>3, <1>4
<1>7. ASSUME NEW i \in 1 .. Len(l) PROVE l[i] = g[i]
  <2> HIDE DEF l, g, c
  <2>1. CASE i <= Len(a)
    <3>1. i \in 1 .. Len(a) + Len(b) /\ i \in 1 .. Len(a) + Len(b) + 1
      BY <2>1, <1>4, <1>5
    <3> QED
      BY <3>1, <2>1, <1>1, <1>3, <1>4 DEF g
  <2>2. CASE i > Len(a) /\ i <= Len(a) + Len(b)
    <3>1. /\ i \in 1 .. Len(a) + Len(b) /\ i \in 1 .. Len(a) + Len(b) + 1
          /\ i - Len(a) \in 1 .. Len(b) /\ ~ (i <= Len(a))
      BY <2>2, <1>4, <1>5
    <3>2. l[i] = c[i - Len(a)] /\ c[i - Len(a)] = b[i - Len(a)]
      BY <3>1, <1>4, <1>2 DEF c
    <3>3. g[i] = (a \o b)[i] /\ (a \o b)[i] = b[i - Len(a)]
      BY <3>1, <1>1, <1>3 DEF g
    <3> QED
      BY <3>2, <3>3
  <2>3. CASE i = Len(a) + Len(b) + 1
    <3>1. i \in 1 .. Len(a) + Len(b) + 1 /\ i - Len(a) = Len(b) + 1 /\ ~ (i <= Len(a))
      BY <2>3, <1>5
    <3>2. l[i] = c[Len(b) + 1] /\ c[Len(b) + 1] = x
      BY <3>1, <1>4, <1>2 DEF c
    <3> QED
      BY <3>2, <2>3, <1>3 DEF g
  <2>4. /\ Len(a) \in Nat /\ Len(b) \in Nat
        /\ i \in Nat /\ i <= Len(a) + Len(b) + 1
    BY <1>4, <1>5
  <2> QED
    BY ONLY <2>1, <2>2, <2>3, <2>4
<1> HIDE DEF l, g
<1>8. l = g
  BY <1>4, <1>6, <1>7, SeqEqual
<1> QED
  BY <1>8 DEF l, g

\* An answered command is the next one of the client's log.
LEMMA RepliedHears ==
  ASSUME Typing, Unheard, Typing', NEW s \in Fds, NEW e, NEW r \in Reply, Replied(s, e, r)
  PROVE  /\ Unheard'
         /\ Evaluated(s)' = Evaluated(s) + 1 /\ Evaluated(s) + 1 \in 1 .. Len(log[s])
         /\ log[s][Evaluated(s) + 1] = e
         /\ Seen(s)' = Heard(Seen(s), e)
         /\ Answers(s)' = Append(Answers(s), r)
         /\ \A fd \in Fds \ {s} : /\ Evaluated(fd)' = Evaluated(fd) /\ Seen(fd)' = Seen(fd)
                                  /\ Answers(fd)' = Answers(fd)
<1>0. SeenOK
  BY SeenTypes
<1>1. /\ serving = s /\ serving' = s /\ log' = log /\ out' = out /\ s # Nil
      /\ buf \in Seq(Reply) /\ out[s] \in Seq(Reply)
  BY DEF Replied, Typing
<1>2. /\ Len(cmds) \in Nat \ {0} /\ Len(cmds') = Len(cmds) - 1
      /\ e = cmds[1] /\ \A j \in 1 .. Len(cmds') : cmds'[j] = cmds[j + 1]
  <2>1. cmds \in Seq(Commands) /\ cmds # <<>> /\ cmds' = Tail(cmds) /\ e = Head(cmds)
    BY DEF Replied, Typing, TypeOK
  <2>2. /\ Len(Tail(cmds)) = Len(cmds) - 1
        /\ \A i \in 1 .. Len(Tail(cmds)) : Tail(cmds)[i] = cmds[i + 1]
    BY <2>1, HeadTailProperties
  <2>3. Head(cmds) = cmds[1] /\ Len(cmds) \in Nat \ {0}
    BY <2>1, EmptySeq
  <2> QED
    BY <2>1, <2>2, <2>3
<1>3. /\ Len(log[s]) \in Nat /\ Len(cmds) <= Len(log[s])
      /\ \A j \in 1 .. Len(cmds) : cmds[j] = log[s][Len(log[s]) - Len(cmds) + j]
  BY <1>0, <1>1 DEF Unheard, SeenOK
<1>4. Evaluated(s) = Len(log[s]) - Len(cmds) /\ Evaluated(s)' = Len(log[s]) - Len(cmds')
  BY <1>1 DEF Evaluated
<1>5. Evaluated(s)' = Evaluated(s) + 1 /\ Evaluated(s) + 1 \in 1 .. Len(log[s])
  BY <1>2, <1>3, <1>4
<1>6. log[s][Evaluated(s) + 1] = e
  BY <1>2, <1>3, <1>4
<1>7. Unheard'
  <2>1. ASSUME NEW j \in 1 .. Len(cmds')
        PROVE  cmds'[j] = log[s][Len(log[s]) - Len(cmds') + j]
    <3>1. /\ j \in Int /\ j + 1 \in 1 .. Len(cmds)
          /\ Len(log[s]) - Len(cmds) + (j + 1) = Len(log[s]) - Len(cmds') + j
      <4>1. /\ Len(cmds) \in Nat /\ Len(cmds') = Len(cmds) - 1 /\ Len(log[s]) \in Nat
            /\ j \in 1 .. (Len(cmds) - 1)
        BY <1>2, <1>3
      <4>2. \A a, b \in Nat : \A i \in 1 .. (a - 1) :
              i \in Int /\ i + 1 \in 1 .. a /\ b - a + (i + 1) = b - (a - 1) + i
        OBVIOUS
      <4> QED
        BY ONLY <4>1, <4>2, ZenonT(60)
    <3>2. cmds[j + 1] = log[s][Len(log[s]) - Len(cmds) + (j + 1)]
      BY <3>1, <1>3
    <3> QED
      BY <3>1, <3>2, <1>2
  <2>2. Len(cmds') <= Len(log[s])
    BY <1>2, <1>3
  <2> QED
    BY <2>1, <2>2, <1>1 DEF Unheard
<1>8. Seen(s)' = Heard(Seen(s), e)
  <2> DEFINE n == Evaluated(s)
  <2>1. n + 1 \in 1 .. Len(log[s]) /\ (n + 1) - 1 = n /\ log[s][n + 1] = e
    BY <1>0, <1>5, <1>6 DEF SeenOK
  <2>2. Seen(s)' = View(log[s])[n + 1] /\ Seen(s) = View(log[s])[n]
    BY <1>1, <1>5 DEF Seen
  <2>3. View(log[s])[n + 1] = Heard(View(log[s])[(n + 1) - 1], log[s][n + 1])
    BY <1>0, <2>1 DEF SeenOK
  <2> QED
    BY <2>1, <2>2, <2>3
<1>9. Answers(s)' = Append(Answers(s), r)
  <2>1. Answers(s) = out[s] \o buf /\ Answers(s)' = out[s] \o Append(buf, r)
    BY <1>1 DEF Answers, Replied
  <2>2. out[s] \o Append(buf, r) = Append(out[s] \o buf, r)
    <3>1. AtEnd(out[s], buf, r)
      BY <1>1, AppendConcat
    <3> QED
      BY <3>1 DEF AtEnd
  <2> QED
    BY <2>1, <2>2
<1>10. ASSUME NEW fd \in Fds \ {s}
       PROVE  /\ Evaluated(fd)' = Evaluated(fd) /\ Seen(fd)' = Seen(fd)
              /\ Answers(fd)' = Answers(fd)
  <2>1. Evaluated(fd)' = Evaluated(fd) /\ Answers(fd)' = Answers(fd)
    BY <1>1 DEF Evaluated, Answers
  <2> QED
    BY <2>1, <1>1 DEF Seen
<1> QED
  BY <1>5, <1>6, <1>7, <1>8, <1>9, <1>10

\* Every command gets one reply.
LEMMA OneReply ==
  ASSUME NEW p \in Learned, NEW e \in Commands
  PROVE  Heard(p, e).replies = p.replies + 1
BY DEF Heard, Learned, Commands, txnCommands, Close

\* When the reply to a command is one that fits, and the counter grows by what
\* the client concludes the command causes, the replies stay the right ones.
LEMMA ReplyStep ==
  ASSUME Typing, Unheard, Typing', Numbered, Answered, Accounted,
         NEW s \in Fds, NEW e \in Commands, NEW r \in Reply, Replied(s, e, r),
         Fits(Seen(s), e, r, db'), db <= db',
         db' = db + (Heard(Seen(s), e).incrs - Seen(s).incrs)
  PROVE  Unheard' /\ Numbered' /\ Answered' /\ Accounted'
<1>0. SeenOK
  BY SeenTypes
<1>1. /\ Unheard' /\ log' = log
      /\ Evaluated(s)' = Evaluated(s) + 1 /\ Evaluated(s) + 1 \in 1 .. Len(log[s])
      /\ log[s][Evaluated(s) + 1] = e
      /\ Seen(s)' = Heard(Seen(s), e)
      /\ Answers(s)' = Append(Answers(s), r)
  BY RepliedHears DEF Replied
<1>2. \A fd \in Fds \ {s} : /\ Evaluated(fd)' = Evaluated(fd) /\ Seen(fd)' = Seen(fd)
                            /\ Answers(fd)' = Answers(fd)
  BY RepliedHears
<1> DEFINE n == Evaluated(s)
           a == Answers(s)
           h == log[s]
           seen == View(h)
<1>3. /\ n \in Nat /\ a \in Seq(Reply) /\ Len(a) \in Nat
      /\ Seen(s) \in Learned /\ seen[n] = Seen(s)
  BY <1>0 DEF SeenOK, Seen
<1>4. /\ Len(Append(a, r)) = Len(a) + 1 /\ Append(a, r)[Len(a) + 1] = r
      /\ \A i \in 1 .. Len(a) : Append(a, r)[i] = a[i]
  BY <1>3, AppendTypes
<1>5. Len(a) = Seen(s).replies /\ Heard(Seen(s), e).replies = Len(a) + 1
  BY <1>3, OneReply DEF Answered
<1>6. seen[n + 1] = Heard(Seen(s), e)
  BY <1>1 DEF Seen
<1>7. ASSUME NEW i \in 1 .. n, h[i] \in Commands
      PROVE  seen[i].replies \in 1 .. Len(a) /\ Fits(seen[i - 1], h[i], a[seen[i].replies], db)
  BY <1>7 DEF Numbered, Answered
<1>8. db \in Nat /\ db' \in Nat
  BY DEF Typing, TypeOK
<1>9. ASSUME NEW fd \in Fds \ {s}, NEW i \in 1 .. Evaluated(fd), log[fd][i] \in Commands
      PROVE  /\ View(log[fd])[i].replies \in 1 .. Len(Answers(fd))
             /\ Fits(View(log[fd])[i - 1], log[fd][i], Answers(fd)[View(log[fd])[i].replies], db')
  <2>1. /\ View(log[fd])[i].replies \in 1 .. Len(Answers(fd))
        /\ Fits(View(log[fd])[i - 1], log[fd][i], Answers(fd)[View(log[fd])[i].replies], db)
    BY <1>9 DEF Numbered, Answered
  <2> QED
    BY <2>1, <1>8, FitsMonotone
<1>10. ASSUME NEW i \in 1 .. n + 1, h[i] \in Commands
       PROVE  /\ seen[i].replies \in 1 .. Len(Append(a, r))
              /\ Fits(seen[i - 1], h[i], Append(a, r)[seen[i].replies], db')
  <2>1. CASE i \in 1 .. n
    <3>1. seen[i].replies \in 1 .. Len(a) /\ Fits(seen[i - 1], h[i], a[seen[i].replies], db)
      BY <1>10, <2>1, <1>7
    <3>2. Append(a, r)[seen[i].replies] = a[seen[i].replies]
      BY <3>1, <1>4
    <3>3. seen[i].replies \in 1 .. Len(Append(a, r))
      BY <3>1, <1>3, <1>4
    <3> QED
      BY <3>1, <3>2, <3>3, <1>8, FitsMonotone
  <2>2. CASE i = n + 1
    <3>1. i - 1 = n /\ h[i] = e /\ seen[i] = Heard(Seen(s), e)
      BY <2>2, <1>1, <1>3, <1>6
    <3>2. seen[i].replies = Len(a) + 1
      BY <3>1, <1>5
    <3>3. seen[i].replies \in 1 .. Len(Append(a, r)) /\ Append(a, r)[seen[i].replies] = r
      BY <3>2, <1>3, <1>4
    <3> QED
      BY <3>1, <3>3, <1>3
  <2> QED
    BY <2>1, <2>2, <1>3
<1>11. Numbered'
  <2> SUFFICES ASSUME NEW fd \in Fds, NEW i \in 1 .. Evaluated(fd)', log'[fd][i] \in Commands
               PROVE  View(log'[fd])[i].replies \in 1 .. Len(Answers(fd)')
    BY DEF Numbered
  <2>1. CASE fd = s
    BY <2>1, <1>1, <1>10
  <2>2. CASE fd # s
    BY <2>2, <1>1, <1>2, <1>9
  <2> QED
    BY <2>1, <2>2
<1>12. Answered'
  <2> SUFFICES ASSUME NEW fd \in Fds
               PROVE  /\ Len(Answers(fd)') = Seen(fd)'.replies
                      /\ \A i \in 1 .. Evaluated(fd)' : log'[fd][i] \in Commands =>
                           Fits(View(log'[fd])[i - 1], log'[fd][i],
                                Answers(fd)'[View(log'[fd])[i].replies], db')
    BY DEF Answered
  <2>1. CASE fd = s
    <3>1. Len(Answers(fd)') = Seen(fd)'.replies
      BY <2>1, <1>1, <1>4, <1>5
    <3> QED
      BY <3>1, <2>1, <1>1, <1>10
  <2>2. CASE fd # s
    <3>1. Len(Answers(fd)') = Seen(fd)'.replies
      BY <2>2, <1>2 DEF Answered
    <3> QED
      BY <3>1, <2>2, <1>1, <1>2, <1>9
  <2> QED
    BY <2>1, <2>2
<1>13. Accounted'
  <2> DEFINE f == [fd \in Fds |-> Seen(fd).incrs]
             g == [fd \in Fds |-> Seen(fd)'.incrs]
             c == Heard(Seen(s), e).incrs - Seen(s).incrs
  <2>1. Heard(Seen(s), e) \in Learned
    BY <1>3, HeardType DEF Entry
  <2>2. c \in Int /\ Seen(s).incrs \in Int /\ Heard(Seen(s), e).incrs \in Int
    BY <2>1, <1>3 DEF Learned
  <2>3. \A fd \in Fds : Seen(fd).incrs \in Int
    BY <1>0 DEF SeenOK, Learned
  <2>4. \A fd \in Fds : Seen(fd)'.incrs \in Int
    BY <2>2, <2>3, <1>1, <1>2
  <2>5. f \in [Fds -> Int] /\ g \in [Fds -> Int]
    BY <2>3, <2>4
  <2>6. g[s] = f[s] + c
    BY <2>2, <1>1
  <2>7. \A fd \in Fds \ {s} : g[fd] = f[fd]
    BY <1>2
  <2>8. db = SumFunction(f) /\ db' = db + c
    BY DEF Accounted
  <2> HIDE DEF f, g, c
  <2>9. SumFunction(g) = SumFunction(f) + c
    BY <2>2, <2>5, <2>6, <2>7, SumUpdate
  <2>10. db' = SumFunction(g)
    BY <2>8, <2>9
  <2> QED
    BY <2>10 DEF Accounted, g
<1> QED
  BY <1>1, <1>11, <1>12, <1>13

\* The client behind s stays in agreement with what it knows when it is left as
\* it has to be after the command.
LEMMA AgreeStep ==
  ASSUME Typing, Unheard, Typing', Gone, QueueAgrees,
         NEW s \in Fds, NEW e \in Commands, NEW r \in Reply, Replied(s, e, r),
         NEW client \in Client, clients' = [clients EXCEPT ![s] = client],
         client.isTxn = Heard(Seen(s), e).txn, client.cqueue = Heard(Seen(s), e).queue
  PROVE  Gone' /\ QueueAgrees'
<1>1. Seen(s)' = Heard(Seen(s), e) /\ \A fd \in Fds \ {s} : Seen(fd)' = Seen(fd)
  BY RepliedHears
<1>2. clients'[s] = client /\ client # Nil /\ \A fd \in Fds \ {s} : clients'[fd] = clients[fd]
  BY DEF Typing, TypeOK
<1>3. Gone'
  <2> SUFFICES ASSUME NEW fd \in Fds, clients'[fd] = Nil
               PROVE  ~Seen(fd)'.txn /\ Seen(fd)'.queue = <<>>
    BY DEF Gone
  <2> QED
    BY <1>1, <1>2 DEF Gone
<1>4. QueueAgrees'
  <2> SUFFICES ASSUME NEW fd \in Fds, clients'[fd] # Nil
               PROVE  clients'[fd].isTxn = Seen(fd)'.txn /\ clients'[fd].cqueue = Seen(fd)'.queue
    BY DEF QueueAgrees
  <2> QED
    BY <1>1, <1>2 DEF QueueAgrees
<1> QED
  BY <1>3, <1>4

\* The same when no client changes and every one knows what it knew.
LEMMA SameStep ==
  ASSUME Gone, QueueAgrees, clients' = clients, \A fd \in Fds : Seen(fd)' = Seen(fd)
  PROVE  Gone' /\ QueueAgrees'
BY DEF Gone, QueueAgrees
-----------------------------------------------------------------------------
(* The steps of the server, one by one.                                    *)

\* A connection is accepted.
LEMMA AcceptStep ==
  ASSUME TxnInv, Typing', NEW fd \in Fds, Accept(fd)
  PROVE  TxnInv'
<1>1. /\ UNCHANGED <<db, serving, cmds, buf, out, log>>
      /\ clients' = [clients EXCEPT ![fd] = NewClient] /\ clients[fd] = Nil
      /\ clients \in [Fds -> Client \cup {Nil}]
  BY DEF Accept, TxnInv, Typing, TypeOK
<1>2. Unheard'
  BY <1>1 DEF Unheard, TxnInv
<1>3. \A c \in Fds : Evaluated(c)' = Evaluated(c) /\ Answers(c)' = Answers(c)
  BY <1>1 DEF Evaluated, Answers
<1>4. \A c \in Fds : Quiet(c) /\ Seen(c)' = Seen(c)
  BY <1>1, <1>2, <1>3, Kept DEF TxnInv
<1>5. Numbered' /\ Answered' /\ Accounted'
  BY <1>1, <1>2, <1>4, QuietStep DEF TxnInv
<1>6. /\ clients'[fd] = NewClient /\ NewClient.isTxn = FALSE /\ NewClient.cqueue = <<>>
      /\ \A c \in Fds \ {fd} : clients'[c] = clients[c]
  BY <1>1 DEF NewClient
<1>7. ~Seen(fd).txn /\ Seen(fd).queue = <<>> /\ Seen(fd).txn \in BOOLEAN
  <2>1. Seen(fd) \in Learned
    BY SeenTypes DEF SeenOK, TxnInv
  <2> QED
    BY <2>1, <1>1 DEF Gone, TxnInv, Learned
<1>8. Gone'
  <2> SUFFICES ASSUME NEW c \in Fds, clients'[c] = Nil
               PROVE  ~Seen(c)'.txn /\ Seen(c)'.queue = <<>>
    BY DEF Gone
  <2> QED
    BY <1>4, <1>6, <1>7 DEF Gone, TxnInv
<1>9. QueueAgrees'
  <2> SUFFICES ASSUME NEW c \in Fds, clients'[c] # Nil
               PROVE  clients'[c].isTxn = Seen(c)'.txn /\ clients'[c].cqueue = Seen(c)'.queue
    BY DEF QueueAgrees
  <2> QED
    BY <1>4, <1>6, <1>7 DEF QueueAgrees, TxnInv
<1> QED
  BY <1>2, <1>5, <1>8, <1>9 DEF TxnInv

\* A client hangs up.
LEMMA DropStep ==
  ASSUME TxnInv, Typing', NEW fd \in Fds, Drop(fd)
  PROVE  TxnInv'
<1>1. /\ UNCHANGED <<db, serving, cmds, buf, out>> /\ serving = Nil
      /\ clients' = [clients EXCEPT ![fd] = Nil] /\ log' = [log EXCEPT ![fd] = Ended(log[fd])]
      /\ clients \in [Fds -> Client \cup {Nil}] /\ log \in [Fds -> Seq(Commands \cup {Close})]
  BY DEF Drop, TxnInv, Typing, TypeOK
<1>2. /\ log'[fd] = Ended(log[fd]) /\ clients'[fd] = Nil
      /\ \A c \in Fds \ {fd} : log'[c] = log[c] /\ clients'[c] = clients[c]
  BY <1>1
<1>3. Unheard'
  BY <1>1 DEF Unheard
<1>4. SeenOK /\ SeenOK'
  <2>1. Typing /\ Unheard /\ Typing' /\ Unheard'
    BY <1>3 DEF TxnInv
  <2> QED
    BY <2>1, SeenTypes, PTL
<1>5. \A c \in Fds : /\ Evaluated(c) = Len(log[c]) /\ Evaluated(c)' = Len(log'[c])
                     /\ Answers(c)' = Answers(c)
  <2>1. \A c \in Fds : c # serving /\ c # serving' /\ Len(log[c]) \in Nat /\ Len(log'[c]) \in Nat
    BY <1>1, <1>4 DEF SeenOK
  <2>2. out' = out
    BY <1>1
  <2>3. ASSUME NEW c \in Fds
        PROVE  Evaluated(c) = Len(log[c]) - 0 /\ Evaluated(c)' = Len(log'[c]) - 0
    BY <2>1 DEF Evaluated
  <2>4. ASSUME NEW c \in Fds PROVE Answers(c)' = Answers(c)
    BY <2>1, <2>2 DEF Answers
  <2> QED
    BY <2>1, <2>3, <2>4
<1>6. \A c \in Fds \ {fd} : Quiet(c) /\ Seen(c)' = Seen(c)
  BY <1>2, <1>3, <1>5, Kept DEF TxnInv
<1>7. Quiet(fd) /\ ~Seen(fd)'.txn /\ Seen(fd)'.queue = <<>>
  <2> DEFINE h == log[fd]
             k == log'[fd]
             n == Len(h)
  <2>1. /\ h \in Seq(Entry) /\ k \in Seq(Entry) /\ n \in Nat /\ Evaluated(fd) = n
        /\ Evaluated(fd)' = Len(k) /\ Answers(fd)' = Answers(fd)
        /\ View(h) \in [0 .. n -> Learned] /\ View(h)[0] = Start
        /\ \A i \in 1 .. n : View(h)[i] = Heard(View(h)[i - 1], h[i])
        /\ View(k) \in [0 .. Len(k) -> Learned]
        /\ \A i \in 1 .. Len(k) : View(k)[i] = Heard(View(k)[i - 1], k[i])
    BY <1>4, <1>5 DEF SeenOK
  <2>2. \A p \in Learned : ~Heard(p, Close).txn /\ Heard(p, Close).queue = <<>>
                           /\ Heard(p, Close).incrs = p.incrs /\ Heard(p, Close).replies = p.replies
    BY DEF Heard, Learned, Close
  <2>3. CASE h = <<>> \/ h[n] = Close
    <3>1. k = h
      BY <2>3, <1>2 DEF Ended
    <3>2. Quiet(fd) /\ Seen(fd)' = Seen(fd)
      BY <3>1, <2>1, <1>3, Kept DEF TxnInv
    <3>3. Seen(fd) = View(h)[n]
      BY <2>1 DEF Seen
    <3>4. CASE h = <<>>
      <4>1. n = 0
        BY <3>4
      <4>2. Seen(fd) = Start
        BY <4>1, <3>3, <2>1
      <4> QED
        BY <4>2, <3>2 DEF Start
    <3>5. CASE h # <<>>
      <4>1. n \in 1 .. n /\ n - 1 \in 0 .. n
        BY <3>5, <2>1, EmptySeq
      <4>2. View(h)[n] = Heard(View(h)[n - 1], Close) /\ View(h)[n - 1] \in Learned
        BY <4>1, <2>1, <2>3, <3>5
      <4> QED
        BY <4>2, <2>2, <3>2, <3>3
    <3> QED
      BY <3>4, <3>5
  <2>4. CASE ~ (h = <<>> \/ h[n] = Close)
    <3>1. k = Append(h, Close)
      BY <2>4, <1>2 DEF Ended
    <3>2. /\ Len(k) = n + 1 /\ k[n + 1] = Close /\ \A i \in 1 .. n : k[i] = h[i]
      BY <3>1, <2>1, AppendTypes DEF Entry
    <3>3. \A i \in 0 .. n : View(k)[i] = View(h)[i]
      <4>1. n <= Len(h) /\ n <= Len(k)
        BY <2>1, <3>2
      <4> HIDE DEF h, k
      <4> QED
        BY <4>1, <2>1, <3>2, ViewOfPrefix
    <3>4. Seen(fd) = View(h)[n] /\ Seen(fd)' = View(k)[n + 1] /\ Seen(fd) \in Learned
      BY <2>1, <3>2 DEF Seen
    <3>5. View(k)[n + 1] = Heard(View(k)[(n + 1) - 1], k[n + 1]) /\ (n + 1) - 1 = n /\ n \in 0 .. n
      BY <2>1, <3>2, SMTT(60)
    <3>6. Seen(fd)' = Heard(Seen(fd), Close)
      BY <3>2, <3>3, <3>4, <3>5
    <3>7. \A i \in n + 1 .. n + 1 : k[i] \notin Commands
      BY <2>1, <3>2 DEF Close, Commands, txnCommands
    <3>8. n <= n + 1
      BY <2>1
    <3> QED
      BY <2>1, <2>2, <3>2, <3>3, <3>4, <3>6, <3>7, <3>8 DEF Quiet
  <2> QED
    BY <2>3, <2>4
<1>8. Numbered' /\ Answered' /\ Accounted'
  <2>1. \A c \in Fds : Quiet(c)
    BY <1>6, <1>7
  <2> QED
    BY <2>1, <1>1, <1>3, QuietStep DEF TxnInv
<1>9. Gone' /\ QueueAgrees'
  BY <1>2, <1>6, <1>7 DEF Gone, QueueAgrees, TxnInv
<1> QED
  BY <1>3, <1>8, <1>9 DEF TxnInv

\* The commands of one read enter the client's log before any is evaluated.
LEMMA ReadStep ==
  ASSUME TxnInv, Typing', NEW fd \in Fds, NEW n \in 1 .. MaxBatch,
         NEW batch \in [1 .. n -> Commands], readCommands(fd, batch)
  PROVE  TxnInv'
<1> DEFINE h == log[fd]
<1>0. SeenOK
  BY SeenTypes DEF TxnInv
<1>1. /\ UNCHANGED <<db, clients, out>> /\ serving = Nil /\ serving' = fd /\ fd # Nil
      /\ cmds' = batch /\ buf' = <<>> /\ log' = [log EXCEPT ![fd] = h \o batch]
      /\ log \in [Fds -> Seq(Commands \cup {Close})] /\ out \in [Fds -> Seq(Reply)]
  BY DEF readCommands, TxnInv, Typing, TypeOK
<1>2. /\ log'[fd] = h \o batch /\ \A c \in Fds \ {fd} : log'[c] = log[c]
  BY <1>1
<1>3. /\ batch \in Seq(Entry) /\ h \in Seq(Entry) /\ Len(batch) = n
      /\ n \in Nat /\ Len(h) \in Nat
  <2>1. n \in Nat /\ batch \in Seq(Commands) /\ batch \in Seq(Entry) /\ Len(batch) = n
    BY SeqDef DEF Entry
  <2> QED
    BY <2>1, <1>0 DEF SeenOK
<1>4. /\ Len(log'[fd]) = Len(h) + n
      /\ \A i \in 1 .. Len(h) : log'[fd][i] = h[i]
      /\ \A j \in 1 .. n : log'[fd][Len(h) + j] = batch[j]
  <2> HIDE DEF h
  <2>1. /\ Len(h \o batch) = Len(h) + n
        /\ \A i \in 1 .. Len(h) + n : (h \o batch)[i] = IF i <= Len(h) THEN h[i] ELSE batch[i - Len(h)]
    BY <1>3, ConcatProperties
  <2>2. \A i \in 1 .. Len(h) : (h \o batch)[i] = h[i]
    BY <2>1, <1>3
  <2>3. \A j \in 1 .. n : (h \o batch)[Len(h) + j] = batch[j]
    <3> SUFFICES ASSUME NEW j \in 1 .. n PROVE (h \o batch)[Len(h) + j] = batch[j]
      OBVIOUS
    <3>1. Len(h) + j \in 1 .. Len(h) + n /\ ~ (Len(h) + j <= Len(h)) /\ (Len(h) + j) - Len(h) = j
      BY <1>3
    <3> QED
      BY <3>1, <2>1
  <2> QED
    BY <2>1, <2>2, <2>3, <1>2
<1>5. Unheard'
  <2>1. Len(cmds') = n /\ Len(log'[fd]) - n = Len(h) /\ n <= Len(log'[fd])
    BY <1>1, <1>3, <1>4
  <2> QED
    BY <2>1, <1>1, <1>4 DEF Unheard
<1>6. \A c \in Fds : Evaluated(c) = Len(log[c]) /\ Evaluated(c)' = Evaluated(c)
  <2>1. ASSUME NEW c \in Fds PROVE Evaluated(c) = Len(log[c]) - 0 /\ Len(log[c]) \in Nat
    BY <1>0, <1>1 DEF Evaluated, SeenOK
  <2>2. Evaluated(fd)' = Len(log'[fd]) - n
    BY <1>1, <1>3 DEF Evaluated
  <2>3. ASSUME NEW c \in Fds \ {fd} PROVE Evaluated(c)' = Len(log[c]) - 0
    BY <1>1, <1>2 DEF Evaluated
  <2>4. Len(log'[fd]) - n = Len(log[fd])
    BY <1>3, <1>4
  <2> SUFFICES ASSUME NEW c \in Fds
               PROVE  Evaluated(c) = Len(log[c]) /\ Evaluated(c)' = Evaluated(c)
    OBVIOUS
  <2>5. Evaluated(c) = Len(log[c])
    BY <2>1
  <2>6. CASE c = fd
    BY <2>2, <2>4, <2>5, <2>6
  <2>7. CASE c # fd
    BY <2>1, <2>3, <2>5, <2>7
  <2> QED
    BY <2>5, <2>6, <2>7
<1>7. \A c \in Fds : Answers(c)' = Answers(c)
  <2>1. ASSUME NEW c \in Fds PROVE Answers(c) = out[c] \o <<>> /\ Answers(c)' = out[c] \o <<>>
    BY <1>1 DEF Answers
  <2> QED
    BY <2>1
<1>8. \A c \in Fds : Quiet(c) /\ Seen(c)' = Seen(c)
  <2> SUFFICES ASSUME NEW c \in Fds PROVE Quiet(c) /\ Seen(c)' = Seen(c)
    OBVIOUS
  <2>1. \A i \in 1 .. Evaluated(c) : log'[c][i] = log[c][i]
    BY <1>2, <1>4, <1>6
  <2> QED
    BY <2>1, <1>5, <1>6, <1>7, Kept DEF TxnInv
<1>9. Numbered' /\ Answered' /\ Accounted'
  BY <1>1, <1>5, <1>8, QuietStep DEF TxnInv
<1>10. Gone' /\ QueueAgrees'
  BY <1>1, <1>8, SameStep DEF TxnInv
<1> QED
  BY <1>5, <1>9, <1>10 DEF TxnInv

\* The replies of a batch are written.
LEMMA RespondStep ==
  ASSUME TxnInv, Typing', Respond
  PROVE  TxnInv'
<1>0. SeenOK
  BY SeenTypes DEF TxnInv
<1>1. PICK s \in Fds : s = serving
  BY DEF Respond, TxnInv, Typing, TypeOK
<1>2. /\ UNCHANGED <<db, clients, cmds, log>> /\ serving = s /\ serving' = Nil /\ s # Nil
      /\ cmds = <<>> /\ out' = [out EXCEPT ![s] = out[s] \o buf]
      /\ out \in [Fds -> Seq(Reply)] /\ buf \in Seq(Reply)
  BY <1>1 DEF Respond, TxnInv, Typing
<1>3. Unheard'
  BY <1>2 DEF Unheard
<1>4. \A c \in Fds : Evaluated(c)' = Evaluated(c)
  <2>1. ASSUME NEW c \in Fds PROVE Evaluated(c) = Len(log[c]) - 0 /\ Evaluated(c)' = Len(log[c]) - 0
    BY <1>2 DEF Evaluated
  <2> QED
    BY <2>1
<1>5. \A c \in Fds : Answers(c)' = Answers(c)
  <2> SUFFICES ASSUME NEW c \in Fds PROVE Answers(c)' = Answers(c)
    OBVIOUS
  <2>1. Answers(c)' = out'[c] \o <<>> /\ out'[c] = Answers(c)
    <3>1. CASE c = s
      BY <3>1, <1>2 DEF Answers
    <3>2. CASE c # s
      <4>1. out'[c] = out[c] /\ Answers(c) = out[c] \o <<>> /\ out[c] \in Seq(Reply)
        BY <3>2, <1>2 DEF Answers
      <4>2. out[c] \o <<>> = out[c]
        BY <4>1, ConcatEmptySeq
      <4> QED
        BY <4>1, <4>2, <1>2 DEF Answers
    <3> QED
      BY <3>1, <3>2
  <2>2. Answers(c) \in Seq(Reply)
    BY <1>0 DEF SeenOK
  <2>3. Answers(c) \o <<>> = Answers(c)
    BY <2>2, ConcatEmptySeq
  <2> QED
    BY <2>1, <2>3
<1>6. \A c \in Fds : Quiet(c) /\ Seen(c)' = Seen(c)
  BY <1>2, <1>3, <1>4, <1>5, Kept DEF TxnInv
<1>7. Numbered' /\ Answered' /\ Accounted'
  BY <1>2, <1>3, <1>6, QuietStep DEF TxnInv
<1>8. Gone' /\ QueueAgrees'
  BY <1>2, <1>6, SameStep DEF TxnInv
<1> QED
  BY <1>3, <1>7, <1>8 DEF TxnInv

\* Whatever EvalAndRespond does with a command keeps the invariant, if the reply
\* fits and the client and the counter are left as the client expects them.
LEMMA EvaluateStep ==
  ASSUME TxnInv, Typing', NEW s \in Fds, NEW e \in Commands, NEW r \in Reply, Replied(s, e, r),
         Fits(Seen(s), e, r, db'), db <= db',
         db' = db + (Heard(Seen(s), e).incrs - Seen(s).incrs),
         NEW client \in Client, clients' = [clients EXCEPT ![s] = client],
         client.isTxn = Heard(Seen(s), e).txn, client.cqueue = Heard(Seen(s), e).queue
  PROVE  TxnInv'
<1>1. Unheard' /\ Numbered' /\ Answered' /\ Accounted'
  BY ReplyStep DEF TxnInv
<1>2. Gone' /\ QueueAgrees'
  BY AgreeStep DEF TxnInv
<1> QED
  BY <1>1, <1>2 DEF TxnInv

\* A command is executed, queued or refused.
LEMMA CommandStep ==
  ASSUME TxnInv, Typing', serving # Nil,
         evalINCR \/ evalGET \/ TxnBegin \/ WithoutMulti \/ TxnQueue \/ TxnExec \/ TxnDiscard
  PROVE  TxnInv'
<1>0. SeenOK /\ Typing
  BY SeenTypes DEF TxnInv
<1>1. PICK s \in Fds : s = serving
  BY DEF TxnInv, Typing, TypeOK
<1>2. cmds # <<>>
  BY DEF evalINCR, evalGET, TxnBegin, WithoutMulti, TxnQueue, TxnExec, TxnDiscard, Evaluate
<1>3. PICK e \in Commands : e = Head(cmds)
  BY <1>0, <1>2, ServedTypes
<1>4. PICK p \in Learned : p = Seen(s)
  BY <1>0 DEF SeenOK
<1>5. PICK c \in Client : c = cl
  BY <1>0, ServedTypes
<1>6. PICK d \in Nat : d = db
  BY <1>0 DEF Typing, TypeOK
<1>7. /\ c.isTxn = p.txn /\ c.cqueue = p.queue /\ c.isTxn \in BOOLEAN /\ c.cqueue \in Seq(Commands)
      /\ p.txn \in BOOLEAN /\ p.queue \in Seq(Commands) /\ p.incrs \in Nat
  <2>1. clients[s] # Nil /\ clients[s] = c
    BY <1>1, <1>5, <1>0 DEF cl, Typing, TypeOK
  <2> QED
    BY <2>1, <1>4 DEF TxnInv, QueueAgrees, Client, Learned
<1>8. ASSUME NEW S, NEW client \in Client, NEW r \in Reply, Evaluate(S, client, r),
             Fits(p, e, r, db'), d <= db', db' = d + (Heard(p, e).incrs - p.incrs),
             client.isTxn = Heard(p, e).txn, client.cqueue = Heard(p, e).queue
      PROVE  TxnInv'
  <2>1. Replied(s, e, r) /\ clients' = [clients EXCEPT ![s] = client]
    BY <1>8, <1>1, <1>2, <1>3 DEF Replied, Evaluate
  <2> QED
    BY <2>1, <1>4, <1>6, <1>8, EvaluateStep
<1>9. NewClient \in Client /\ NewClient.isTxn = FALSE /\ NewClient.cqueue = <<>>
  <2>1. <<>> \in Seq(Commands)
    BY EmptySeq
  <2> QED
    BY <2>1 DEF NewClient, Client
<1>10. {Ok, Queued, Err} \subseteq Reply /\ Nat \subseteq Reply /\ Replies(p.queue, d) \in Reply
  BY <1>7, RepliesType DEF Reply
<1>11. CASE evalINCR
  <2>1. ~p.txn /\ e = "INCR" /\ Evaluate({"INCR"}, c, d + 1) /\ db' = d + 1
    BY <1>11, <1>3, <1>5, <1>6, <1>7 DEF evalINCR, Evaluate
  <2>2. Heard(p, e) = [p EXCEPT !.incrs = @ + 1, !.replies = @ + 1]
    BY <2>1 DEF Heard, Close
  <2>3. Heard(p, e).incrs = p.incrs + 1 /\ Heard(p, e).txn = p.txn /\ Heard(p, e).queue = p.queue
    BY <2>2 DEF Learned
  <2>4. Fits(p, e, d + 1, db')
    BY <2>1 DEF Fits, txnCommands
  <2>5. d + 1 \in Reply /\ d <= db' /\ db' = d + (Heard(p, e).incrs - p.incrs)
    BY <1>7, <1>10, <2>1, <2>3
  <2> QED
    BY <1>7, <1>8, <2>1, <2>3, <2>4, <2>5
<1>12. CASE evalGET
  <2>1. ~p.txn /\ e = "GET" /\ Evaluate({"GET"}, c, d) /\ db' = d
    BY <1>12, <1>3, <1>5, <1>6, <1>7 DEF evalGET, Evaluate
  <2>2. Heard(p, e) = [p EXCEPT !.txn = @ \/ e = "MULTI", !.replies = @ + 1]
    BY <2>1 DEF Heard, Close
  <2>3. Heard(p, e).incrs = p.incrs /\ Heard(p, e).txn = p.txn /\ Heard(p, e).queue = p.queue
    BY <2>1, <2>2, <1>7 DEF Learned
  <2>4. Fits(p, e, d, db')
    BY <2>1 DEF Fits, txnCommands
  <2>5. d \in Reply /\ d <= db' /\ db' = d + (Heard(p, e).incrs - p.incrs)
    BY <1>7, <1>10, <2>1, <2>3
  <2> QED
    BY <1>7, <1>8, <2>1, <2>3, <2>4, <2>5
<1>13. CASE TxnBegin
  <2> DEFINE client == [c EXCEPT !.isTxn = TRUE]
  <2>1. ~p.txn /\ e = "MULTI" /\ Evaluate({"MULTI"}, client, Ok) /\ db' = d
    BY <1>13, <1>3, <1>5, <1>6, <1>7 DEF TxnBegin, Evaluate
  <2>2. Heard(p, e) = [p EXCEPT !.txn = @ \/ e = "MULTI", !.replies = @ + 1]
    BY <2>1 DEF Heard, Close
  <2>3. Heard(p, e).incrs = p.incrs /\ Heard(p, e).txn = TRUE /\ Heard(p, e).queue = p.queue
    BY <2>1, <2>2, <1>7 DEF Learned
  <2>4. Fits(p, e, Ok, db')
    BY <2>1 DEF Fits, txnCommands
  <2>5. Ok \in Reply /\ d <= db' /\ db' = d + (Heard(p, e).incrs - p.incrs)
    BY <1>7, <1>10, <2>1, <2>3
  <2>6. client \in Client /\ client.isTxn = TRUE /\ client.cqueue = c.cqueue
    BY <1>7 DEF Client
  <2> HIDE DEF client
  <2> QED
    BY <1>7, <1>8, <2>1, <2>3, <2>4, <2>5, <2>6
<1>14. CASE WithoutMulti
  <2>1. ~p.txn /\ e \in txnCommands /\ Evaluate(txnCommands, c, Err) /\ db' = d
    BY <1>14, <1>3, <1>5, <1>6, <1>7 DEF WithoutMulti, Evaluate
  <2>2. p.queue = <<>>
    BY <2>1 DEF Learned
  <2>3. Heard(p, e).incrs = p.incrs /\ Heard(p, e).txn = p.txn /\ Heard(p, e).queue = p.queue
    <3>1. CASE e = "EXEC"
      <4>1. Incrs(p.queue, Len(p.queue)) = 0
        BY <2>2, NoIncrs
      <4>2. Heard(p, e).incrs = p.incrs + 0 /\ Heard(p, e).txn = FALSE /\ Heard(p, e).queue = <<>>
        BY <3>1, <4>1 DEF Heard, Close
      <4>3. p.incrs + 0 = p.incrs
        BY <1>7
      <4>4. p.txn = FALSE
        BY <2>1, <1>7
      <4> QED
        BY <4>2, <4>3, <4>4, <2>2
    <3>2. CASE e = "DISCARD"
      <4>1. Heard(p, e) = [p EXCEPT !.txn = FALSE, !.queue = <<>>, !.replies = @ + 1]
        BY <3>2 DEF Heard, Close
      <4> QED
        BY <4>1, <2>1, <2>2, <1>7 DEF Learned
    <3> QED
      BY <2>1, <3>1, <3>2 DEF txnCommands
  <2>4. Fits(p, e, Err, db')
    <3>1. p.txn = FALSE /\ (e = "EXEC" \/ e = "DISCARD")
      BY <2>1, <1>7 DEF txnCommands
    <3> QED
      BY <2>1, <3>1 DEF Fits
  <2>5. Err \in Reply /\ d <= db' /\ db' = d + (Heard(p, e).incrs - p.incrs)
    BY <1>7, <1>10, <2>1, <2>3
  <2> QED
    BY <1>7, <1>8, <2>1, <2>3, <2>4, <2>5
<1>15. CASE TxnQueue
  <2> DEFINE client == [c EXCEPT !.cqueue = Append(c.cqueue, e)]
  <2>1. /\ p.txn /\ e \in Commands \ txnCommands /\ db' = d
        /\ Evaluate(Commands \ txnCommands, client, Queued)
    BY <1>15, <1>3, <1>5, <1>6, <1>7 DEF TxnQueue, Evaluate
  <2>2. Heard(p, e) = [p EXCEPT !.queue = Append(p.queue, e), !.replies = @ + 1]
    BY <2>1 DEF Heard, Close, Commands, txnCommands
  <2>3. /\ Heard(p, e).incrs = p.incrs /\ Heard(p, e).txn = p.txn
        /\ Heard(p, e).queue = Append(p.queue, e)
    BY <2>2 DEF Learned
  <2>4. Fits(p, e, Queued, db')
    <3>1. p.txn = TRUE /\ e \notin txnCommands /\ e # "EXEC" /\ e # "DISCARD"
      BY <2>1, <1>7 DEF txnCommands
    <3> QED
      BY <3>1 DEF Fits
  <2>5. Queued \in Reply /\ d <= db' /\ db' = d + (Heard(p, e).incrs - p.incrs)
    BY <1>7, <1>10, <2>1, <2>3
  <2>6. client \in Client /\ client.isTxn = c.isTxn /\ client.cqueue = Append(c.cqueue, e)
    <3>1. PICK q \in Seq(Commands) : q = Append(c.cqueue, e)
      BY <1>7, AppendTypes
    <3>2. client = [c EXCEPT !.cqueue = q]
      BY <3>1
    <3> HIDE DEF client
    <3>3. client \in Client /\ client.isTxn = c.isTxn /\ client.cqueue = q
      BY <1>7, <3>2 DEF Client
    <3> QED
      BY <3>1, <3>3
  <2> HIDE DEF client
  <2> QED
    BY <1>7, <1>8, <2>1, <2>3, <2>4, <2>5, <2>6
<1>16. CASE TxnExec
  <2> DEFINE r == Replies(p.queue, d)
             k == Incrs(p.queue, Len(p.queue))
  <2>1. p.txn /\ e = "EXEC" /\ Evaluate({"EXEC"}, NewClient, r) /\ db' = d + k
    BY <1>16, <1>3, <1>5, <1>6, <1>7 DEF TxnExec, Evaluate
  <2>2. Heard(p, e).incrs = p.incrs + k /\ Heard(p, e).txn = FALSE /\ Heard(p, e).queue = <<>>
    BY <2>1 DEF Heard, Close
  <2>3. k \in Nat
    BY <1>7, LenProperties, IncrsType
  <2>4. Fits(p, e, r, db')
    <3>1. d \in 0 .. db'
      BY <2>1, <2>3
    <3> HIDE DEF r
    <3>2. \E v \in 0 .. db' : r = Replies(p.queue, v)
      BY <3>1 DEF r
    <3> QED
      BY <2>1, <3>2 DEF Fits, txnCommands
  <2>5. r \in Reply
    BY <1>10
  <2> HIDE DEF r, k
  <2>6. d <= db' /\ db' = d + (Heard(p, e).incrs - p.incrs)
    BY <1>7, <2>1, <2>2, <2>3
  <2> QED
    BY <1>8, <1>9, <2>1, <2>2, <2>4, <2>5, <2>6
<1>17. CASE TxnDiscard
  <2>1. p.txn /\ e = "DISCARD" /\ Evaluate({"DISCARD"}, NewClient, Ok) /\ db' = d
    BY <1>17, <1>3, <1>5, <1>6, <1>7 DEF TxnDiscard, Evaluate
  <2>2. Heard(p, e) = [p EXCEPT !.txn = FALSE, !.queue = <<>>, !.replies = @ + 1]
    BY <2>1 DEF Heard, Close
  <2>3. Heard(p, e).incrs = p.incrs /\ Heard(p, e).txn = FALSE /\ Heard(p, e).queue = <<>>
    BY <2>2 DEF Learned
  <2>4. Fits(p, e, Ok, db')
    BY <2>1 DEF Fits, txnCommands
  <2>5. Ok \in Reply /\ d <= db' /\ db' = d + (Heard(p, e).incrs - p.incrs)
    BY <1>7, <1>10, <2>1, <2>3
  <2> QED
    BY <1>8, <1>9, <2>1, <2>3, <2>4, <2>5
<1> QED
  BY <1>11, <1>12, <1>13, <1>14, <1>15, <1>16, <1>17

\* Every step keeps the invariant.
LEMMA TxnInvStep ==
  ASSUME TxnInv, [Next]_vars
  PROVE  TxnInv'
<1>1. Typing'
  BY TypingStep DEF TxnInv
<1>2. ASSUME NEW fd \in Fds, Accept(fd) PROVE TxnInv'
  BY <1>1, <1>2, AcceptStep
<1>3. ASSUME NEW fd \in Fds, Drop(fd) PROVE TxnInv'
  BY <1>1, <1>3, DropStep
<1>4. ASSUME NEW fd \in Fds, NEW n \in 1 .. MaxBatch, NEW batch \in [1 .. n -> Commands],
             readCommands(fd, batch)
      PROVE  TxnInv'
  BY <1>1, <1>4, ReadStep
<1>5. ASSUME EvalAndRespond PROVE TxnInv'
  BY <1>1, <1>5, CommandStep, RespondStep DEF EvalAndRespond
<1>6. CASE UNCHANGED vars
  <2>1. clients' = clients /\ db' = db /\ serving' = serving /\ cmds' = cmds
        /\ buf' = buf /\ out' = out /\ log' = log
    BY <1>6 DEF vars
  <2>2. Unheard'
    BY <2>1 DEF Unheard, TxnInv
  <2>3. \A c \in Fds : Evaluated(c)' = Evaluated(c) /\ Answers(c)' = Answers(c)
    BY <2>1 DEF Evaluated, Answers
  <2>4. \A c \in Fds : Quiet(c) /\ Seen(c)' = Seen(c)
    BY <1>1, <2>1, <2>2, <2>3, Kept DEF TxnInv
  <2>5. Numbered' /\ Answered' /\ Accounted'
    BY <1>1, <2>1, <2>2, <2>4, QuietStep DEF TxnInv
  <2>6. Gone' /\ QueueAgrees'
    BY <2>1, <2>4, SameStep DEF TxnInv
  <2> QED
    BY <1>1, <2>2, <2>5, <2>6 DEF TxnInv
<1> QED
  BY <1>2, <1>3, <1>4, <1>5, <1>6 DEF Next

\* Before any client has connected the invariant holds.
LEMMA TxnInvInit ==
  ASSUME Init
  PROVE  TxnInv
<1>1. /\ db = 0 /\ serving = Nil /\ cmds = <<>> /\ buf = <<>>
      /\ \A fd \in Fds : clients[fd] = Nil /\ out[fd] = <<>> /\ log[fd] = <<>>
  BY DEF Init
<1>2. <<>> \in Seq(Commands) /\ <<>> \in Seq(Reply) /\ <<>> \in Seq(Commands \cup {Close})
  BY EmptySeq
<1>3. Typing
  BY <1>2 DEF Init, Typing, TypeOK
<1>4. Unheard
  BY <1>1 DEF Unheard
<1>5. SeenOK
  BY <1>3, <1>4, SeenTypes
<1>6. \A fd \in Fds : Evaluated(fd) = 0 /\ Seen(fd) = Start /\ Answers(fd) = <<>>
  <2> SUFFICES ASSUME NEW fd \in Fds
               PROVE  Evaluated(fd) = 0 /\ Seen(fd) = Start /\ Answers(fd) = <<>>
    OBVIOUS
  <2>1. fd # Nil /\ Len(log[fd]) = 0
    BY <1>1, EmptySeq
  <2>2. Evaluated(fd) = 0
    <3>1. Evaluated(fd) = Len(log[fd]) - 0
      BY <2>1, <1>1 DEF Evaluated
    <3> QED
      BY <3>1, <2>1
  <2>3. Seen(fd) = Start
    BY <2>2, <1>5 DEF Seen, SeenOK
  <2>4. Answers(fd) = <<>>
    BY <2>1, <1>1, <1>2, ConcatEmptySeq DEF Answers
  <2> QED
    BY <2>2, <2>3, <2>4
<1>7. Gone /\ QueueAgrees
  BY <1>1, <1>6 DEF Gone, QueueAgrees, Start
<1>8. Numbered /\ Answered
  <2>1. Start.replies = 0 /\ Len(<<>>) = 0
    BY EmptySeq DEF Start
  <2>2. \A i \in 1 .. 0 : FALSE
    OBVIOUS
  <2> QED
    BY <1>6, <2>1, <2>2 DEF Numbered, Answered
<1>9. Accounted
  <2>1. [fd \in Fds |-> Seen(fd).incrs] = [fd \in Fds |-> 0]
    BY <1>6 DEF Start
  <2>2. SumFunction([fd \in Fds |-> 0]) = 0
    BY SumOfZeros
  <2> QED
    BY <2>1, <2>2, <1>1 DEF Accounted
<1> QED
  BY <1>3, <1>4, <1>7, <1>8, <1>9 DEF TxnInv

\* The invariant holds throughout.
LEMMA TxnInvInductive == Spec => []TxnInv
BY TxnInvInit, TxnInvStep, PTL DEF Spec
-----------------------------------------------------------------------------
(* The theorems.                                                           *)

\* The clients and the batch have their types: a descriptor is served only
\* while a client is behind it, which EvalAndRespond dereferences.
THEOREM TxnTypeOK == Spec => []TypeOK
<1>1. TxnInv => TypeOK
  BY DEF TxnInv, Typing
<1> QED
  BY <1>1, TxnInvInductive, PTL

\* Whatever clients send in whatever batches, and whenever they hang up, the
\* server's flag and queue are those the client expects: TxnBegin, TxnQueue,
\* TxnExec and TxnDiscard lose and reorder nothing and leave nothing behind.
THEOREM ServerAndClientAgree == Spec => []QueueAgrees
<1>1. TxnInv => QueueAgrees
  BY DEF TxnInv
<1> QED
  BY <1>1, TxnInvInductive, PTL

\* EvalAndRespond answers every command once and with a reply that fits it; EXEC
\* with those of the queue, executed in order and from one value of the counter.
THEOREM EveryCommandIsAnswered == Spec => []Answered
<1>1. TxnInv => Answered
  BY DEF TxnInv
<1> QED
  BY <1>1, TxnInvInductive, PTL

\* The counter holds the effects of what clients executed, at once or by EXEC:
\* none of a queued command before EXEC, none after DISCARD, none twice.
THEOREM EffectsAreAccounted == Spec => []Accounted
<1>1. TxnInv => Accounted
  BY DEF TxnInv
<1> QED
  BY <1>1, TxnInvInductive, PTL
=============================================================================
