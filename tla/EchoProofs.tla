----------------------------- MODULE EchoProofs -----------------------------
(***************************************************************************)
(* Theorems about the echo servers, for any number of clients and any size *)
(* of the buffer.                                                          *)
(***************************************************************************)
EXTENDS Echo, TLAPS, SequenceTheorems, FiniteSetTheorems

USE EchoAssumption

\* Types.
EchoTypes ==
  /\ server \in {"go2", "java"} /\ queue \in Seq(Clients)
  /\ sent \in [Clients -> 0 .. MaxBytes] /\ got \in [Clients -> Nat]
  /\ gone \subseteq Clients /\ broken \subseteq gone
  /\ serving \in [Clients -> {"none", "waiting", "read", "respond", "closed"}]
  /\ buf \in [Clients -> Seq(Clients \X Nat)] /\ echo \in [Clients -> Seq(Clients \X Nat)]
  /\ cur \in Clients \cup {None} /\ con_clients \in Int /\ loops \in 0 .. MaxLoops

\* Bytes from + 1 .. to of what c sends.
Run(c, from, to) == [i \in 1 .. to - from |-> <<c, from + i>>]

\* What has been written back and what has been read follow each other.
Exact ==
  \A c \in Clients :
    /\ echo[c] = Run(c, 0, Len(echo[c]))
    /\ buf[c] = Run(c, Len(echo[c]), Read(c))

\* Nothing is read before it is sent or received before it is written; only a
\* client that has not received all is reset.
Bounds ==
  \A c \in Clients :
    /\ Read(c) <= sent[c] /\ got[c] <= Len(echo[c])
    /\ buf[c] # <<>> <=> serving[c] = "respond"
    /\ c \in broken => got[c] < sent[c]

\* The connections not accepted are waiting, each of them once.
Queued ==
  /\ \A i \in DOMAIN queue : serving[queue[i]] = "waiting"
  /\ \A i, j \in DOMAIN queue : queue[i] = queue[j] => i = j

EchoInv == EchoTypes /\ Exact /\ Bounds /\ Queued
-----------------------------------------------------------------------------
\* A run has its type and its length.
LEMMA RunType ==
  ASSUME NEW c \in Clients, NEW from \in Nat, NEW to \in Nat, from <= to
  PROVE  Run(c, from, to) \in Seq(Clients \X Nat) /\ Len(Run(c, from, to)) = to - from
<1>1. to - from \in Nat /\ \A i \in 1 .. to - from : <<c, from + i>> \in Clients \X Nat
  OBVIOUS
<1> QED
  BY <1>1 DEF Run

\* A sequence from its two parts.
LEMMA Parts ==
  ASSUME NEW S, NEW s \in Seq(S), NEW t \in Seq(S), NEW u \in Seq(S),
         Len(u) = Len(s) + Len(t),
         \A i \in 1 .. Len(s) : s[i] = u[i],
         \A i \in 1 .. Len(t) : t[i] = u[Len(s) + i]
  PROVE  s \o t = u
<1>1. s \o t \in Seq(S) /\ Len(s \o t) = Len(u)
  BY ConcatProperties
<1>2. ASSUME NEW i \in 1 .. Len(u) PROVE (s \o t)[i] = u[i]
  <2>1. (s \o t)[i] = IF i <= Len(s) THEN s[i] ELSE t[i - Len(s)]
    BY <1>2, ConcatProperties
  <2>2. i <= Len(s) \/ (i - Len(s) \in 1 .. Len(t) /\ Len(s) + (i - Len(s)) = i)
    BY <1>2
  <2> QED
    BY <1>2, <2>1, <2>2, SMTT(60)
<1> QED
  BY <1>1, <1>2, SeqEqual

\* One run after another is a run.
LEMMA RunConcat ==
  ASSUME NEW c \in Clients, NEW n \in Nat, NEW m \in Nat, n <= m
  PROVE  Run(c, 0, n) \o Run(c, n, m) = Run(c, 0, m)
<1>1. /\ Run(c, 0, n) \in Seq(Clients \X Nat) /\ Len(Run(c, 0, n)) = n
      /\ Run(c, 0, m) \in Seq(Clients \X Nat) /\ Len(Run(c, 0, m)) = m
  <2>1. n - 0 = n /\ m - 0 = m /\ 0 \in Nat /\ 0 <= n /\ 0 <= m
    OBVIOUS
  <2> QED
    BY <2>1, RunType
<1>2. Run(c, n, m) \in Seq(Clients \X Nat) /\ Len(Run(c, n, m)) = m - n
  BY RunType
<1>3. \A i \in 1 .. n : Run(c, 0, n)[i] = Run(c, 0, m)[i]
  BY DEF Run
<1>4. \A i \in 1 .. m - n : Run(c, n, m)[i] = Run(c, 0, m)[n + i]
  BY DEF Run
<1> DEFINE s == Run(c, 0, n)
<1> DEFINE t == Run(c, n, m)
<1> DEFINE u == Run(c, 0, m)
<1> HIDE DEF s, t, u
<1>5. s \in Seq(Clients \X Nat) /\ t \in Seq(Clients \X Nat) /\ u \in Seq(Clients \X Nat)
  BY <1>1, <1>2 DEF s, t, u
<1>6. /\ Len(u) = Len(s) + Len(t)
      /\ \A i \in 1 .. Len(s) : s[i] = u[i]
      /\ \A i \in 1 .. Len(t) : t[i] = u[Len(s) + i]
  <2>1. Len(s) = n /\ Len(t) = m - n /\ Len(u) = m
    BY <1>1, <1>2 DEF s, t, u
  <2>2. /\ \A i \in 1 .. n : s[i] = u[i]
        /\ \A i \in 1 .. m - n : t[i] = u[n + i]
    BY <1>3, <1>4 DEF s, t, u
  <2> QED
    BY <2>1, <2>2
<1>7. s \o t = u
  BY <1>5, <1>6, Parts
<1> QED
  BY <1>7 DEF s, t, u

\* One read of what has come.
LEMMA ReadSomeInv ==
  ASSUME EchoTypes, Exact, Bounds, NEW c \in Clients, ReadSome(c)
  PROVE  /\ \E b \in Seq(Clients \X Nat) :
              /\ buf' = [buf EXCEPT ![c] = b] /\ b # <<>>
              /\ b = Run(c, Len(echo[c]), Len(echo[c]) + Len(b))
              /\ Len(echo[c]) + Len(b) <= sent[c]
         /\ serving' = [serving EXCEPT ![c] = "respond"]
<1>1. PICK n \in 1 .. Min({BufSize, Unread(c)}) : buf' = [buf EXCEPT ![c] = Bytes(c, n)]
  BY DEF ReadSome
<1>2. buf[c] = <<>> /\ Len(echo[c]) \in Nat /\ sent[c] \in Nat
  BY DEF ReadSome, Bounds, EchoTypes
<1>3. Read(c) = Len(echo[c]) /\ Unread(c) = sent[c] - Len(echo[c])
  BY <1>2 DEF Read, Unread
<1>4. n \in Nat \ {0} /\ n <= Unread(c)
  <2>1. Unread(c) \in Int /\ BufSize \in Int
    BY <1>2, <1>3
  <2>2. Min({BufSize, Unread(c)}) <= Unread(c) /\ Min({BufSize, Unread(c)}) \in Int
    BY <2>1 DEF Min
  <2> QED
    BY <2>1, <2>2
<1> DEFINE b == Bytes(c, n)
<1>5. b = Run(c, Len(echo[c]), Len(echo[c]) + n)
  BY <1>2, <1>3, <1>4 DEF Bytes, Run
<1>6. b \in Seq(Clients \X Nat) /\ Len(b) = n
  <2>1. Len(echo[c]) + n \in Nat /\ Len(echo[c]) <= Len(echo[c]) + n
        /\ (Len(echo[c]) + n) - Len(echo[c]) = n
    BY <1>2, <1>4
  <2> HIDE DEF b
  <2> QED
    BY <1>2, <1>5, <2>1, RunType
<1>7. b # <<>>
  BY <1>4, <1>6
<1>8. Len(echo[c]) + n <= sent[c]
  BY <1>2, <1>3, <1>4
<1>9. b = Run(c, Len(echo[c]), Len(echo[c]) + Len(b)) /\ Len(echo[c]) + Len(b) <= sent[c]
  <2> HIDE DEF b
  <2> QED
    BY <1>5, <1>6, <1>8
<1> HIDE DEF b
<1> QED
  BY <1>1, <1>6, <1>7, <1>9 DEF ReadSome, b
-----------------------------------------------------------------------------
\* The queue stays in order while only connections that have left it change.
LEMMA QueuedKept ==
  ASSUME EchoTypes, Queued, UNCHANGED queue, NEW c \in Clients, NEW s,
         serving' = [serving EXCEPT ![c] = s], serving[c] # "waiting"
  PROVE  Queued'
<1>1. \A i \in DOMAIN queue : queue[i] \in Clients
  BY DEF EchoTypes
<1> QED
  BY <1>1 DEF Queued, EchoTypes

\* What the clients do by themselves.
LEMMA ClientStep ==
  ASSUME EchoInv, NEW c \in Clients,
         Connect(c) \/ Receive(c) \/ Leave(c) \/ \E n \in 1 .. MaxBytes : Send(c, n)
  PROVE  EchoInv'
<1> USE DEF EchoInv
<1>1. UNCHANGED <<server, buf, echo, go2Vars>>
  BY DEF Connect, Receive, Leave, Send
<1>2. Exact'
  BY <1>1 DEF Exact, Read
<1>3. \A d \in Clients : Len(echo[d]) \in Nat /\ Len(buf[d]) \in Nat
  BY SMTT(60) DEF EchoTypes
<1>4. CASE Connect(c)
  <2>1. queue' = Append(queue, c) /\ serving' = [serving EXCEPT ![c] = "waiting"]
        /\ serving[c] = "none" /\ UNCHANGED <<clientVars, broken>>
    BY <1>4 DEF Connect
  <2>2. EchoTypes'
    BY <1>1, <2>1 DEF EchoTypes, clientVars, go2Vars
  <2>3. Bounds'
    BY <1>1, <2>1 DEF Bounds, EchoTypes, Read, clientVars
  <2>4. Len(queue) \in Nat /\ DOMAIN queue = 1 .. Len(queue)
        /\ DOMAIN queue' = 1 .. Len(queue) + 1 /\ queue'[Len(queue) + 1] = c
        /\ \A i \in 1 .. Len(queue) : queue'[i] = queue[i] /\ queue[i] \in Clients
    BY <2>1 DEF EchoTypes
  <2>5. \A i \in 1 .. Len(queue) : queue[i] # c
    BY <2>1, <2>4 DEF Queued
  <2>6. \A i \in DOMAIN queue' : i \in 1 .. Len(queue) \/ i = Len(queue) + 1
    BY <2>4
  <2>7. \A i \in DOMAIN queue' : serving'[queue'[i]] = "waiting"
    BY <2>1, <2>4, <2>6 DEF Queued, EchoTypes
  <2>8. \A i, j \in DOMAIN queue' : queue'[i] = queue'[j] => i = j
    BY <2>4, <2>5, <2>6 DEF Queued
  <2> QED
    BY <1>2, <2>2, <2>3, <2>7, <2>8 DEF Queued
<1>5. CASE ~Connect(c)
  <2>1. UNCHANGED <<queue, serving>>
    BY <1>5 DEF Receive, Leave, Send
  <2>2. Queued'
    BY <2>1 DEF Queued
  <2>3. CASE Receive(c)
    <3>1. PICK n \in got[c] + 1 .. Len(echo[c]) : got' = [got EXCEPT ![c] = n]
      BY <2>3 DEF Receive
    <3>2. n \in Nat /\ n <= Len(echo[c]) /\ c \notin gone /\ UNCHANGED <<sent, gone, broken>>
      BY <1>3, <2>3 DEF Receive, EchoTypes
    <3>3. EchoTypes' /\ Bounds'
      BY <1>1, <2>1, <3>1, <3>2 DEF EchoTypes, Bounds, Read, go2Vars
    <3> QED
      BY <1>2, <2>2, <3>3
  <2>4. CASE Leave(c)
    <3>1. /\ gone' = gone \cup {c} /\ UNCHANGED <<sent, got>>
          /\ broken' = broken \/ (broken' = broken \cup {c} /\ got[c] < Len(echo[c]))
      BY <2>4 DEF Leave
    <3>2. Read(c) \in Nat /\ Len(echo[c]) <= Read(c) /\ Read(c) <= sent[c]
      <4>1. Read(c) <= sent[c] /\ Len(echo[c]) \in Nat /\ Len(buf[c]) \in Nat
        BY <1>3 DEF Bounds
      <4>2. Read(c) = Len(echo[c]) + Len(buf[c])
        BY DEF Read
      <4>3. \A a, b \in Nat : a + b \in Nat /\ a <= a + b
        OBVIOUS
      <4> QED
        BY ONLY <4>1, <4>2, <4>3
    <3>3. got[c] < Len(echo[c]) => got[c] < sent[c]
      BY <1>3, <3>2 DEF EchoTypes
    <3>4. EchoTypes' /\ Bounds'
      BY <1>1, <2>1, <3>1, <3>3 DEF EchoTypes, Bounds, Read, go2Vars
    <3> QED
      BY <1>2, <2>2, <3>4
  <2>5. ASSUME NEW n \in 1 .. MaxBytes, Send(c, n) PROVE EchoInv'
    <3>1. /\ sent' = [sent EXCEPT ![c] = sent[c] + n] /\ sent[c] + n <= MaxBytes
          /\ c \notin gone /\ UNCHANGED <<got, gone, broken>>
      BY <2>5 DEF Send
    <3>2. \A d \in Clients : sent[d] \in Nat /\ sent'[d] \in 0 .. MaxBytes /\ sent[d] <= sent'[d]
      BY <3>1, SMTT(60) DEF EchoTypes
    <3>3. EchoTypes'
      BY <1>1, <2>1, <3>1, <3>2 DEF EchoTypes, go2Vars
    <3>4. Bounds'
      <4>1. ASSUME NEW d \in Clients
            PROVE  Read(d)' <= sent'[d] /\ (d \in broken => got[d] < sent'[d])
        <5>1. Read(d)' = Read(d) /\ Read(d) \in Nat /\ Read(d) <= sent[d] /\ got[d] \in Nat
          BY <1>1, <1>3 DEF Read, Bounds, EchoTypes
        <5> QED
          BY <3>2, <5>1 DEF Bounds
      <4> QED
        BY <1>1, <2>1, <3>1, <4>1 DEF Bounds
    <3> QED
      BY <1>2, <2>2, <3>3, <3>4
  <2> QED
    BY <1>5, <2>3, <2>4, <2>5
<1> QED
  BY <1>4, <1>5

\* Accepting takes the head of the queue.
LEMMA AcceptStep ==
  ASSUME EchoInv, NEW c \in Clients, Accept(c),
         UNCHANGED <<server, clientVars, broken, buf, echo, loops>>,
         cur' \in Clients \cup {None}, con_clients' \in Int
  PROVE  EchoInv'
<1> USE DEF EchoInv
<1>1. queue \in Seq(Clients) /\ queue # <<>> /\ queue[1] = c /\ queue' = Tail(queue)
      /\ serving' = [serving EXCEPT ![c] = "read"]
  BY DEF Accept, EchoTypes
<1>2. Len(queue) \in Nat \ {0} /\ DOMAIN queue = 1 .. Len(queue)
      /\ queue' \in Seq(Clients) /\ DOMAIN queue' = 1 .. Len(queue) - 1
      /\ \A i \in 1 .. Len(queue) - 1 : queue'[i] = queue[i + 1]
  BY <1>1
<1>3. serving[c] = "waiting"
  BY <1>1, <1>2 DEF Queued
<1>4. EchoTypes'
  BY <1>1, <1>2 DEF EchoTypes, clientVars
<1>5. Exact' /\ Bounds'
  BY <1>1, <1>3 DEF Exact, Bounds, Read, EchoTypes, clientVars
<1>6. Queued'
  <2>1. \A i \in DOMAIN queue' : i + 1 \in DOMAIN queue /\ i + 1 # 1 /\ queue'[i] = queue[i + 1]
    BY <1>2
  <2>2. 1 \in DOMAIN queue
    BY <1>2
  <2>3. \A i \in DOMAIN queue' : queue'[i] \in Clients /\ queue'[i] # c /\ serving[queue'[i]] = "waiting"
    BY <1>1, <1>2, <2>1, <2>2 DEF Queued
  <2>4. \A i, j \in DOMAIN queue' : queue'[i] = queue'[j] => i = j
    <3>1. ASSUME NEW i \in DOMAIN queue', NEW j \in DOMAIN queue', queue'[i] = queue'[j]
          PROVE  i = j
      <4>1. i + 1 = j + 1
        BY <2>1, <3>1 DEF Queued
      <4> QED
        BY <1>2, <4>1
    <3> QED
      BY <3>1
  <2>5. \A i \in DOMAIN queue' : serving'[queue'[i]] = "waiting"
    BY <1>1, <2>3 DEF EchoTypes
  <2> QED
    BY <2>4, <2>5 DEF Queued
<1> QED
  BY <1>4, <1>5, <1>6

\* What is read continues what has been written back.
LEMMA ReadStep ==
  ASSUME EchoInv, NEW c \in Clients, ReadSome(c), serving[c] = "read",
         UNCHANGED <<server, queue, clientVars, broken, echo, go2Vars>>
  PROVE  EchoInv'
<1> USE DEF EchoInv
<1>1. PICK b \in Seq(Clients \X Nat) :
        /\ buf' = [buf EXCEPT ![c] = b] /\ b # <<>>
        /\ b = Run(c, Len(echo[c]), Len(echo[c]) + Len(b))
        /\ Len(echo[c]) + Len(b) <= sent[c]
  BY ReadSomeInv
<1>2. serving' = [serving EXCEPT ![c] = "respond"]
  BY ReadSomeInv
<1>3. EchoTypes'
  BY <1>1, <1>2 DEF EchoTypes, clientVars, go2Vars
<1>4. \A d \in Clients : buf'[d] = IF d = c THEN b ELSE buf[d]
  BY <1>1 DEF EchoTypes
<1>5. \A d \in Clients \ {c} : Read(d)' = Read(d)
  BY <1>4 DEF Read
<1>6. Read(c)' = Len(echo[c]) + Len(b)
  BY <1>4 DEF Read
<1>7. Exact'
  BY <1>1, <1>4, <1>5, <1>6 DEF Exact
<1>8. Bounds'
  <2>1. ASSUME NEW d \in Clients, d # c
        PROVE  /\ Read(d)' = Read(d) /\ buf'[d] = buf[d] /\ serving'[d] = serving[d]
               /\ Read(d) <= sent[d]
    BY <1>2, <1>4, <1>5, <2>1 DEF Bounds, EchoTypes
  <2>2. /\ Read(c)' <= sent[c] /\ buf'[c] # <<>> /\ serving'[c] = "respond"
    BY <1>1, <1>2, <1>4, <1>6 DEF EchoTypes
  <2>3. UNCHANGED <<sent, got, echo, broken>>
    BY DEF clientVars
  <2> QED
    BY <2>1, <2>2, <2>3 DEF Bounds
<1>9. Queued'
  BY <1>2, QueuedKept
<1> QED
  BY <1>3, <1>7, <1>8, <1>9

\* What is written back continues the echo.
LEMMA WriteStep ==
  ASSUME EchoInv, NEW c \in Clients, Write(c), serving[c] = "respond",
         NEW s \in {"read", "closed"}, serving' = [serving EXCEPT ![c] = s],
         UNCHANGED <<server, queue, clientVars, go2Vars>>
  PROVE  EchoInv'
<1> USE DEF EchoInv
<1> DEFINE e == echo[c]
<1> DEFINE b == buf[c]
<1>1. e \in Seq(Clients \X Nat) /\ b \in Seq(Clients \X Nat) /\ Read(c) = Len(e) + Len(b)
      /\ b # <<>> /\ e = Run(c, 0, Len(e)) /\ b = Run(c, Len(e), Read(c))
  BY DEF EchoTypes, Exact, Bounds, Read
<1>2. echo' = [echo EXCEPT ![c] = e \o b] /\ buf' = [buf EXCEPT ![c] = <<>>]
  BY DEF Write
<1>3. broken' = broken \/ (broken' = broken \cup {c} /\ c \in gone)
  BY DEF Write
<1> HIDE DEF e, b
<1>4. e \o b \in Seq(Clients \X Nat) /\ Len(e \o b) = Read(c) /\ Len(b) > 0
      /\ Len(e) \in Nat /\ Read(c) \in Nat /\ Len(e) < Read(c)
  <2>1. Len(b) # 0
    BY <1>1, EmptySeq
  <2> QED
    BY <1>1, <2>1, ConcatProperties
<1>5. e \o b = Run(c, 0, Read(c))
  <2>1. ASSUME NEW n \in Nat, NEW m \in Nat, n < m
        PROVE  Run(c, 0, n) \o Run(c, n, m) = Run(c, 0, m)
    <3>1. n <= m
      BY <2>1
    <3> QED
      BY <3>1, RunConcat
  <2> QED
    BY <1>1, <1>4, <2>1
<1>6. <<>> = Run(c, Read(c), Read(c))
  <2>1. Run(c, Read(c), Read(c)) \in Seq(Clients \X Nat) /\ Len(Run(c, Read(c), Read(c))) = 0
    <3>1. Read(c) - Read(c) = 0 /\ Read(c) <= Read(c)
      BY <1>4
    <3> QED
      BY <1>4, <3>1, RunType
  <2> QED
    BY <2>1, EmptySeq
<1>7. EchoTypes'
  <2>1. <<>> \in Seq(Clients \X Nat)
    OBVIOUS
  <2>2. echo' \in [Clients -> Seq(Clients \X Nat)] /\ buf' \in [Clients -> Seq(Clients \X Nat)]
    BY <1>2, <1>4, <2>1 DEF EchoTypes
  <2>3. broken' \subseteq gone
    BY <1>3 DEF EchoTypes
  <2>4. serving' \in [Clients -> {"none", "waiting", "read", "respond", "closed"}]
    BY DEF EchoTypes
  <2> QED
    BY <2>2, <2>3, <2>4 DEF EchoTypes, clientVars, go2Vars
<1>8. \A d \in Clients : /\ echo'[d] = IF d = c THEN e \o b ELSE echo[d]
                         /\ buf'[d] = IF d = c THEN <<>> ELSE buf[d]
  BY <1>2 DEF EchoTypes
<1>9. \A d \in Clients : Read(d)' = Read(d)
  <2>1. Read(c)' = Len(e \o b) + Len(<<>>) /\ Len(<<>>) = 0
    BY <1>8 DEF Read
  <2>2. \A d \in Clients \ {c} : Read(d)' = Read(d)
    BY <1>8 DEF Read
  <2> QED
    BY <1>4, <2>1, <2>2
<1>10. Exact'
  BY <1>4, <1>5, <1>6, <1>8, <1>9 DEF Exact
<1>11. Bounds'
  <2>1. got[c] < sent[c] /\ got[c] <= Read(c)
    <3>1. got[c] <= Len(e) /\ Read(c) <= sent[c]
      BY DEF Bounds, e
    <3>2. got[c] \in Nat /\ sent[c] \in Nat
      BY DEF EchoTypes
    <3> QED
      BY <1>4, <3>1, <3>2
  <2> QED
    BY <1>3, <1>4, <1>8, <1>9, <2>1 DEF Bounds, EchoTypes, clientVars
<1>12. Queued'
  BY QueuedKept
<1> QED
  BY <1>7, <1>10, <1>11, <1>12

\* Closing a connection from which nothing is left to be written.
LEMMA CloseStep ==
  ASSUME EchoInv, NEW c \in Clients, Close(c), serving[c] = "read",
         UNCHANGED <<server, queue, clientVars, broken, buf, echo, loops>>,
         cur' \in Clients \cup {None}, con_clients' \in Int
  PROVE  EchoInv'
<1> USE DEF EchoInv, Close
<1>1. EchoTypes'
  BY DEF EchoTypes, clientVars
<1>2. Exact' /\ Bounds'
  BY DEF Exact, Bounds, Read, EchoTypes, clientVars
<1>3. Queued'
  BY QueuedKept
<1> QED
  BY <1>1, <1>2, <1>3

\* At first nothing is read or written.
LEMMA EchoInit == Init => EchoInv
<1> SUFFICES ASSUME Init PROVE EchoInv
  OBVIOUS
<1>1. <<>> \in Seq(Clients \X Nat) /\ <<>> \in Seq(Clients) /\ Len(<<>>) = 0
  OBVIOUS
<1>2. EchoTypes
  BY <1>1 DEF Init, EchoTypes
<1>3. Queued
  BY DEF Init, Queued
<1>4. \A c \in Clients : /\ echo[c] = <<>> /\ buf[c] = <<>> /\ Read(c) = 0
                         /\ sent[c] = 0 /\ got[c] = 0 /\ serving[c] = "none" /\ c \notin broken
  BY <1>1 DEF Init, Read
<1>5. Bounds
  BY <1>1, <1>4 DEF Bounds
<1>6. \A c \in Clients : Run(c, 0, 0) = <<>>
  <2>1. \A c \in Clients : Run(c, 0, 0) \in Seq(Clients \X Nat) /\ Len(Run(c, 0, 0)) = 0
    BY RunType
  <2> QED
    BY <2>1, EmptySeq
<1>7. Exact
  BY <1>1, <1>4, <1>6 DEF Exact
<1> QED
  BY <1>2, <1>3, <1>5, <1>7 DEF EchoInv

\* Every step of either server, and of any client, keeps the echo exact.
LEMMA EchoStep == EchoInv /\ [Next]_vars => EchoInv'
<1> SUFFICES ASSUME EchoInv, [Next]_vars PROVE EchoInv'
  OBVIOUS
<1> USE DEF go2Vars
<1>0. cur \in Clients \cup {None} /\ con_clients \in Int
      /\ con_clients + 1 \in Int /\ con_clients - 1 \in Int
  BY DEF EchoInv, EchoTypes
<1>1. ASSUME NEW c \in Clients,
             Connect(c) \/ Receive(c) \/ Leave(c) \/ \E n \in 1 .. MaxBytes : Send(c, n)
      PROVE  EchoInv'
  BY <1>1, ClientStep
<1>2. ASSUME NEW c \in Clients, AcceptGo(c) \/ runSyncTCPServer(c) PROVE EchoInv'
  BY <1>0, <1>2, AcceptStep DEF AcceptGo, runSyncTCPServer
<1>3. ASSUME NEW c \in Clients, readCommand(c) \/ readFromSocket(c) PROVE EchoInv'
  <2>1. serving[c] = "read"
    BY <1>3 DEF readCommand, readFromSocket, ReadSome
  <2> QED
    BY <1>3, <2>1, ReadStep DEF readCommand, readFromSocket
<1>4. ASSUME NEW c \in Clients, respond(c) PROVE EchoInv'
  BY <1>4, WriteStep DEF respond
<1>5. ASSUME NEW c \in Clients, writeToSocket(c) PROVE EchoInv'
  BY <1>5, WriteStep DEF writeToSocket, Close
<1>6. ASSUME NEW c \in Clients, ReadEOF(c) PROVE EchoInv'
  BY <1>0, <1>6, CloseStep DEF ReadEOF, AtEnd
<1>7. ASSUME NEW c \in Clients, ReadError(c) PROVE EchoInv'
  BY <1>0, <1>7, CloseStep DEF ReadError, ReadFails
<1>8. ASSUME NEW c \in Clients, ReadNothing(c) PROVE EchoInv'
  BY <1>0, <1>8, CloseStep DEF ReadNothing, AtEnd
<1>9. ASSUME NEW c \in Clients, ReadClosed(c) PROVE EchoInv'
  <2>1. UNCHANGED <<server, queue, clientVars, broken, serving, buf, echo, cur>>
        /\ con_clients' \in Int /\ loops' \in 0 .. MaxLoops
    BY <1>9 DEF ReadClosed, EchoInv, EchoTypes
  <2> QED
    BY <2>1 DEF EchoInv, EchoTypes, Exact, Bounds, Read, Queued, clientVars
<1>10. CASE UNCHANGED vars
  BY <1>10 DEF vars, EchoInv, EchoTypes, Exact, Bounds, Read, Queued
<1> QED
  BY <1>1, <1>2, <1>3, <1>4, <1>5, <1>6, <1>7, <1>8, <1>9, <1>10 DEF Next, Go2, Java
-----------------------------------------------------------------------------
\* go2 serves one connection at a time: the one it serves is open, or has been
\* closed by an error, and then the loop stays in it; Java keeps none of this.
GoInv ==
  /\ server = "java" => cur = None
  /\ server = "go2" =>
       /\ \A c \in Clients : Open(c) => c = cur
       /\ cur # None => serving[cur] \in {"read", "respond", "closed"}
       /\ Stuck => cur \in broken
       /\ loops > 0 => Stuck
       /\ con_clients = (IF cur # None /\ Open(cur) THEN 1 ELSE 0) - loops

\* Nothing that concerns go2 changes but the state of one connection, which is
\* not the one it serves.
LEMMA GoKept ==
  ASSUME EchoTypes, GoInv, NEW c \in Clients, NEW s,
         UNCHANGED <<server, cur, con_clients, loops>>, broken \subseteq broken',
         \/ UNCHANGED serving
         \/ /\ serving' = [serving EXCEPT ![c] = s]
            /\ \/ c = cur /\ Open(c) /\ s \in {"read", "respond"}
               \/ c # cur /\ s \notin {"read", "respond"}
               \/ server = "java"
  PROVE  GoInv'
<1>1. CASE server = "java"
  BY <1>1 DEF GoInv
<1>2. CASE UNCHANGED serving
  BY <1>2 DEF GoInv, Open, Stuck
<1>3. CASE /\ server # "java" /\ serving' = [serving EXCEPT ![c] = s]
           /\ c = cur /\ Open(c) /\ s \in {"read", "respond"}
  <2>1. \A d \in Clients : Open(d)' <=> Open(d)
    BY <1>3 DEF Open, EchoTypes
  <2>2. c \in Clients /\ cur = c /\ serving'[c] = s /\ ~Stuck /\ ~Stuck'
    BY <1>3 DEF Stuck, Open, EchoTypes
  <2> QED
    BY <1>3, <2>1, <2>2 DEF GoInv
<1>4. CASE /\ server # "java" /\ serving' = [serving EXCEPT ![c] = s]
           /\ c # cur /\ s \notin {"read", "respond"}
  <2>1. \A d \in Clients : d # c => serving'[d] = serving[d]
    BY <1>4 DEF EchoTypes
  <2>2. ~Open(c)'
    BY <1>4 DEF Open, EchoTypes
  <2>3. cur = None \/ (cur \in Clients /\ cur # c /\ serving'[cur] = serving[cur])
    BY <1>4, <2>1 DEF EchoTypes
  <2>4. (Stuck' <=> Stuck) /\ (cur # None => (Open(cur)' <=> Open(cur)))
    BY <2>3 DEF Stuck, Open
  <2>5. \A d \in Clients : Open(d)' => Open(d)
    BY <2>1, <2>2 DEF Open
  <2> QED
    BY <1>4, <2>3, <2>4, <2>5 DEF GoInv
<1> QED
  BY <1>1, <1>2, <1>3, <1>4

\* At first nothing is served.
LEMMA GoInit == Init => GoInv
BY DEF Init, GoInv, Open, Stuck

\* A step of go2 itself.
LEMMA Go2Step ==
  ASSUME EchoTypes, GoInv, NEW c \in Clients, Go2(c)
  PROVE  GoInv'
<1> USE DEF go2Vars
<1>0. loops \in Nat /\ None \notin Clients
  BY DEF EchoTypes, EchoAssumption
<1>1. CASE AcceptGo(c)
  <2>1. /\ server = "go2" /\ server' = "go2" /\ cur = None /\ cur' = c
        /\ con_clients' = con_clients + 1 /\ loops' = loops
        /\ serving' = [serving EXCEPT ![c] = "read"]
    BY <1>1 DEF AcceptGo, Accept
  <2>2. loops = 0 /\ con_clients = 0 /\ \A d \in Clients : ~Open(d)
    BY <1>0, <2>1 DEF GoInv, Stuck
  <2>3. \A d \in Clients : serving'[d] = IF d = c THEN "read" ELSE serving[d]
    BY <2>1 DEF EchoTypes
  <2>4. \A d \in Clients : Open(d)' <=> d = c
    BY <2>2, <2>3 DEF Open
  <2>5. serving'[cur'] = "read" /\ ~Stuck' /\ cur' # None /\ Open(cur)'
    BY <1>0, <2>1, <2>3 DEF Stuck, Open
  <2> QED
    BY <2>1, <2>2, <2>4, <2>5 DEF GoInv
<1>2. CASE readCommand(c) \/ respond(c)
  <2>1. /\ UNCHANGED <<server, cur, con_clients, loops>> /\ broken \subseteq broken'
        /\ cur = c /\ Open(c)
        /\ \E s \in {"read", "respond"} : serving' = [serving EXCEPT ![c] = s]
    BY <1>2 DEF readCommand, respond, ReadSome, Write, Open
  <2> QED
    BY <2>1, GoKept
<1>3. CASE ReadEOF(c) \/ ReadError(c)
  <2>1. /\ server = "go2" /\ server' = "go2" /\ cur = c /\ serving[c] = "read"
        /\ con_clients' = con_clients - 1 /\ loops' = loops /\ broken' = broken
        /\ serving' = [serving EXCEPT ![c] = "closed"]
        /\ cur' = None \/ (cur' = c /\ c \in broken)
    BY <1>3 DEF ReadEOF, ReadError, AtEnd, ReadFails, Close
  <2>2. c # None /\ Open(c) /\ ~Stuck
    BY <1>0, <2>1 DEF Open, Stuck
  <2>3. loops = 0 /\ con_clients = 1
    BY <1>0, <2>1, <2>2 DEF GoInv
  <2>4. serving'[c] = "closed" /\ \A d \in Clients : d # c => ~Open(d)'
    <3>1. \A d \in Clients : d # c => ~Open(d) /\ serving'[d] = serving[d]
      BY <2>1 DEF GoInv, EchoTypes
    <3> QED
      BY <2>1, <3>1 DEF Open, EchoTypes
  <2>5. \A d \in Clients : ~Open(d)'
    BY <2>4 DEF Open
  <2>6. CASE cur' = None
    BY <2>1, <2>3, <2>5, <2>6 DEF GoInv, Stuck
  <2>7. CASE cur' = c /\ c \in broken
    <3>1. ~Open(cur)'
      BY <2>4, <2>7 DEF Open
    <3> QED
      BY <2>1, <2>3, <2>4, <2>5, <2>7, <3>1 DEF GoInv, Stuck
  <2> QED
    BY <2>1, <2>6, <2>7
<1>4. CASE ReadClosed(c)
  <2>1. /\ server = "go2" /\ cur = c /\ serving[c] = "closed"
        /\ con_clients' = con_clients - 1 /\ loops' = loops + 1
        /\ UNCHANGED <<server, broken, serving, cur>>
    BY <1>4 DEF ReadClosed
  <2>2. Stuck /\ Stuck' /\ ~Open(cur) /\ ~Open(cur)'
    BY <1>0, <2>1 DEF Stuck, Open
  <2>3. con_clients = 0 - loops /\ con_clients' = 0 - loops'
    BY <1>0, <2>1, <2>2 DEF GoInv
  <2> QED
    BY <2>1, <2>2, <2>3 DEF GoInv, Open
<1> QED
  BY <1>1, <1>2, <1>3, <1>4 DEF Go2

\* Nobody's step brings go2 out of order.
LEMMA GoStep == EchoTypes /\ GoInv /\ [Next]_vars => GoInv'
<1> SUFFICES ASSUME EchoTypes, GoInv, [Next]_vars PROVE GoInv'
  OBVIOUS
<1> USE DEF go2Vars
<1>1. ASSUME NEW c \in Clients, Connect(c) PROVE GoInv'
  <2>1. /\ UNCHANGED <<server, cur, con_clients, loops, broken>> /\ serving[c] = "none"
        /\ serving' = [serving EXCEPT ![c] = "waiting"]
    BY <1>1 DEF Connect
  <2>2. server = "java" \/ c # cur
    BY <2>1 DEF GoInv, EchoTypes, EchoAssumption
  <2>3. broken \subseteq broken' /\ "waiting" \notin {"read", "respond"}
    BY <2>1
  <2> QED
    BY <2>1, <2>2, <2>3, GoKept
<1>2. ASSUME NEW c \in Clients, Receive(c) \/ Leave(c) \/ \E n \in 1 .. MaxBytes : Send(c, n)
      PROVE  GoInv'
  <2>1. UNCHANGED <<server, cur, con_clients, loops, serving>> /\ broken \subseteq broken'
    BY <1>2 DEF Receive, Leave, Send
  <2> QED
    BY <2>1, GoKept
<1>3. ASSUME NEW c \in Clients, Go2(c) PROVE GoInv'
  BY <1>3, Go2Step
<1>4. ASSUME NEW c \in Clients, runSyncTCPServer(c) \/ Java(c) PROVE GoInv'
  BY <1>4 DEF runSyncTCPServer, Java, readFromSocket, ReadNothing, writeToSocket, GoInv
<1>5. CASE UNCHANGED vars
  BY <1>5 DEF vars, GoInv, Open, Stuck
<1> QED
  BY <1>1, <1>2, <1>3, <1>4, <1>5 DEF Next
-----------------------------------------------------------------------------
\* The inductive invariant.
THEOREM EchoCorrect == Spec => [](EchoInv /\ GoInv)
<1>1. EchoInv /\ GoInv /\ [Next]_vars => (EchoInv /\ GoInv)'
  BY EchoStep, GoStep DEF EchoInv
<1> QED
  BY EchoInit, GoInit, <1>1, PTL DEF Spec

\* The variables have their types; no server reads more than was sent, no client
\* receives more than was written.
THEOREM EchoTypeOK == Spec => []TypeOK
<1>1. EchoInv => TypeOK
  <2> SUFFICES ASSUME EchoInv PROVE TypeOK
    OBVIOUS
  <2> USE DEF EchoInv
  <2>1. ASSUME NEW c \in Clients
        PROVE  Read(c) \in 0 .. sent[c] /\ got[c] \in 0 .. Len(echo[c])
    <3>1. Len(echo[c]) \in Nat /\ Len(buf[c]) \in Nat /\ sent[c] \in Nat /\ got[c] \in Nat
      BY DEF EchoTypes
    <3>2. Read(c) \in Nat /\ Read(c) <= sent[c] /\ got[c] <= Len(echo[c])
      <4>1. \A a, b \in Nat : a + b \in Nat
        OBVIOUS
      <4>2. Read(c) \in Nat
        BY ONLY <3>1, <4>1 DEF Read
      <4> QED
        BY <4>2 DEF Bounds
    <3> HIDE DEF EchoInv
    <3> QED
      BY <3>1, <3>2
  <2> QED
    BY <2>1 DEF TypeOK, EchoTypes, Bounds
<1> QED
  BY EchoCorrect, <1>1, PTL

\* A client gets back what it sent.
THEOREM EchoExactly == Spec => []EchoExact
<1>1. EchoInv => EchoExact
  <2> SUFFICES ASSUME EchoInv, NEW c \in Clients
               PROVE  echo[c] = [i \in 1 .. Len(echo[c]) |-> <<c, i>>]
    BY DEF EchoExact
  <2>1. echo[c] = Run(c, 0, Len(echo[c])) /\ Len(echo[c]) \in Nat
    BY DEF EchoInv, EchoTypes, Exact
  <2>2. \A n \in Nat : Run(c, 0, n) = [i \in 1 .. n |-> <<c, i>>]
    BY DEF Run
  <2> QED
    BY <2>1, <2>2
<1> QED
  BY EchoCorrect, <1>1, PTL

\* con_clients counts the open connections of go2 until it is stuck.
THEOREM EchoCount == Spec => []CountTruthful
<1>1. EchoInv /\ GoInv => CountTruthful
  <2> SUFFICES ASSUME EchoTypes, GoInv, server = "go2"
               PROVE  /\ con_clients = Cardinality({c \in Clients : Open(c)}) - loops
                      /\ con_clients <= 1
                      /\ Stuck => con_clients <= 0
                      /\ ~Stuck => loops = 0
    BY DEF CountTruthful, EchoInv
  <2>0. loops \in Nat
    BY DEF EchoTypes
  <2>1. CASE cur # None /\ Open(cur)
    <3>1. {c \in Clients : Open(c)} = {cur} /\ ~Stuck
      BY <2>1 DEF GoInv, EchoTypes, Stuck, Open
    <3>2. Cardinality({c \in Clients : Open(c)}) = 1
      BY <3>1, FS_Singleton
    <3> QED
      BY <2>0, <2>1, <3>1, <3>2 DEF GoInv
  <2>2. CASE ~(cur # None /\ Open(cur))
    <3>1. {c \in Clients : Open(c)} = {}
      BY <2>2 DEF GoInv, EchoTypes, EchoAssumption
    <3>2. Cardinality({c \in Clients : Open(c)}) = 0
      BY <3>1, FS_EmptySet
    <3> QED
      BY <2>0, <2>2, <3>2 DEF GoInv
  <2> QED
    BY <2>1, <2>2
<1> QED
  BY EchoCorrect, <1>1, PTL

\* Only a client that left with some of its echo not received gets go2 stuck.
THEOREM EchoBlocked == Spec => []OnlyCarelessBlock
<1>1. EchoInv /\ GoInv => OnlyCarelessBlock
  <2> SUFFICES ASSUME EchoInv, GoInv, Stuck PROVE cur \in gone /\ got[cur] < sent[cur]
    BY DEF OnlyCarelessBlock
  <2>1. cur \in Clients /\ cur \in broken
    BY DEF Stuck, GoInv, EchoInv, EchoTypes
  <2> QED
    BY <2>1 DEF EchoInv, EchoTypes, Bounds
<1> QED
  BY EchoCorrect, <1>1, PTL
=============================================================================
