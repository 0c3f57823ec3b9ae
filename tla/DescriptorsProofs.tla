-------------------------- MODULE DescriptorsProofs --------------------------
(***************************************************************************)
(* Theorems about descriptors and events, for any number of connections    *)
(* and any interleaving of the server and the child it forks.              *)
(***************************************************************************)
EXTENDS Descriptors, TLAPS, FiniteSetTheorems, SequenceTheorems

USE DescriptorsAssumption

\* A connection has the same number wherever it is open, and no other has.
OneNumber ==
  \A p, q \in Procs, f, g \in Fds :
    table[p][f] # None /\ table[p][f] = table[q][g] => f = g

\* What is open has been accepted.
OnlyAccepted == \A p \in Procs, f \in Fds : table[p][f] # None => conn[table[p][f]] = "accepted"

\* The server runs; the child has nothing before it is forked and after it dies.
Lives ==
  /\ status[Main] = "loop"
  /\ status[Child] \in {"none", "gone"} => \A f \in Fds : table[Child][f] = None

\* The events of the listening socket are alike, and those of a connection name it.
ListenerEvents ==
  \A p \in Procs : \A e \in events[p] :
    IF e.fd = Listener THEN e.conn = None /\ e.op = {"READ"} ELSE e.conn \in Conns

\* What a process has in its hands, and what was lost, is of accepted connections;
\* the child has had nothing before it is forked.
Hands ==
  /\ \A p \in Procs : work[p].conn = None => work[p] = Idle
  /\ \A p \in Procs : work[p].conn # None => conn[work[p].conn] = "accepted"
  /\ \A l \in lost : conn[l.conn] = "accepted"
  /\ status[Child] = "none" =>
       /\ work[Child] = Idle /\ \A c \in Conns : out[Child][c] = <<>>
       /\ \A l \in lost : l.by = Main

TableInv == TypeOK /\ OneNumber /\ OnlyAccepted /\ Lives /\ Hands /\ WatchedWhileOpen
-----------------------------------------------------------------------------
\* Descriptors are numbers.
LEMMA FdsType == Fds \subseteq Nat
<1>1. Cardinality(Conns) \in Nat
  BY FS_CardinalityType
<1> QED
  BY <1>1 DEF Fds

\* What is left of a sequence after its first r members.
LEMMA RestOf ==
  ASSUME NEW s \in Seq(Commands), NEW r \in Nat, r <= Len(s)
  PROVE  /\ Len(SubSeq(s, r + 1, Len(s))) = Len(s) - r
         /\ SubSeq(s, r + 1, Len(s)) # <<>> <=> r < Len(s)
<1>1. /\ Len(SubSeq(s, r + 1, Len(s))) = Len(s) - r
      /\ SubSeq(s, r + 1, Len(s)) \in Seq(Commands)
  OBVIOUS
<1>2. SubSeq(s, r + 1, Len(s)) # <<>> <=> Len(SubSeq(s, r + 1, Len(s))) # 0
  BY <1>1, EmptySeq
<1> QED
  BY <1>1, <1>2

\* The commands not read yet are as many as the counts say.
LEMMA UnreadIs ==
  ASSUME TypeOK, NEW c \in Conns
  PROVE  /\ Len(Unread(c)) = Len(asked[c]) - read[c]
         /\ Unread(c) # <<>> <=> read[c] < Len(asked[c])
<1>1. asked[c] \in Seq(Commands) /\ read[c] \in Nat /\ read[c] <= Len(asked[c])
  BY DEF TypeOK
<1> QED
  BY <1>1, RestOf DEF Unread

\* The numbers of the commands not read yet.
LEMMA NumbersAre ==
  ASSUME TypeOK, NEW c \in Conns
  PROVE  /\ Numbers(c) \in Seq(Nat) /\ Len(Numbers(c)) = Len(asked[c]) - read[c]
         /\ \A i \in 1 .. Len(asked[c]) - read[c] : Numbers(c)[i] = read[c] + i
         /\ ToSet(Numbers(c)) = read[c] + 1 .. Len(asked[c])
<1>1. asked[c] \in Seq(Commands) /\ read[c] \in Nat /\ read[c] <= Len(asked[c])
  BY DEF TypeOK
<1> DEFINE m == Len(asked[c]) - read[c]
<1>2. m \in Nat /\ Len(asked[c]) = read[c] + m
  BY <1>1
<1>3. Numbers(c) \in Seq(Nat) /\ Len(Numbers(c)) = m /\ DOMAIN Numbers(c) = 1 .. m
      /\ \A i \in 1 .. m : Numbers(c)[i] = read[c] + i
  <2>1. Numbers(c) = [i \in 1 .. m |-> read[c] + i]
    BY DEF Numbers
  <2> HIDE DEF m
  <2> QED
    BY <1>1, <1>2, <2>1
<1> HIDE DEF m
<1>4. ToSet(Numbers(c)) = {read[c] + i : i \in 1 .. m}
  BY <1>3 DEF ToSet
<1>5. \A n \in read[c] + 1 .. read[c] + m : n - read[c] \in 1 .. m /\ n = read[c] + (n - read[c])
  BY <1>1, <1>2
<1>6. {read[c] + i : i \in 1 .. m} = read[c] + 1 .. read[c] + m
  <2>1. \A i \in 1 .. m : read[c] + i \in read[c] + 1 .. read[c] + m
    BY <1>1, <1>2
  <2> QED
    BY <1>5, <2>1
<1> QED
  BY <1>2, <1>3, <1>4, <1>6 DEF m

\* Every event Poll returns is a read, of the listening socket while somebody
\* waits there, or of an open connection that is ready.
LEMMA ReadyEvents ==
  ASSUME TableInv, NEW e \in Ready
  PROVE  /\ e \in Events /\ e.op = {"READ"}
         /\ \/ e.fd = Listener /\ e.conn = None /\ Backlog # {}
            \/ /\ e.fd \in Fds /\ e.conn \in Conns
               /\ \E p \in Procs : table[p][e.fd] = e.conn
               /\ Unread(e.conn) # <<>> \/ e.conn \in hung
<1>1. Subscribed = {"IN"}
  BY DEF Subscribed, toNative
<1>2. CASE e = newEvent(Listener, None, Subscribed) /\ Backlog # {}
  BY <1>1, <1>2 DEF newEvent, newOperations, Events
<1>3. CASE \E s \in subs : Native(s[2]) # {} /\ e = newEvent(s[1], s[2], Native(s[2]))
  <2>1. PICK s \in subs : Native(s[2]) # {} /\ e = newEvent(s[1], s[2], Native(s[2]))
    BY <1>3
  <2>2. s[1] \in Fds /\ s[2] \in Conns /\ \E p \in Procs : table[p][s[1]] = s[2]
    BY DEF TableInv, WatchedWhileOpen
  <2>3. Unread(s[2]) # <<>> \/ s[2] \in hung
    BY <2>1, <1>1 DEF Native
  <2>4. Native(s[2]) \in {{"IN"}, {"IN", "HUP"}}
    BY <2>3, <1>1 DEF Native
  <2>5. newOperations(Native(s[2])) = {"READ"}
    BY <2>4 DEF newOperations
  <2> QED
    BY <2>1, <2>2, <2>3, <2>5 DEF newEvent, Events
<1> QED
  BY <1>2, <1>3 DEF Ready
-----------------------------------------------------------------------------
\* The invariant holds at first.
LEMMA TableInit == Init => TableInv
<1> SUFFICES ASSUME Init PROVE TableInv
  OBVIOUS
<1>1. TypeOK
  BY DEF Init, Idle, TypeOK, Procs
<1>2. OneNumber /\ OnlyAccepted /\ Lives /\ Hands /\ WatchedWhileOpen
  BY DEF Init, OneNumber, OnlyAccepted, Lives, Hands, Idle, WatchedWhileOpen, Procs
<1> QED
  BY <1>1, <1>2 DEF TableInv

\* A sequence of numbers without its i-th.
LEMMA Removed ==
  ASSUME NEW s \in Seq(Nat), NEW i \in 1 .. Len(s)
  PROVE  /\ RemoveAt(s, i) \in Seq(Nat) /\ Len(RemoveAt(s, i)) = Len(s) - 1
         /\ \A j \in 1 .. Len(s) - 1 :
              RemoveAt(s, i)[j] = IF j < i THEN s[j] ELSE s[j + 1]
         /\ ToSet(RemoveAt(s, i)) \subseteq ToSet(s) /\ ToSet(RemoveAt(s, i)) \subseteq Nat
<1> DEFINE r == RemoveAt(s, i)
<1> DEFINE a == SubSeq(s, 1, i - 1)
           b == SubSeq(s, i + 1, Len(s))
           n == Len(s)
<1>a. r = a \o b
  BY DEF RemoveAt
<1>b. n \in Nat /\ i \in 1 .. n /\ \A j \in 1 .. n : s[j] \in Nat
  OBVIOUS
<1>c. a \in Seq(Nat) /\ Len(a) = i - 1 /\ \A j \in 1 .. i - 1 : a[j] = s[j]
  OBVIOUS
<1>d. b \in Seq(Nat) /\ Len(b) = n - i /\ \A j \in 1 .. n - i : b[j] = s[i + j]
  OBVIOUS
<1> HIDE DEF a, b, r
<1>e. /\ a \o b \in Seq(Nat) /\ Len(a \o b) = Len(a) + Len(b)
      /\ \A j \in 1 .. Len(a) + Len(b) : (a \o b)[j] = IF j <= Len(a) THEN a[j] ELSE b[j - Len(a)]
  BY <1>c, <1>d, ConcatProperties
<1> HIDE DEF n
<1>f. (i - 1) + (n - i) = n - 1
  BY <1>b
<1>1. /\ r \in Seq(Nat) /\ Len(r) = n - 1
      /\ \A j \in 1 .. n - 1 : r[j] = IF j <= i - 1 THEN a[j] ELSE b[j - (i - 1)]
  BY <1>a, <1>c, <1>d, <1>e, <1>f
<1>2. r \in Seq(Nat) /\ Len(r) = Len(s) - 1
  BY <1>1 DEF n
<1>g. ASSUME NEW j \in 1 .. n - 1 PROVE r[j] = IF j < i THEN s[j] ELSE s[j + 1]
  <2>1. CASE j < i
    <3>1. j \in 1 .. i - 1 /\ j <= i - 1
      BY <1>b, <2>1
    <3> QED
      BY <1>1, <1>c, <2>1, <3>1
  <2>2. CASE ~(j < i)
    <3>1. j - (i - 1) \in 1 .. n - i /\ ~(j <= i - 1) /\ i + (j - (i - 1)) = j + 1
      BY <1>b, <2>2
    <3>2. r[j] = b[j - (i - 1)] /\ b[j - (i - 1)] = s[i + (j - (i - 1))]
      BY <1>1, <1>d, <3>1
    <3> QED
      BY <2>2, <3>1, <3>2
  <2> QED
    BY <2>1, <2>2
<1>3. ASSUME NEW j \in 1 .. Len(s) - 1 PROVE r[j] = IF j < i THEN s[j] ELSE s[j + 1]
  BY <1>g DEF n
<1>4. DOMAIN r = 1 .. Len(s) - 1 /\ DOMAIN s = 1 .. Len(s) /\ Len(s) \in Nat
  BY <1>2
<1>5. \A j \in DOMAIN r : \E l \in DOMAIN s : r[j] = s[l]
  <2>1. \A j \in 1 .. Len(s) - 1 : j \in 1 .. Len(s) /\ j + 1 \in 1 .. Len(s)
    BY <1>4
  <2> QED
    BY <1>3, <1>4, <2>1
<1>6. ToSet(r) \subseteq ToSet(s) /\ ToSet(r) \subseteq Nat
  BY <1>2, <1>5 DEF ToSet
<1> QED
  BY <1>2, <1>3, <1>6 DEF r

\* What a process takes from a connection is a batch of numbers.
LEMMA ReadType ==
  ASSUME TypeOK, NEW p \in Procs, NEW e, Read(p, e)
  PROVE  /\ work' \in [Procs -> [conn : Conns \cup {None}, cmds : Seq(Nat)]]
         /\ read' \in [Conns -> Nat] /\ \A d \in Conns : read'[d] <= Len(asked[d])
<1>1. PICK c \in Conns : Take(p, c) /\ read' = [read EXCEPT ![c] = Len(asked[c])]
  BY DEF Read
<1>2. Numbers(c) \in Seq(Nat)
  BY NumbersAre
<1>3. work' = [work EXCEPT ![p] = [conn |-> c, cmds |-> Numbers(c)]]
  BY <1>1 DEF Take
<1> QED
  BY <1>1, <1>2, <1>3 DEF TypeOK

\* What is lost is named.
LEMMA LosingType ==
  ASSUME TypeOK, NEW p \in Procs, NEW c \in Conns, NEW N \in SUBSET Nat, NEW w \in Causes,
         Losing(p, c, N, w)
  PROVE  lost' \subseteq [by : Procs, conn : Conns, n : Nat, why : Causes]
BY DEF Losing, TypeOK

\* The members of a sequence of numbers are numbers.
LEMMA ToSetType ==
  ASSUME NEW s \in Seq(Nat)
  PROVE  ToSet(s) \subseteq Nat
BY DEF ToSet

\* A batch in the hands of a process is one of a connection.
LEMMA InHands ==
  ASSUME TypeOK, Hands, NEW p \in Procs, work[p] # Idle
  PROVE  work[p].conn \in Conns /\ work[p].cmds \in Seq(Nat)
BY DEF TypeOK, Hands

\* The event handled was polled, and is gone.
LEMMA HandleType ==
  ASSUME TypeOK, NEW p \in Procs, NEW e, Handle(p, e)
  PROVE  e \in Events /\ events' \in [Procs -> SUBSET Events]
<1>1. e \in Events
  BY DEF Handle, TypeOK
<1>2. events[p] \ {e} \in SUBSET Events
  BY DEF TypeOK
<1> QED
  BY <1>1, <1>2 DEF Handle, TypeOK

\* Every step keeps the types.
LEMMA TypeStep ==
  ASSUME TableInv, [Next]_vars
  PROVE  TypeOK'
<1> USE DEF TableInv, clientVars, batchVars
<1>1. CASE \E c \in Conns : Connect(c) \/ HangUp(c)
  BY <1>1 DEF Connect, HangUp, TypeOK
<1>2. CASE \E c \in Conns, cmd \in Commands : SendCommand(c, cmd)
  <2>1. PICK c \in Conns, cmd \in Commands : SendCommand(c, cmd)
    BY <1>2
  <2>2. asked[c] \in Seq(Commands) /\ asked' = [asked EXCEPT ![c] = Append(asked[c], cmd)]
    BY <2>1 DEF SendCommand, TypeOK
  <2>3. /\ Append(asked[c], cmd) \in Seq(Commands)
        /\ Len(Append(asked[c], cmd)) = Len(asked[c]) + 1
    BY <2>2
  <2>4. asked' \in [Conns -> Seq(Commands)]
    BY <2>2, <2>3 DEF TypeOK
  <2>5. \A d \in Conns : Len(asked[d]) \in Nat /\ Len(asked[d]) <= Len(asked'[d])
    BY <2>2, <2>3 DEF TypeOK
  <2>6. \A d \in Conns : read[d] <= Len(asked'[d])
    BY <2>4, <2>5 DEF TypeOK
  <2> QED
    BY <2>1, <2>4, <2>6 DEF SendCommand, TypeOK
<1>3. ASSUME NEW p \in Procs, Poll(p) PROVE TypeOK'
  <2>1. Ready \subseteq Events
    BY ReadyEvents
  <2> QED
    BY <1>3, <2>1 DEF Poll, TypeOK
<1>4. ASSUME NEW p \in Procs, NEW e, Accept(p, e) PROVE TypeOK'
  BY <1>4 DEF Accept, Handle, Backlog, TypeOK
<1>5. ASSUME NEW p \in Procs, NEW e, AcceptFails(p, e) \/ Skip(p, e) PROVE TypeOK'
  <2>1. Handle(p, e)
    BY <1>5 DEF AcceptFails, Skip
  <2>2. UNCHANGED <<clientVars, batchVars, status, table, subs>>
    BY <1>5 DEF AcceptFails, Skip
  <2> QED
    BY <2>1, <2>2, HandleType DEF TypeOK
<1>6. ASSUME NEW p \in Procs, NEW e, Read(p, e) PROVE TypeOK'
  <2>1. Handle(p, e) /\ UNCHANGED <<clientVars, out, lost, shared, status, table, subs>>
    BY <1>6 DEF Read
  <2> QED
    BY <1>6, <2>1, ReadType, HandleType DEF TypeOK
<1>7. ASSUME NEW i \in 1 .. Len(work[Main].cmds), Fork(i) PROVE TypeOK'
  <2>1. Main \in Procs /\ Child \in Procs
    BY DEF Procs
  <2>2. work[Main].cmds \in Seq(Nat)
    BY <2>1 DEF TypeOK
  <2>3. work[Main].conn \in Conns
    <3>1. work[Main] # Idle
      BY <2>2 DEF Idle
    <3> QED
      BY <2>1, <3>1, InHands
  <2>4. RemoveAt(work[Main].cmds, i) \in Seq(Nat)
        /\ ToSet(RemoveAt(work[Main].cmds, i)) \subseteq Nat
    BY <2>2, Removed
  <2> DEFINE r == RemoveAt(work[Main].cmds, i)
  <2>5. /\ work' = [work EXCEPT ![Child] = [work[Main] EXCEPT !.cmds = r]]
        /\ shared' = {<<work[Main].conn, n>> : n \in ToSet(r)}
        /\ UNCHANGED <<conn, hung, asked, read, out, lost, subs>>
    BY <1>7 DEF Fork, Forking
  <2> HIDE DEF r
  <2>6. r \in Seq(Nat) /\ ToSet(r) \subseteq Nat
    BY <2>4 DEF r
  <2>7. [work[Main] EXCEPT !.cmds = r] \in [conn : Conns \cup {None}, cmds : Seq(Nat)]
    <3>1. work[Main] \in [conn : Conns \cup {None}, cmds : Seq(Nat)]
      BY <2>1 DEF TypeOK
    <3> QED
      BY ONLY <3>1, <2>6
  <2>8. work' \in [Procs -> [conn : Conns \cup {None}, cmds : Seq(Nat)]]
    BY <2>5, <2>7 DEF TypeOK
  <2>9. shared' \subseteq Conns \X Nat
    BY <2>3, <2>5, <2>6
  <2>10. status' \in [Procs -> {"none", "loop", "dump", "gone"}]
         /\ table' \in [Procs -> [Fds -> Conns \cup {None}]]
         /\ events' \in [Procs -> SUBSET Events]
    BY <1>7, <2>1 DEF Fork, Forking, TypeOK
  <2> QED
    BY <2>5, <2>8, <2>9, <2>10 DEF TypeOK
<1>8. ASSUME NEW p \in Procs, NEW e, Drop(p, e) PROVE
        /\ UNCHANGED <<clientVars, work, out, shared, status>>
        /\ table' \in [Procs -> [Fds -> Conns \cup {None}]] /\ subs' \subseteq Fds \X Conns
        /\ events' \in [Procs -> SUBSET Events]
  BY <1>8 DEF Drop, Watched, Handle, TypeOK
<1>9. ASSUME NEW p \in Procs, NEW e, Close(p, e) PROVE TypeOK'
  <2>1. Drop(p, e) /\ UNCHANGED <<read, lost>>
    BY <1>9 DEF Close
  <2> QED
    BY <1>8, <2>1 DEF TypeOK
<1>10. ASSUME NEW p \in Procs, NEW e, Refuse(p, e) PROVE TypeOK'
  <2>1. PICK c \in Conns : /\ read' = [read EXCEPT ![c] = Len(asked[c])]
                           /\ Losing(p, c, ToSet(Numbers(c)), "undecodable")
    BY <1>10 DEF Refuse
  <2>2. ToSet(Numbers(c)) \in SUBSET Nat
    BY NumbersAre, ToSetType
  <2>3. lost' \subseteq [by : Procs, conn : Conns, n : Nat, why : Causes]
    BY <2>1, <2>2, LosingType DEF Causes
  <2>4. read' \in [Conns -> Nat] /\ \A d \in Conns : read'[d] <= Len(asked[d])
    BY <2>1 DEF TypeOK
  <2>5. Drop(p, e)
    BY <1>10 DEF Refuse
  <2> QED
    BY <1>8, <2>3, <2>4, <2>5 DEF TypeOK
<1>11. ASSUME NEW p \in Procs, Respond(p) PROVE TypeOK'
  <2>1. work[p].conn \in Conns /\ work[p].cmds \in Seq(Nat)
    BY <1>11, InHands, SMTT(30) DEF Respond
  <2> DEFINE c == work[p].conn
             t == work[p].cmds
  <2>2. PICK k \in 0 .. Len(t) : /\ out' = [out EXCEPT ![p][c] = @ \o SubSeq(t, 1, k)]
                                 /\ Losing(p, c, ToSet(SubSeq(t, k + 1, Len(t))), "refused")
    BY <1>11 DEF Respond
  <2>3. work' = [work EXCEPT ![p] = Idle]
        /\ UNCHANGED <<clientVars, read, shared, status, table, subs, events>>
    BY <1>11 DEF Respond
  <2> HIDE DEF c, t
  <2>4. c \in Conns /\ t \in Seq(Nat)
    BY <2>1 DEF c, t
  <2>5. SubSeq(t, 1, k) \in Seq(Nat) /\ SubSeq(t, k + 1, Len(t)) \in Seq(Nat)
    BY <2>4
  <2>6. out[p][c] \o SubSeq(t, 1, k) \in Seq(Nat)
    BY <2>4, <2>5 DEF TypeOK
  <2>7. out' \in [Procs -> [Conns -> Seq(Nat)]]
    BY <2>2, <2>4, <2>6 DEF TypeOK
  <2>8. lost' \subseteq [by : Procs, conn : Conns, n : Nat, why : Causes]
    BY <2>2, <2>4, <2>5, ToSetType, LosingType DEF Causes
  <2>9. Idle \in [conn : Conns \cup {None}, cmds : Seq(Nat)]
    BY DEF Idle
  <2> QED
    BY <2>3, <2>7, <2>8, <2>9 DEF TypeOK
<1>12. CASE DumpDone
  BY <1>12 DEF DumpDone, batchVars, TypeOK
<1>13. CASE Die
  <2>1. Child \in Procs /\ Main \in Procs
    BY DEF Procs
  <2>2. lost' \subseteq [by : Procs, conn : Conns, n : Nat, why : Causes]
    <3>1. Losing(Child, work[Child].conn, ToSet(work[Child].cmds), "killed")
      BY <1>13 DEF Die
    <3>2. CASE work[Child] = Idle
      <4>1. work[Child].cmds = <<>>
        BY <3>2 DEF Idle
      <4>2. ToSet(work[Child].cmds) = {}
        BY <4>1 DEF ToSet
      <4> QED
        BY <3>1, <4>2 DEF Losing, TypeOK
    <3>3. CASE work[Child] # Idle
      <4>1. work[Child].conn \in Conns /\ ToSet(work[Child].cmds) \in SUBSET Nat
        BY <2>1, <3>3, InHands, ToSetType
      <4> QED
        BY <2>1, <3>1, <4>1, LosingType DEF Causes
    <3> QED
      BY <3>2, <3>3
  <2>3. work' \in [Procs -> [conn : Conns \cup {None}, cmds : Seq(Nat)]]
    BY <1>13, <2>1 DEF Die, Idle, TypeOK
  <2>4. /\ status' \in [Procs -> {"none", "loop", "dump", "gone"}]
        /\ table' \in [Procs -> [Fds -> Conns \cup {None}]] /\ subs' \subseteq Fds \X Conns
        /\ events' \in [Procs -> SUBSET Events] /\ UNCHANGED <<clientVars, read, out, shared>>
    BY <1>13, <2>1 DEF Die, Watched, TypeOK
  <2> QED
    BY <2>2, <2>3, <2>4 DEF TypeOK
<1>14. CASE UNCHANGED vars
  BY <1>14 DEF vars, TypeOK
<1> QED
  BY <1>1, <1>2, <1>3, <1>4, <1>5, <1>6, <1>7, <1>9, <1>10, <1>11, <1>12, <1>13, <1>14
  DEF Next, Loop
-----------------------------------------------------------------------------
\* Descriptors are only closed: what stays open is still watched under its only
\* number, and nothing else is.
LEMMA ClosedOnly ==
  ASSUME TableInv, TypeOK', conn' = conn, subs' = Watched(table'),
         \A p \in Procs, f \in Fds : table'[p][f] \in {None, table[p][f]}
  PROVE  (OneNumber /\ OnlyAccepted /\ WatchedWhileOpen)'
<1> USE DEF TableInv
<1>1. OneNumber'
  BY DEF OneNumber
<1>2. OnlyAccepted'
  BY DEF OnlyAccepted
<1>3. ASSUME NEW s \in subs'
      PROVE  s \in Fds \X Conns /\ \E p \in Procs : table'[p][s[1]] = s[2]
  <2>1. s \in subs /\ s \in Fds \X Conns
    BY <1>3 DEF Watched, TypeOK
  <2>2. PICK p \in Procs, f \in Fds : table'[p][f] = s[2]
    BY <1>3 DEF Watched
  <2>3. s[1] \in Fds /\ s[2] # None /\ table[p][f] = s[2]
    BY <2>1, <2>2
  <2>4. PICK q \in Procs : table[q][s[1]] = s[2]
    BY <2>1 DEF WatchedWhileOpen
  <2>5. f = s[1]
    BY <2>3, <2>4 DEF OneNumber
  <2> QED
    BY <2>1, <2>2, <2>5
<1>4. ASSUME NEW s \in Fds \X Conns, \E p \in Procs : table'[p][s[1]] = s[2]
      PROVE  s \in subs'
  <2>1. PICK p \in Procs : table'[p][s[1]] = s[2]
    BY <1>4
  <2>2. s[1] \in Fds /\ s[2] # None
    OBVIOUS
  <2>3. table[p][s[1]] = s[2]
    BY <2>1, <2>2
  <2>4. s \in subs
    BY <2>3 DEF WatchedWhileOpen
  <2> QED
    BY <2>1, <2>2, <2>4 DEF Watched
<1> QED
  BY <1>1, <1>2, <1>3, <1>4 DEF WatchedWhileOpen

Opened == OneNumber /\ OnlyAccepted /\ Lives /\ WatchedWhileOpen

\* A step that opens, closes and forks nothing.
LEMMA NothingOpened ==
  ASSUME TableInv, TypeOK', UNCHANGED <<conn, status, table, subs>>
  PROVE  Opened'
BY DEF TableInv, Opened, OneNumber, OnlyAccepted, Lives, WatchedWhileOpen

\* A new connection is open nowhere else, and gets a number that is free.
LEMMA AcceptTable ==
  ASSUME TableInv, TypeOK', NEW p \in Procs, NEW e, Accept(p, e)
  PROVE  Opened'
<1> USE DEF TableInv, Opened
<1>1. PICK c \in Backlog, fd \in Fds :
        /\ table[p][fd] = None
        /\ conn' = [conn EXCEPT ![c] = "accepted"]
        /\ table' = [table EXCEPT ![p][fd] = c]
        /\ subs' = subs \cup {<<fd, c>>}
  BY DEF Accept, LowestFree
<1>2. c \in Conns /\ conn[c] = "backlog"
  BY DEF Backlog
<1>3. \A q \in Procs, f \in Fds : table[q][f] # c
  BY <1>2 DEF OnlyAccepted
<1>4. \A q \in Procs, f \in Fds :
        table'[q][f] = IF q = p /\ f = fd THEN c ELSE table[q][f]
  BY <1>1 DEF TypeOK
<1>5. OneNumber'
  BY <1>3, <1>4 DEF OneNumber
<1>6. \A d \in Conns : conn[d] = "accepted" => conn'[d] = "accepted"
  BY <1>1 DEF TypeOK
<1>7. conn'[c] = "accepted"
  BY <1>1, <1>2 DEF TypeOK
<1>8. \A q \in Procs, f \in Fds : table[q][f] \in Conns \cup {None}
  BY DEF TypeOK
<1>9. OnlyAccepted'
  BY <1>4, <1>6, <1>7, <1>8 DEF OnlyAccepted
<1>10. Lives'
  <2>1. p # Child \/ status[Child] = "loop"
    BY DEF Accept, Handle, Free
  <2>2. Child \in Procs /\ status' = status
    BY DEF Accept, Procs
  <2> QED
    BY <1>4, <2>1, <2>2 DEF Lives
<1>11. WatchedWhileOpen'
  <2>1. ASSUME NEW f \in Fds, NEW d \in Conns
        PROVE  <<f, d>> \in subs' <=> \E q \in Procs : table'[q][f] = d
    <3>1. <<f, d>> \in subs <=> \E q \in Procs : table[q][f] = d
      BY DEF WatchedWhileOpen
    <3>2. CASE f = fd /\ d = c
      BY <3>2, <1>1, <1>4
    <3>3. CASE ~(f = fd /\ d = c)
      <4>1. <<f, d>> \in subs' <=> <<f, d>> \in subs
        BY <3>3, <1>1
      <4>2. \A q \in Procs : table'[q][f] = d <=> table[q][f] = d
        BY <3>3, <1>1, <1>4, d # None
      <4> QED
        BY <3>1, <4>1, <4>2
    <3> QED
      BY <3>2, <3>3
  <2>2. subs' \subseteq Fds \X Conns
    BY DEF TypeOK
  <2> QED
    BY <2>1, <2>2 DEF WatchedWhileOpen
<1> QED
  BY <1>5, <1>9, <1>10, <1>11

\* The child gets the numbers the server has.
LEMMA ForkTable ==
  ASSUME TableInv, TypeOK', NEW i, Fork(i)
  PROVE  Opened'
<1> USE DEF TableInv, Opened, Fork
<1>1. \A f \in Fds : table[Child][f] = None
  BY DEF Forking, Lives
<1>2. \A p \in Procs : table'[p] = table[Main]
  BY DEF Forking, TypeOK, Procs
<1>3. Main \in Procs /\ subs' = subs /\ conn' = conn
  BY DEF Forking, clientVars, Procs
<1>4. OneNumber'
  BY <1>2, <1>3 DEF OneNumber
<1>5. OnlyAccepted'
  BY <1>2, <1>3 DEF OnlyAccepted
<1>6. status'[Main] = "loop" /\ status'[Child] = "dump"
  BY DEF Forking, TypeOK, Procs
<1>8. Lives'
  BY <1>6 DEF Lives
<1>9. \A s \in Fds \X Conns :
        (\E p \in Procs : table'[p][s[1]] = s[2]) <=> (\E p \in Procs : table[p][s[1]] = s[2])
  <2>1. SUFFICES ASSUME NEW s \in Fds \X Conns
                 PROVE  (\E p \in Procs : table[p][s[1]] = s[2]) => table[Main][s[1]] = s[2]
    BY <1>2, <1>3
  <2>2. s[1] \in Fds /\ s[2] # None
    OBVIOUS
  <2> QED
    BY <1>1, <2>2 DEF Procs
<1>10. WatchedWhileOpen'
  BY <1>3, <1>9 DEF WatchedWhileOpen
<1> QED
  BY <1>4, <1>5, <1>8, <1>10

\* Tables and subscriptions go on agreeing.
LEMMA OpenedStep ==
  ASSUME TableInv, [Next]_vars, TypeOK'
  PROVE  Opened'
<1>1. ASSUME NEW c \in Conns, Connect(c) PROVE Opened'
  <2>1. \A d \in Conns : conn[d] = "accepted" => conn'[d] = "accepted"
    BY <1>1 DEF Connect, TableInv, TypeOK
  <2>2. UNCHANGED <<status, table, subs>>
    BY <1>1 DEF Connect
  <2>3. OnlyAccepted'
    BY <2>1, <2>2, SMTT(30) DEF OnlyAccepted, TableInv, TypeOK
  <2> QED
    BY <2>2, <2>3 DEF TableInv, Opened, OneNumber, Lives, WatchedWhileOpen
<1>2. ASSUME NEW c \in Conns, HangUp(c) \/ \E cmd \in Commands : SendCommand(c, cmd)
      PROVE  Opened'
  BY <1>2, NothingOpened DEF HangUp, SendCommand
<1>3. ASSUME NEW p \in Procs, Poll(p) \/ Respond(p) PROVE Opened'
  BY <1>3, NothingOpened DEF Poll, Respond, clientVars
<1>4. ASSUME NEW p \in Procs, NEW e, Accept(p, e) PROVE Opened'
  BY <1>4, AcceptTable
<1>5. ASSUME NEW p \in Procs, NEW e, AcceptFails(p, e) \/ Skip(p, e) \/ Read(p, e)
      PROVE  Opened'
  BY <1>5, NothingOpened DEF AcceptFails, Skip, Read, clientVars
<1>6. ASSUME NEW i, Fork(i) PROVE Opened'
  BY <1>6, ForkTable
<1>7. ASSUME NEW p \in Procs, NEW e, Close(p, e) \/ Refuse(p, e) PROVE Opened'
  <2>0. Drop(p, e)
    BY <1>7 DEF Close, Refuse
  <2>1. /\ conn' = conn /\ status' = status /\ subs' = Watched(table')
        /\ table' = [table EXCEPT ![p][e.fd] = None]
    BY <2>0 DEF Drop, clientVars
  <2>2. \A q \in Procs, f \in Fds : table'[q][f] \in {None, table[q][f]}
    BY <2>1 DEF TableInv, TypeOK
  <2>3. (OneNumber /\ OnlyAccepted /\ WatchedWhileOpen)'
    BY <2>1, <2>2, ClosedOnly
  <2>4. Lives'
    BY <2>1, <2>2 DEF TableInv, Lives, Procs
  <2> QED
    BY <2>3, <2>4 DEF Opened
<1>8. CASE DumpDone
  <2>1. UNCHANGED <<conn, table, subs>>
    BY <1>8 DEF DumpDone, clientVars
  <2>2. status'[Main] = "loop" /\ status'[Child] = "loop"
    BY <1>8 DEF DumpDone, TableInv, TypeOK, Lives, Procs
  <2> QED
    BY <2>1, <2>2 DEF TableInv, Opened, OneNumber, OnlyAccepted, Lives, WatchedWhileOpen
<1>9. CASE Die
  <2>1. /\ conn' = conn /\ subs' = Watched(table')
        /\ table' = [table EXCEPT ![Child] = [fd \in Fds |-> None]]
    BY <1>9 DEF Die, clientVars
  <2>2. \A q \in Procs, f \in Fds : table'[q][f] = IF q = Child THEN None ELSE table[q][f]
    BY <2>1 DEF TableInv, TypeOK
  <2>3. (OneNumber /\ OnlyAccepted /\ WatchedWhileOpen)'
    BY <2>1, <2>2, ClosedOnly
  <2>4. status'[Main] = "loop" /\ status'[Child] = "gone"
    BY <1>9 DEF Die, TableInv, TypeOK, Lives, Procs
  <2>5. Lives'
    BY <2>1, <2>2, <2>4 DEF TableInv, Lives, Procs
  <2> QED
    BY <2>3, <2>5 DEF Opened
<1>10. CASE UNCHANGED vars
  BY <1>10, NothingOpened DEF vars
<1> QED
  BY <1>1, <1>2, <1>3, <1>4, <1>5, <1>6, <1>7, <1>8, <1>9, <1>10 DEF Next, Loop
-----------------------------------------------------------------------------
\* What is accepted stays so, and only the fork begins the child.
LEMMA Stays ==
  ASSUME TableInv, [Next]_vars
  PROVE  /\ \A c \in Conns : conn[c] = "accepted" => conn'[c] = "accepted"
         /\ status'[Child] = "none" <=> status[Child] = "none" /\ ~\E i \in 1 .. Len(work[Main].cmds) : Fork(i)
         /\ status[Child] = "gone" => status'[Child] = "gone"
<1> USE DEF TableInv, TypeOK
<1>0. Child \in Procs /\ Main \in Procs /\ Main # Child
  BY DEF Procs
<1>1. CASE \E i \in 1 .. Len(work[Main].cmds) : Fork(i)
  <2>1. conn' = conn /\ status[Child] = "none" /\ status' = [status EXCEPT ![Child] = "dump"]
    BY <1>1 DEF Fork, Forking, clientVars
  <2> QED
    BY <1>0, <1>1, <2>1
<1>2. CASE DumpDone
  <2>1. conn' = conn /\ status[Child] = "dump" /\ status' = [status EXCEPT ![Child] = "loop"]
    BY <1>2 DEF DumpDone, clientVars
  <2> QED
    BY <1>0, <2>1 DEF Fork, Forking
<1>3. CASE Die
  <2>1. conn' = conn /\ status[Child] \in {"dump", "loop"} /\ status' = [status EXCEPT ![Child] = "gone"]
    BY <1>3 DEF Die, clientVars
  <2> QED
    BY <1>0, <2>1 DEF Fork, Forking
<1>4. ASSUME status' = status, \A c \in Conns : conn[c] = "accepted" => conn'[c] = "accepted"
      PROVE  /\ status'[Child] = "none" <=> status[Child] = "none" /\ ~\E i \in 1 .. Len(work[Main].cmds) : Fork(i)
             /\ status[Child] = "gone" => status'[Child] = "gone"
  <2>1. ASSUME NEW i, Fork(i) PROVE FALSE
    <3>1. status[Child] = "none" /\ status' = [status EXCEPT ![Child] = "dump"]
      BY <2>1 DEF Fork, Forking
    <3> QED
      BY <1>0, <1>4, <3>1
  <2> QED
    BY <1>4, <2>1
<1>5. CASE \E c \in Conns : Connect(c) \/ HangUp(c) \/ \E cmd \in Commands : SendCommand(c, cmd)
  <2>1. status' = status /\ \A c \in Conns : conn[c] = "accepted" => conn'[c] = "accepted"
    BY <1>5, ZenonT(60) DEF Connect, HangUp, SendCommand
  <2> QED
    BY <1>4, <2>1
<1>6. ASSUME NEW p \in Procs, NEW e,
             Poll(p) \/ Respond(p) \/ AcceptFails(p, e) \/ Skip(p, e) \/ Read(p, e) \/ Drop(p, e)
      PROVE  status' = status /\ conn' = conn
  BY <1>6 DEF Poll, Respond, AcceptFails, Skip, Read, Drop, clientVars
<1>7. ASSUME NEW p \in Procs, NEW e, Accept(p, e)
      PROVE  status' = status /\ \A c \in Conns : conn[c] = "accepted" => conn'[c] = "accepted"
  BY <1>7 DEF Accept
<1>8. CASE \E p \in Procs : \/ Poll(p) \/ Respond(p)
                            \/ \E e \in events[p] : \/ Accept(p, e) \/ AcceptFails(p, e) \/ Skip(p, e)
                                                    \/ Read(p, e) \/ Close(p, e) \/ Refuse(p, e)
  <2>1. status' = status /\ \A c \in Conns : conn[c] = "accepted" => conn'[c] = "accepted"
    BY <1>6, <1>7, <1>8 DEF Close, Refuse
  <2> QED
    BY <1>4, <2>1
<1>9. CASE UNCHANGED vars
  BY <1>4, <1>9 DEF vars
<1> QED
  BY <1>1, <1>2, <1>3, <1>5, <1>8, <1>9 DEF Next, Loop

\* A step that takes nothing in hand, finishes nothing and loses nothing.
LEMMA NothingHandled ==
  ASSUME TableInv, [Next]_vars, UNCHANGED <<work, out, lost>>
  PROVE  Hands'
<1>1. \A l \in lost : l.conn \in Conns
  BY DEF TableInv, TypeOK
<1>2. \A p \in Procs : work[p].conn \in Conns \cup {None}
  BY DEF TableInv, TypeOK
<1>3. \A c \in Conns : conn[c] = "accepted" => conn'[c] = "accepted"
  BY Stays
<1>4. status'[Child] = "none" => status[Child] = "none"
  BY Stays
<1> QED
  BY <1>1, <1>2, <1>3, <1>4 DEF Hands, TableInv

\* Hands are filled by reading, emptied by answering and by death.
LEMMA HandsStep ==
  ASSUME TableInv, [Next]_vars, TypeOK'
  PROVE  Hands'
<1> USE DEF TableInv
<1>0. Child \in Procs /\ Main \in Procs /\ Main # Child
  BY DEF Procs
<1>1. ASSUME NEW l \in lost PROVE l.conn \in Conns /\ conn'[l.conn] = "accepted"
  BY Stays DEF Hands, TypeOK
<1>2. ASSUME NEW p \in Procs, work[p].conn # None
      PROVE  work[p].conn \in Conns /\ conn'[work[p].conn] = "accepted"
  BY <1>2, Stays, ZenonT(60) DEF Hands, TypeOK
<1>3. ASSUME NEW p \in Procs, NEW e, Read(p, e) PROVE Hands'
  <2>1. PICK c \in Conns : c = table[p][e.fd] /\ Take(p, c)
    BY <1>3 DEF Read
  <2>2. conn[c] = "accepted"
    <3>1. e.fd \in Fds
      BY <1>3 DEF Read, Handle, TypeOK, Events
    <3> QED
      BY <2>1, <3>1 DEF OnlyAccepted
  <2>3. work' = [work EXCEPT ![p] = [conn |-> c, cmds |-> Numbers(c)]]
    BY <2>1 DEF Take
  <2>4. \A q \in Procs : work'[q] = IF q = p THEN [conn |-> c, cmds |-> Numbers(c)] ELSE work[q]
    BY <2>3 DEF TypeOK
  <2>5. UNCHANGED <<conn, out, lost, status>>
    BY <1>3 DEF Read, clientVars
  <2>6. c # None
    OBVIOUS
  <2>7. status[Child] = "none" => p # Child
    BY <1>3 DEF Read, Handle, Free
  <2> QED
    BY <1>0, <2>2, <2>4, <2>5, <2>6, <2>7 DEF Hands
<1>4. ASSUME NEW i \in 1 .. Len(work[Main].cmds), Fork(i) PROVE Hands'
  <2> DEFINE b == [work[Main] EXCEPT !.cmds = RemoveAt(@, i)]
  <2>1. /\ work' = [work EXCEPT ![Child] = b] /\ UNCHANGED <<conn, out, lost>>
        /\ status' = [status EXCEPT ![Child] = "dump"]
    BY <1>4 DEF Fork, Forking, clientVars
  <2>2. work[Main].conn \in Conns /\ work[Main].cmds \in Seq(Nat)
    <3>1. work[Main] # Idle
      BY <1>4 DEF Idle
    <3> QED
      BY <1>0, <3>1, InHands
  <2>3. b.conn = work[Main].conn
    BY <1>0 DEF TypeOK
  <2> HIDE DEF b
  <2>4. \A q \in Procs : work'[q] = IF q = Child THEN b ELSE work[q]
    BY <2>1 DEF TypeOK
  <2>5. status'[Child] = "dump" /\ work[Main].conn # None /\ conn[work[Main].conn] = "accepted"
    BY <1>0, <2>1, <2>2, ZenonT(60) DEF TypeOK, Hands
  <2> QED
    BY <1>0, <2>1, <2>3, <2>4, <2>5 DEF Hands
<1>5. ASSUME NEW p \in Procs, NEW c \in Conns, NEW N, NEW w, Losing(p, c, N, w),
             conn'[c] = "accepted", status[Child] = "none" => p = Main
      PROVE  /\ \A l \in lost' : conn'[l.conn] = "accepted"
             /\ status'[Child] = "none" => \A l \in lost' : l.by = Main
  <2>1. status'[Child] = "none" => status[Child] = "none"
    BY Stays
  <2> QED
    BY <1>1, <1>5, <2>1 DEF Losing, Hands
<1>6. ASSUME NEW p \in Procs, Respond(p) PROVE Hands'
  <2>1. work[p].conn \in Conns /\ conn'[work[p].conn] = "accepted"
    <3>1. work[p].conn # None
      BY <1>6, InHands DEF Respond
    <3> QED
      BY <1>2, <3>1
  <2>2. status[Child] = "none" => p = Main
    BY <1>6, SMTT(30) DEF Respond, Procs
  <2> DEFINE c == work[p].conn
             t == work[p].cmds
  <2>3. PICK k \in 0 .. Len(t) : /\ out' = [out EXCEPT ![p][c] = @ \o SubSeq(t, 1, k)]
                                 /\ Losing(p, c, ToSet(SubSeq(t, k + 1, Len(t))), "refused")
    BY <1>6 DEF Respond
  <2>4. /\ \A l \in lost' : conn'[l.conn] = "accepted"
        /\ status'[Child] = "none" => \A l \in lost' : l.by = Main
    BY <1>5, <2>1, <2>2, <2>3
  <2> HIDE DEF c, t
  <2>5. work' = [work EXCEPT ![p] = Idle] /\ UNCHANGED <<conn, status>>
    BY <1>6 DEF Respond, clientVars
  <2>6. \A q \in Procs : work'[q] = IF q = p THEN Idle ELSE work[q]
    BY <2>5 DEF TypeOK
  <2>7. p # Child => out'[Child] = out[Child]
    BY <1>0, <2>3 DEF TypeOK
  <2> QED
    BY <1>0, <2>2, <2>4, <2>5, <2>6, <2>7 DEF Hands, Idle
<1>7. ASSUME NEW p \in Procs, NEW e, Refuse(p, e) PROVE Hands'
  <2>1. PICK c \in Conns : c = table[p][e.fd] /\ Losing(p, c, ToSet(Numbers(c)), "undecodable")
    BY <1>7 DEF Refuse
  <2>2. Drop(p, e)
    BY <1>7 DEF Refuse
  <2>3. UNCHANGED <<conn, work, out, status>> /\ Handle(p, e) /\ e.fd # Listener
    BY <2>2 DEF Drop, clientVars
  <2>4. conn[c] = "accepted"
    <3>1. e.fd \in Fds
      BY <2>3 DEF Handle, TypeOK, Events
    <3> QED
      BY <2>1, <3>1 DEF OnlyAccepted
  <2>5. status[Child] = "none" => p = Main
    BY <2>3 DEF Handle, Free, Procs
  <2>6. /\ \A l \in lost' : conn'[l.conn] = "accepted"
        /\ status'[Child] = "none" => \A l \in lost' : l.by = Main
    BY <1>5, <2>1, <2>3, <2>4, <2>5
  <2> QED
    BY <2>3, <2>6 DEF Hands
<1>8. CASE Die
  <2>1. /\ UNCHANGED <<conn, out>> /\ work' = [work EXCEPT ![Child] = Idle]
        /\ Losing(Child, work[Child].conn, ToSet(work[Child].cmds), "killed")
        /\ status[Child] # "none" /\ status' = [status EXCEPT ![Child] = "gone"]
    BY <1>8 DEF Die, clientVars
  <2>2. status'[Child] = "gone"
    BY <1>0, <2>1 DEF TypeOK
  <2>3. \A q \in Procs : work'[q] = IF q = Child THEN Idle ELSE work[q]
    BY <2>1 DEF TypeOK
  <2>4. \A l \in lost' : conn'[l.conn] = "accepted"
    <3>1. CASE work[Child].conn = None
      <4>1. work[Child].cmds = <<>>
        BY <1>0, <3>1 DEF Hands, Idle
      <4>2. lost' = lost
        BY <2>1, <4>1 DEF Losing, ToSet
      <4> QED
        BY <1>1, <4>2
    <3>2. CASE work[Child].conn # None
      <4>1. work[Child].conn \in Conns /\ conn'[work[Child].conn] = "accepted"
        BY <1>0, <1>2, <3>2
      <4> QED
        BY <1>0, <1>5, <2>1, <4>1
    <3> QED
      BY <3>1, <3>2
  <2> QED
    BY <2>1, <2>2, <2>3, <2>4 DEF Hands, Idle
<1>9. CASE UNCHANGED <<work, out, lost>>
  BY <1>9, NothingHandled
<1>10. CASE \E c \in Conns : Connect(c) \/ HangUp(c) \/ \E cmd \in Commands : SendCommand(c, cmd)
  BY <1>9, <1>10 DEF Connect, HangUp, SendCommand, batchVars
<1>11. ASSUME NEW p \in Procs, NEW e,
              \/ Poll(p) \/ Accept(p, e) \/ AcceptFails(p, e) \/ Skip(p, e) \/ Close(p, e)
       PROVE  UNCHANGED <<work, out, lost>>
  BY <1>11 DEF Poll, Accept, AcceptFails, Skip, Close, Drop, batchVars
<1>12. CASE DumpDone \/ UNCHANGED vars
  BY <1>9, <1>12 DEF DumpDone, vars, batchVars
<1> QED
  BY <1>3, <1>4, <1>6, <1>7, <1>8, <1>9, <1>10, <1>11, <1>12 DEF Next, Loop

\* The invariant of the tables is inductive.
LEMMA TableStep == TableInv /\ [Next]_vars => TableInv'
BY TypeStep, OpenedStep, HandsStep DEF TableInv, Opened
-----------------------------------------------------------------------------
EventsInv == ListenerEvents /\ EventsStayTrue

\* Whoever had something unread, or hung up, is still ready when nobody has
\* read from it.
LEMMA StaysReady ==
  ASSUME TypeOK, TypeOK', NEW c \in Conns,
         read'[c] = read[c], Len(asked[c]) <= Len(asked'[c]), hung \subseteq hung',
         Unread(c) # <<>> \/ c \in hung
  PROVE  Unread(c)' # <<>> \/ c \in hung'
<1>1. CASE c \in hung
  BY <1>1
<1>2. CASE Unread(c) # <<>>
  <2>1. read[c] < Len(asked[c])
    BY <1>2, UnreadIs
  <2>2. Len(asked[c]) \in Nat /\ Len(asked'[c]) \in Nat /\ read[c] \in Nat
    <3>1. asked[c] \in Seq(Commands) /\ asked'[c] \in Seq(Commands) /\ read[c] \in Nat
      BY DEF TypeOK
    <3> QED
      BY ONLY <3>1
  <2>3. asked'[c] \in Seq(Commands) /\ read'[c] < Len(asked'[c]) /\ read'[c] \in Nat
    BY <2>1, <2>2 DEF TypeOK
  <2>4. SubSeq(asked'[c], read'[c] + 1, Len(asked'[c])) # <<>>
    BY <2>3, RestOf
  <2> QED
    BY <2>4 DEF Unread
<1> QED
  BY <1>1, <1>2

\* Two events of one connection are the same event.
LEMMA OneEvent ==
  ASSUME TableInv, EventsInv, ~Forked, NEW e \in events[Main], NEW d \in events[Main],
         e.fd = d.fd \/ (e.fd # Listener /\ d.fd # Listener /\ e.conn = d.conn)
  PROVE  e = d
<1> USE DEF EventsInv
<1>1. e \in Events /\ d \in Events /\ Main \in Procs
  BY DEF TableInv, TypeOK, Procs
<1>2. e.op = {"READ"} /\ d.op = {"READ"}
  BY DEF EventsStayTrue
<1>3. e.fd = d.fd /\ e.conn = d.conn
  <2>1. CASE e.fd = Listener /\ d.fd = Listener
    BY <1>1, <2>1 DEF ListenerEvents
  <2>2. CASE e.fd # Listener /\ d.fd # Listener
    <3>1. e.fd \in Fds /\ d.fd \in Fds
      BY <1>1, <2>2 DEF Events
    <3>2. /\ table[Main][e.fd] = e.conn /\ table[Main][d.fd] = d.conn
          /\ e.conn \in Conns /\ d.conn \in Conns
      BY <1>1, <2>2 DEF EventsStayTrue, ListenerEvents
    <3> QED
      BY <1>1, <3>1, <3>2 DEF TableInv, OneNumber
  <2> QED
    BY <2>1, <2>2
<1> QED
  BY <1>1, <1>2, <1>3 DEF Events

\* Handling an event leaves the others true if they keep their descriptor, and
\* what makes their connection ready.
LEMMA OthersStayTrue ==
  ASSUME TableInv, TypeOK', EventsInv, ~Forked, NEW e, Handle(Main, e),
         hung' = hung, asked' = asked,
         \A d \in events[Main] \ {e} :
           IF d.fd = Listener THEN Backlog' = Backlog
           ELSE table'[Main][d.fd] = table[Main][d.fd] /\ read'[d.conn] = read[d.conn]
  PROVE  EventsStayTrue'
<1>1. SUFFICES ASSUME NEW d \in events'[Main]
               PROVE  /\ d.op = {"READ"}
                      /\ IF d.fd = Listener THEN Backlog' # {}
                         ELSE /\ table'[Main][d.fd] = d.conn
                              /\ Unread(d.conn)' # <<>> \/ d.conn \in hung'
  BY DEF EventsStayTrue
<1>2. d \in events[Main] \ {e} /\ Main \in Procs
  BY DEF Handle, TableInv, TypeOK, Procs
<1>3. d.op = {"READ"}
  BY <1>2 DEF EventsInv, EventsStayTrue
<1>4. CASE d.fd = Listener
  BY <1>2, <1>3, <1>4 DEF EventsInv, EventsStayTrue
<1>5. CASE d.fd # Listener
  <2>1. d.conn \in Conns /\ table[Main][d.fd] = d.conn
        /\ (Unread(d.conn) # <<>> \/ d.conn \in hung)
    BY <1>2, <1>5 DEF EventsInv, EventsStayTrue, ListenerEvents
  <2>2. Len(asked[d.conn]) <= Len(asked'[d.conn]) /\ read'[d.conn] = read[d.conn]
    BY <1>2, <1>5, <2>1 DEF TableInv, TypeOK
  <2>3. Unread(d.conn)' # <<>> \/ d.conn \in hung'
    BY <2>1, <2>2, StaysReady DEF TableInv
  <2> QED
    BY <1>2, <1>3, <1>5, <2>1, <2>3
<1> QED
  BY <1>4, <1>5

\* Clients only make events truer.
LEMMA ClientsStayTrue ==
  ASSUME TableInv, TypeOK', EventsInv, ~Forked,
         UNCHANGED <<read, table, events>>, Backlog \subseteq Backlog', hung \subseteq hung',
         \A c \in Conns : Len(asked[c]) <= Len(asked'[c])
  PROVE  EventsStayTrue'
<1>1. ASSUME NEW e \in events[Main]
      PROVE  /\ e.op = {"READ"}
             /\ IF e.fd = Listener THEN Backlog' # {}
                ELSE table[Main][e.fd] = e.conn /\ (Unread(e.conn)' # <<>> \/ e.conn \in hung')
  <2>1. Main \in Procs
    BY DEF Procs
  <2>2. CASE e.fd = Listener
    BY <2>2 DEF EventsInv, EventsStayTrue
  <2>3. CASE e.fd # Listener
    <3>1. e.conn \in Conns /\ (Unread(e.conn) # <<>> \/ e.conn \in hung)
      BY <2>1, <2>3 DEF EventsInv, EventsStayTrue, ListenerEvents
    <3>2. Unread(e.conn)' # <<>> \/ e.conn \in hung'
      BY <3>1, StaysReady DEF TableInv
    <3> QED
      BY <2>3, <3>2 DEF EventsInv, EventsStayTrue
  <2> QED
    BY <2>2, <2>3
<1> QED
  BY <1>1 DEF EventsStayTrue

\* Events are about the listening socket or a connection, in either process.
LEMMA ListenerEventsStep ==
  ASSUME TableInv, ListenerEvents, [Next]_vars
  PROVE  ListenerEvents'
<1>1. ASSUME NEW p \in Procs, Poll(p) PROVE ListenerEvents'
  <2>1. \A e \in Ready : IF e.fd = Listener THEN e.conn = None /\ e.op = {"READ"} ELSE e.conn \in Conns
    BY ReadyEvents
  <2>2. \A q \in Procs : events'[q] = IF q = p THEN Ready ELSE events[q]
    BY <1>1 DEF Poll, TableInv, TypeOK
  <2> QED
    BY <2>1, <2>2 DEF ListenerEvents
<1>2. ASSUME NEW i, Fork(i) PROVE ListenerEvents'
  <2>1. \A q \in Procs : events'[q] \in {events[q], events[Main]}
    BY <1>2 DEF Fork, Forking, TableInv, TypeOK
  <2> QED
    BY <2>1 DEF ListenerEvents, Procs
<1>3. ASSUME NEW p \in Procs, NEW e, Handle(p, e) PROVE ListenerEvents'
  <2>1. \A q \in Procs : events'[q] \subseteq events[q]
    BY <1>3 DEF Handle, TableInv, TypeOK
  <2> QED
    BY <2>1 DEF ListenerEvents
<1>4. CASE Die
  <2>1. \A q \in Procs : events'[q] \subseteq events[q]
    BY <1>4 DEF Die, TableInv, TypeOK
  <2> QED
    BY <2>1 DEF ListenerEvents
<1>5. CASE events' = events
  BY <1>5 DEF ListenerEvents
<1>6. CASE \E c \in Conns : Connect(c) \/ HangUp(c) \/ \E cmd \in Commands : SendCommand(c, cmd)
  BY <1>5, <1>6 DEF Connect, HangUp, SendCommand
<1>7. CASE DumpDone \/ UNCHANGED vars
  BY <1>5, <1>7 DEF DumpDone, vars
<1>8. ASSUME NEW p \in Procs, Respond(p) PROVE ListenerEvents'
  BY <1>5, <1>8 DEF Respond
<1>9. ASSUME NEW p \in Procs, NEW e,
             \/ Accept(p, e) \/ AcceptFails(p, e) \/ Skip(p, e)
             \/ Read(p, e) \/ Close(p, e) \/ Refuse(p, e)
      PROVE  Handle(p, e)
  BY <1>9 DEF Accept, AcceptFails, Skip, Read, Close, Refuse, Drop
<1> QED
  BY <1>1, <1>2, <1>3, <1>4, <1>6, <1>7, <1>8, <1>9 DEF Next, Loop

\* No step before the fork makes an event false that is still to be handled.
LEMMA EventsStep == TableInv /\ EventsInv /\ [Next]_vars => EventsInv'
<1> SUFFICES ASSUME TableInv, EventsInv, [Next]_vars PROVE EventsInv'
  OBVIOUS
<1>1. TypeOK' /\ TableInv' /\ ListenerEvents'
  BY TypeStep, TableStep, ListenerEventsStep DEF EventsInv
<1>2. SUFFICES ASSUME ~Forked' PROVE EventsStayTrue'
  BY <1>1 DEF EventsInv, EventsStayTrue
<1>3. Main \in Procs /\ Child \in Procs /\ Main # Child
  BY DEF Procs
<1>4. ~Forked
  <2>1. CASE \E i \in 1 .. Len(work[Main].cmds) : Fork(i)
    BY <1>2, <2>1, Stays DEF Forked
  <2> QED
    BY <1>2, <2>1, Stays DEF Forked
<1>5. \A f \in Fds : table[Child][f] = None
  BY <1>4 DEF TableInv, Lives, Forked
<1>6. ASSUME NEW c \in Conns, Connect(c) PROVE EventsStayTrue'
  <2>1. Backlog \subseteq Backlog'
    BY <1>6 DEF Connect, Backlog, TableInv, TypeOK
  <2>2. \A d \in Conns : Len(asked[d]) <= Len(asked'[d])
    BY <1>6 DEF Connect, TableInv, TypeOK
  <2> QED
    BY <1>1, <1>4, <1>6, <2>1, <2>2, ClientsStayTrue DEF Connect, batchVars
<1>7. ASSUME NEW c \in Conns, HangUp(c) PROVE EventsStayTrue'
  <2>1. \A d \in Conns : Len(asked[d]) <= Len(asked'[d])
    BY <1>7 DEF HangUp, TableInv, TypeOK
  <2> QED
    BY <1>1, <1>4, <1>7, <2>1, ClientsStayTrue DEF HangUp, Backlog, batchVars
<1>8. ASSUME NEW c \in Conns, NEW cmd \in Commands, SendCommand(c, cmd) PROVE EventsStayTrue'
  <2>1. asked[c] \in Seq(Commands) /\ asked' = [asked EXCEPT ![c] = Append(asked[c], cmd)]
    BY <1>8 DEF SendCommand, TableInv, TypeOK
  <2>2. Len(Append(asked[c], cmd)) = Len(asked[c]) + 1
    BY <2>1
  <2>3. \A d \in Conns : Len(asked[d]) <= Len(asked'[d])
    BY <2>1, <2>2 DEF TableInv, TypeOK
  <2> QED
    BY <1>1, <1>4, <1>8, <2>3, ClientsStayTrue DEF SendCommand, Backlog, batchVars
<1>9. ASSUME NEW p \in Procs, Poll(p) PROVE EventsStayTrue'
  <2>1. p = Main
    BY <1>4, <1>9 DEF Poll, Free, Forked, Procs
  <2>2. events'[Main] = Ready /\ UNCHANGED <<clientVars, read, table>>
    BY <1>3, <1>9, <2>1 DEF Poll, batchVars, TableInv, TypeOK
  <2>3. ASSUME NEW e \in Ready
        PROVE  /\ e.op = {"READ"}
               /\ IF e.fd = Listener THEN Backlog # {}
                  ELSE table[Main][e.fd] = e.conn /\ (Unread(e.conn) # <<>> \/ e.conn \in hung)
    BY <1>5, ReadyEvents DEF Procs
  <2>4. Backlog' = Backlog /\ hung' = hung
    BY <2>2 DEF Backlog, clientVars
  <2>5. \A c : Unread(c)' = Unread(c)
    BY <2>2 DEF Unread, clientVars
  <2> QED
    BY <2>2, <2>3, <2>4, <2>5 DEF EventsStayTrue
<1>10. ASSUME NEW p \in Procs, NEW e, Handle(p, e)
       PROVE  p = Main /\ e \in events[Main] /\ e \in Events
  BY <1>3, <1>4, <1>10 DEF Handle, Free, Forked, Procs, TableInv, TypeOK
<1>11. ASSUME NEW p \in Procs, NEW e, Accept(p, e) PROVE EventsStayTrue'
  <2>1. Handle(p, e) /\ e.fd = Listener
    BY <1>11 DEF Accept
  <2>2. PICK fd \in Fds, c \in Conns : table[p][fd] = None /\ table' = [table EXCEPT ![p][fd] = c]
    BY <1>11 DEF Accept, LowestFree, Backlog
  <2>3. ASSUME NEW d \in events[Main] \ {e}
        PROVE  d.fd # Listener /\ table'[Main][d.fd] = table[Main][d.fd]
    <3>1. d.fd # Listener
      BY <1>4, <1>10, <2>1, <2>3, OneEvent
    <3>2. table[Main][d.fd] = d.conn /\ d.conn \in Conns /\ d.fd \in Fds
      BY <1>3, <1>4, <3>1 DEF EventsInv, EventsStayTrue, ListenerEvents, TableInv, TypeOK, Events
    <3>3. d.fd # fd
      BY <1>10, <2>1, <2>2, <3>2
    <3> QED
      BY <1>3, <1>10, <2>1, <2>2, <3>1, <3>2, <3>3 DEF TableInv, TypeOK
  <2>4. UNCHANGED <<hung, asked, read>>
    BY <1>11 DEF Accept, batchVars
  <2> QED
    BY <1>1, <1>4, <1>10, <2>1, <2>3, <2>4, OthersStayTrue
<1>12. ASSUME NEW p \in Procs, NEW e, AcceptFails(p, e) \/ Skip(p, e) PROVE EventsStayTrue'
  <2>1. Handle(p, e) /\ UNCHANGED <<clientVars, read, table>>
    BY <1>12 DEF AcceptFails, Skip, batchVars
  <2> QED
    BY <1>1, <1>4, <1>10, <2>1, OthersStayTrue DEF clientVars, Backlog
<1>13. ASSUME NEW p \in Procs, NEW e, Handle(p, e), e.fd # Listener,
              NEW d \in events[Main] \ {e}, d.fd # Listener
       PROVE  /\ e.fd \in Fds /\ d.fd \in Fds /\ e.fd # d.fd
              /\ d.conn \in Conns /\ table[Main][e.fd] = e.conn /\ e.conn # d.conn
  <2>1. e \in events[Main] /\ e \in Events /\ d \in Events
    BY <1>3, <1>10, <1>13 DEF TableInv, TypeOK
  <2>2. e.fd # d.fd /\ e.conn # d.conn
    BY <1>4, <1>13, <2>1, OneEvent
  <2>3. table[Main][e.fd] = e.conn /\ d.conn \in Conns
    BY <1>3, <1>4, <1>13, <2>1 DEF EventsInv, EventsStayTrue, ListenerEvents
  <2> QED
    BY <1>13, <2>1, <2>2, <2>3 DEF Events
<1>14. ASSUME NEW p \in Procs, NEW e, Read(p, e) PROVE EventsStayTrue'
  <2>1. Handle(p, e) /\ e.fd # Listener /\ UNCHANGED <<clientVars, table>> /\ p = Main
    BY <1>10, <1>14 DEF Read
  <2>2. read' = [read EXCEPT ![table[Main][e.fd]] = Len(asked[table[Main][e.fd]])]
    BY <1>14, <2>1 DEF Read
  <2>3. \A d \in events[Main] \ {e} : d.fd # Listener => read'[d.conn] = read[d.conn]
    BY <1>13, <2>1, <2>2 DEF TableInv, TypeOK
  <2> QED
    BY <1>1, <1>4, <2>1, <2>3, OthersStayTrue DEF clientVars, Backlog
<1>15. ASSUME NEW p \in Procs, NEW e, Close(p, e) \/ Refuse(p, e) PROVE EventsStayTrue'
  <2>0. Drop(p, e)
    BY <1>15 DEF Close, Refuse
  <2>1. Handle(p, e) /\ e.fd # Listener /\ UNCHANGED clientVars /\ p = Main
    BY <1>10, <2>0 DEF Drop
  <2>2. table' = [table EXCEPT ![Main][e.fd] = None]
    BY <2>0, <2>1 DEF Drop
  <2>3. \A d \in events[Main] \ {e} : d.fd # Listener => table'[Main][d.fd] = table[Main][d.fd]
    BY <1>3, <1>13, <2>1, <2>2 DEF TableInv, TypeOK
  <2>4. \/ read' = read
        \/ read' = [read EXCEPT ![table[Main][e.fd]] = Len(asked[table[Main][e.fd]])]
    BY <1>15, <2>1 DEF Close, Refuse
  <2>5. \A d \in events[Main] \ {e} : d.fd # Listener => read'[d.conn] = read[d.conn]
    BY <1>13, <2>1, <2>4 DEF TableInv, TypeOK
  <2> QED
    BY <1>1, <1>4, <2>1, <2>3, <2>5, OthersStayTrue DEF clientVars, Backlog
<1>16. CASE (\E i : Fork(i)) \/ DumpDone \/ Die
  BY <1>3, <1>2, <1>16 DEF Fork, Forking, DumpDone, Die, Forked, TableInv, TypeOK
<1>17. CASE UNCHANGED vars
  BY <1>17 DEF vars, EventsInv, EventsStayTrue, Forked, Backlog, Unread
<1>18. ASSUME NEW p \in Procs, Respond(p) PROVE EventsStayTrue'
  <2>1. UNCHANGED <<clientVars, read, table, events>>
    BY <1>18 DEF Respond
  <2>2. \A d \in Conns : Len(asked[d]) \in Nat /\ Len(asked[d]) <= Len(asked'[d])
    BY <2>1 DEF clientVars, TableInv, TypeOK
  <2> QED
    BY <1>1, <1>4, <2>1, <2>2, ClientsStayTrue DEF clientVars, Backlog
<1> QED
  BY <1>6, <1>7, <1>8, <1>9, <1>11, <1>12, <1>14, <1>15, <1>16, <1>17, <1>18 DEF Next, Loop
-----------------------------------------------------------------------------
\* What p has had of c: replied to, in its hands, or lost.
Had(p, c) == ToSet(Line(p, c)) \cup LostBy(p, c)

\* The commands of one connection in one process.
InOrder(p, c) == Increasing(Line(p, c)) /\ ToSet(Line(p, c)) \cap LostBy(p, c) = {}

\* What two processes have had of one connection.
Between(c) ==
  /\ Had(Main, c) \cup Had(Child, c) = 1 .. read[c]
  /\ \A n \in Had(Main, c) \cap Had(Child, c) : <<c, n>> \in shared

\* Why commands are lost.
Reasons ==
  \A l \in lost :
    /\ l.why = "undecodable" => ~Holds(l.by, l.conn)
    /\ l.why = "killed" => l.by = Child /\ status[Child] = "gone"

\* RepliesAccounted in its parts.
LEMMA Parts ==
  RepliesAccounted <=>
    (\A c \in Conns : (\A p \in Procs : InOrder(p, c)) /\ Between(c)) /\ Reasons
BY DEF RepliesAccounted, InOrder, Between, Reasons, Had, Procs

\* The same in the next state.
LEMMA PartsNext ==
  RepliesAccounted' <=>
    (\A c \in Conns : (\A p \in Procs : InOrder(p, c)') /\ Between(c)') /\ Reasons'
BY DEF RepliesAccounted, InOrder, Between, Reasons, Had, Procs

\* At first nothing was read.
LEMMA RepliesInit == Init => RepliesAccounted
<1> SUFFICES ASSUME Init PROVE RepliesAccounted
  OBVIOUS
<1>1. ASSUME NEW p \in Procs, NEW c \in Conns
      PROVE  Line(p, c) = <<>> /\ LostBy(p, c) = {} /\ read[c] = 0
  <2>1. out[p][c] = <<>> /\ work[p] = Idle /\ lost = {} /\ read[c] = 0
    BY <1>1 DEF Init
  <2>2. work[p].conn # c /\ LostBy(p, c) = {}
    BY <2>1 DEF Idle, LostBy
  <2> QED
    BY <2>1, <2>2 DEF Line
<1>2. ToSet(<<>>) = {} /\ Increasing(<<>>)
  BY DEF ToSet, Increasing
<1>3. \A c \in Conns : (\A p \in Procs : InOrder(p, c)) /\ Between(c)
  BY <1>1, <1>2 DEF InOrder, Between, Had, Procs
<1>4. Reasons
  BY DEF Init, Reasons
<1> QED
  BY <1>3, <1>4, Parts
-----------------------------------------------------------------------------
\* The members of a sequence and another.
LEMMA ToSetOfBoth ==
  ASSUME NEW s \in Seq(Nat), NEW t \in Seq(Nat)
  PROVE  ToSet(s \o t) = ToSet(s) \cup ToSet(t)
<1>1. /\ s \o t \in Seq(Nat) /\ Len(s \o t) = Len(s) + Len(t)
      /\ \A i \in 1 .. Len(s) + Len(t) : (s \o t)[i] = IF i <= Len(s) THEN s[i] ELSE t[i - Len(s)]
  OBVIOUS
<1> DEFINE u == s \o t
           m == Len(s)
           n == Len(t)
<1>2. /\ DOMAIN u = 1 .. m + n /\ DOMAIN s = 1 .. m /\ DOMAIN t = 1 .. n /\ m \in Nat /\ n \in Nat
      /\ \A i \in 1 .. m + n : u[i] = IF i <= m THEN s[i] ELSE t[i - m]
  BY <1>1
<1> HIDE DEF u, m, n
<1>3. ASSUME NEW x \in ToSet(u) PROVE x \in ToSet(s) \cup ToSet(t)
  <2>1. PICK i \in 1 .. m + n : x = u[i]
    BY <1>2, <1>3 DEF ToSet
  <2>2. CASE i <= m
    <3>1. i \in 1 .. m /\ x = s[i]
      BY <1>2, <2>1, <2>2
    <3> QED
      BY <1>2, <3>1 DEF ToSet
  <2>3. CASE ~(i <= m)
    <3>1. i - m \in 1 .. n /\ x = t[i - m]
      BY <1>2, <2>1, <2>3
    <3> QED
      BY <1>2, <3>1 DEF ToSet
  <2> QED
    BY <2>2, <2>3
<1>4. ASSUME NEW x \in ToSet(s) PROVE x \in ToSet(u)
  <2>1. PICK i \in 1 .. m : x = s[i]
    BY <1>2, <1>4 DEF ToSet
  <2>2. i \in 1 .. m + n /\ u[i] = s[i]
    BY <1>2
  <2> QED
    BY <1>2, <2>1, <2>2 DEF ToSet
<1>5. ASSUME NEW x \in ToSet(t) PROVE x \in ToSet(u)
  <2>1. PICK i \in 1 .. n : x = t[i]
    BY <1>2, <1>5 DEF ToSet
  <2>2. m + i \in 1 .. m + n /\ ~(m + i <= m) /\ (m + i) - m = i
    BY <1>2
  <2>3. u[m + i] = t[i]
    BY <1>2, <2>2
  <2> QED
    BY <1>2, <2>1, <2>2, <2>3 DEF ToSet
<1> QED
  BY <1>3, <1>4, <1>5 DEF u

\* Increasing sequences, one after the other.
LEMMA IncreasingBoth ==
  ASSUME NEW s \in Seq(Nat), NEW t \in Seq(Nat)
  PROVE  Increasing(s \o t) <=>
           /\ Increasing(s) /\ Increasing(t)
           /\ \A x \in ToSet(s), y \in ToSet(t) : x < y
<1>1. /\ s \o t \in Seq(Nat) /\ Len(s \o t) = Len(s) + Len(t)
      /\ \A i \in 1 .. Len(s) + Len(t) : (s \o t)[i] = IF i <= Len(s) THEN s[i] ELSE t[i - Len(s)]
  OBVIOUS
<1> DEFINE u == s \o t
           m == Len(s)
           n == Len(t)
<1>2. /\ Len(u) = m + n /\ Len(s) = m /\ Len(t) = n /\ m \in Nat /\ n \in Nat
      /\ DOMAIN s = 1 .. m /\ DOMAIN t = 1 .. n
      /\ \A i \in 1 .. m + n : u[i] = IF i <= m THEN s[i] ELSE t[i - m]
  BY <1>1
<1> HIDE DEF u, m, n
<1>3. \A i \in 1 .. m : i \in 1 .. m + n /\ u[i] = s[i]
  BY <1>2
<1>4. \A i \in 1 .. n : m + i \in 1 .. m + n /\ u[m + i] = t[i]
  <2>1. ASSUME NEW i \in 1 .. n PROVE m + i \in 1 .. m + n /\ ~(m + i <= m) /\ (m + i) - m = i
    BY <1>2
  <2> QED
    BY <1>2, <2>1
<1>5. ASSUME Increasing(u)
      PROVE  Increasing(s) /\ Increasing(t) /\ \A x \in ToSet(s), y \in ToSet(t) : x < y
  <2>1. \A i, j \in 1 .. m + n : i < j => u[i] < u[j]
    BY <1>2, <1>5 DEF Increasing
  <2>2. Increasing(s)
    BY <1>2, <1>3, <2>1 DEF Increasing
  <2>3. \A i, j \in 1 .. n : i < j => m + i < m + j
    BY <1>2
  <2>4. Increasing(t)
    BY <1>2, <1>4, <2>1, <2>3 DEF Increasing
  <2>5. \A i \in 1 .. m, j \in 1 .. n : i < m + j
    BY <1>2
  <2>6. \A i \in 1 .. m, j \in 1 .. n : s[i] < t[j]
    BY <1>3, <1>4, <2>1, <2>5
  <2> QED
    BY <1>2, <2>2, <2>4, <2>6 DEF ToSet
<1>6. ASSUME Increasing(s), Increasing(t), \A x \in ToSet(s), y \in ToSet(t) : x < y
      PROVE  Increasing(u)
  <2>1. ASSUME NEW i \in 1 .. m + n, NEW j \in 1 .. m + n, i < j PROVE u[i] < u[j]
    <3>1. CASE j <= m
      <4>1. i \in 1 .. m /\ j \in 1 .. m
        BY <1>2, <2>1, <3>1
      <4> QED
        BY <1>2, <1>3, <1>6, <2>1, <4>1 DEF Increasing
    <3>2. CASE ~(i <= m)
      <4>1. i - m \in 1 .. n /\ j - m \in 1 .. n /\ i - m < j - m /\ ~(j <= m)
        BY <1>2, <2>1, <3>2
      <4>2. u[i] = t[i - m] /\ u[j] = t[j - m]
        BY <1>2, <3>2, <4>1
      <4>3. t[i - m] < t[j - m]
        BY <1>2, <1>6, <4>1 DEF Increasing
      <4> QED
        BY <4>2, <4>3
    <3>3. CASE i <= m /\ ~(j <= m)
      <4>1. i \in 1 .. m /\ j - m \in 1 .. n
        BY <1>2, <2>1, <3>3
      <4>2. u[i] = s[i] /\ u[j] = t[j - m]
        BY <1>2, <3>3
      <4> QED
        BY <1>2, <1>6, <4>1, <4>2, ZenonT(60) DEF ToSet
    <3> QED
      BY <3>1, <3>2, <3>3
  <2> QED
    BY <1>2, <2>1 DEF Increasing
<1> QED
  BY <1>5, <1>6 DEF u

\* A sequence is its beginning and its rest.
LEMMA BeginningAndRest ==
  ASSUME NEW t \in Seq(Nat), NEW k \in 0 .. Len(t)
  PROVE  /\ SubSeq(t, 1, k) \in Seq(Nat) /\ SubSeq(t, k + 1, Len(t)) \in Seq(Nat)
         /\ t = SubSeq(t, 1, k) \o SubSeq(t, k + 1, Len(t))
<1>1. SubSeq(t, 1, k) \in Seq(Nat) /\ SubSeq(t, k + 1, Len(t)) \in Seq(Nat)
  OBVIOUS
<1>2. 1 \in 1 .. Len(t) + 1 /\ k \in 1 - 1 .. Len(t) /\ Len(t) \in k .. Len(t)
  OBVIOUS
<1>3. SubSeq(t, 1, k) \o SubSeq(t, k + 1, Len(t)) = SubSeq(t, 1, Len(t))
  BY ONLY <1>2, t \in Seq(Nat), ConcatAdjacentSubSeq
<1>4. SubSeq(t, 1, Len(t)) = t
  BY SubSeqFull
<1> QED
  BY <1>1, <1>3, <1>4

\* An increasing batch loses its order with none of its members.
LEMMA RemovedInOrder ==
  ASSUME NEW s \in Seq(Nat), NEW i \in 1 .. Len(s), Increasing(s)
  PROVE  Increasing(RemoveAt(s, i))
<1> DEFINE r == RemoveAt(s, i)
           n == Len(s)
<1>1. /\ Len(r) = n - 1 /\ n \in Nat
      /\ \A j \in 1 .. n - 1 : r[j] = IF j < i THEN s[j] ELSE s[j + 1]
  BY Removed
<1>2. \A a, b \in 1 .. n : a < b => s[a] < s[b]
  BY DEF Increasing
<1>3. i \in 1 .. n
  OBVIOUS
<1> HIDE DEF r, n
<1>4. ASSUME NEW a \in 1 .. n - 1, NEW b \in 1 .. n - 1, a < b PROVE r[a] < r[b]
  <2> DEFINE f == IF a < i THEN a ELSE a + 1
             g == IF b < i THEN b ELSE b + 1
  <2>1. f \in 1 .. n /\ g \in 1 .. n /\ f < g
    BY <1>1, <1>3, <1>4
  <2>2. r[a] = s[f] /\ r[b] = s[g]
    BY <1>1
  <2> HIDE DEF f, g
  <2> QED
    BY <1>2, <2>1, <2>2
<1>5. Increasing(r)
  BY <1>1, <1>4 DEF Increasing
<1> QED
  BY <1>5 DEF r

\* The numbers of unread commands increase.
LEMMA NumbersInOrder ==
  ASSUME TypeOK, NEW c \in Conns
  PROVE  Increasing(Numbers(c))
<1> DEFINE m == Len(asked[c]) - read[c]
<1>1. Len(Numbers(c)) = m /\ (\A i \in 1 .. m : Numbers(c)[i] = read[c] + i) /\ read[c] \in Nat
  BY NumbersAre DEF TypeOK
<1> HIDE DEF m
<1> QED
  BY <1>1 DEF Increasing
-----------------------------------------------------------------------------
\* Lines are sequences of numbers.
LEMMA LineType ==
  ASSUME TypeOK, NEW p \in Procs, NEW c \in Conns
  PROVE  /\ Line(p, c) \in Seq(Nat)
         /\ work[p].conn = c => Line(p, c) = out[p][c] \o work[p].cmds
         /\ work[p].conn # c => Line(p, c) = out[p][c]
<1>1. out[p][c] \in Seq(Nat) /\ work[p].cmds \in Seq(Nat)
  BY DEF TypeOK
<1>2. out[p][c] \o <<>> = out[p][c] /\ out[p][c] \o work[p].cmds \in Seq(Nat)
  BY <1>1
<1>3. CASE work[p].conn = c
  <2>1. Line(p, c) = out[p][c] \o work[p].cmds
    BY <1>3, Zenon DEF Line
  <2> QED
    BY <1>2, <1>3, <2>1
<1>4. CASE work[p].conn # c
  <2>1. Line(p, c) = out[p][c] \o <<>>
    BY <1>4, Zenon DEF Line
  <2> QED
    BY <1>1, <1>2, <1>4, <2>1
<1> QED
  BY <1>3, <1>4

\* The same in the next state.
LEMMA LineNext ==
  ASSUME TypeOK', NEW p \in Procs, NEW c \in Conns
  PROVE  /\ work'[p].conn = c => Line(p, c)' = out'[p][c] \o work'[p].cmds
         /\ work'[p].conn # c => Line(p, c)' = out'[p][c]
<1>1. out'[p][c] \in Seq(Nat) /\ out'[p][c] \o <<>> = out'[p][c]
  BY DEF TypeOK
<1>2. CASE work'[p].conn = c
  BY <1>2, Zenon DEF Line
<1>3. CASE work'[p].conn # c
  <2>1. Line(p, c)' = out'[p][c] \o <<>>
    BY <1>3, Zenon DEF Line
  <2> QED
    BY <1>1, <1>3, <2>1
<1> QED
  BY <1>2, <1>3

\* A line stands while nothing is added to it and nothing taken.
LEMMA LineSame ==
  ASSUME TypeOK, TypeOK', NEW p \in Procs, NEW c \in Conns, out'[p][c] = out[p][c],
         \/ work'[p] = work[p]
         \/ work'[p].conn # c /\ work[p].conn # c
  PROVE  Line(p, c)' = Line(p, c)
<1>1. CASE work[p].conn = c /\ work'[p] = work[p]
  <2>1. Line(p, c) = out[p][c] \o work[p].cmds
    BY <1>1, LineType
  <2>2. Line(p, c)' = out'[p][c] \o work'[p].cmds
    BY <1>1, LineNext
  <2> QED
    BY <1>1, <2>1, <2>2
<1>2. CASE work[p].conn # c /\ work'[p].conn # c
  BY <1>2, LineType, LineNext, ZenonT(60)
<1> QED
  BY <1>1, <1>2

\* Losing adds to what that process has lost, and to nothing else.
LEMMA LosingLost ==
  ASSUME NEW p \in Procs, NEW c \in Conns, NEW N, NEW w, Losing(p, c, N, w),
         NEW q \in Procs, NEW d \in Conns
  PROVE  LostBy(q, d)' = IF q = p /\ d = c THEN LostBy(q, d) \cup N ELSE LostBy(q, d)
<1>1. lost' = lost \cup {[by |-> p, conn |-> c, n |-> n, why |-> w] : n \in N}
  BY DEF Losing
<1>2. ASSUME NEW x PROVE x \in LostBy(q, d)' <=> x \in LostBy(q, d) \/ (q = p /\ d = c /\ x \in N)
  <2>1. x \in LostBy(q, d)' <=> \E l \in lost' : l.by = q /\ l.conn = d /\ l.n = x
    BY DEF LostBy
  <2>2. x \in LostBy(q, d) <=> \E l \in lost : l.by = q /\ l.conn = d /\ l.n = x
    BY DEF LostBy
  <2>3. (\E l \in {[by |-> p, conn |-> c, n |-> n, why |-> w] : n \in N} :
           l.by = q /\ l.conn = d /\ l.n = x)
        <=> (q = p /\ d = c /\ x \in N)
    <3>1. \A n \in N : LET l == [by |-> p, conn |-> c, n |-> n, why |-> w]
                       IN l.by = p /\ l.conn = c /\ l.n = n
      OBVIOUS
    <3> QED
      BY <3>1, Zenon
  <2> QED
    BY <1>1, <2>1, <2>2, <2>3
<1> QED
  BY <1>2

\* A process whose hands, replies and losses on c are the same has had the same.
LEMMA SameHad ==
  ASSUME NEW p \in Procs, NEW c \in Conns,
         Line(p, c)' = Line(p, c), LostBy(p, c)' = LostBy(p, c)
  PROVE  Had(p, c)' = Had(p, c) /\ (InOrder(p, c) => InOrder(p, c)')
BY DEF Had, InOrder

\* A step that reads nothing and loses nothing, and takes no more than what
\* was had, leaves the commands accounted for.
LEMMA SameBetween ==
  ASSUME NEW c \in Conns, Between(c), read'[c] = read[c], shared' = shared,
         \A p \in Procs : Had(p, c)' = Had(p, c)
  PROVE  Between(c)'
<1>1. Had(Main, c)' = Had(Main, c) /\ Had(Child, c)' = Had(Child, c)
  BY DEF Procs
<1> QED
  BY <1>1 DEF Between

\* A step that accepts at most a connection nothing was lost on, and forks
\* nothing.
LEMMA SameReasons ==
  ASSUME TableInv, Reasons, lost' = lost, status[Child] = "gone" => status'[Child] = "gone",
         \A p \in Procs, f \in Fds : table'[p][f] = table[p][f] \/ table'[p][f] = None
                                      \/ conn[table'[p][f]] # "accepted"
  PROVE  Reasons'
<1>1. SUFFICES ASSUME NEW l \in lost, l.why = "undecodable" PROVE ~Holds(l.by, l.conn)'
  BY DEF Reasons
<1>2. ~Holds(l.by, l.conn) /\ conn[l.conn] = "accepted" /\ l.by \in Procs /\ l.conn \in Conns
  BY <1>1 DEF Reasons, TableInv, Hands, TypeOK
<1>3. \A f \in Fds : table[l.by][f] # l.conn /\ l.conn # None
  BY <1>2 DEF Holds
<1>4. \A f \in Fds : table'[l.by][f] # l.conn
  BY <1>2, <1>3
<1> QED
  BY <1>4 DEF Holds
-----------------------------------------------------------------------------
\* What is read goes from the socket into the hands of the process that reads.
LEMMA ReadAccounts ==
  ASSUME TableInv, TypeOK', RepliesAccounted, NEW p \in Procs, NEW e, Read(p, e)
  PROVE  RepliesAccounted'
<1> USE DEF TableInv
<1>1. PICK c \in Conns : /\ c = table[p][e.fd] /\ Take(p, c)
                         /\ read' = [read EXCEPT ![c] = Len(asked[c])]
  BY DEF Read
<1>2. /\ work[p] = Idle /\ UNCHANGED <<asked, out, lost, shared, status, table>>
      /\ work' = [work EXCEPT ![p] = [conn |-> c, cmds |-> Numbers(c)]]
  BY <1>1 DEF Read, Handle, Free, Take, clientVars
<1>3. \A q \in Procs : work'[q] = IF q = p THEN [conn |-> c, cmds |-> Numbers(c)] ELSE work[q]
  BY <1>2 DEF TypeOK
<1>4. \A q \in Procs, d \in Conns : LostBy(q, d)' = LostBy(q, d)
  BY <1>2 DEF LostBy
<1>5. (\A d \in Conns : (\A q \in Procs : InOrder(q, d)) /\ Between(d)) /\ Reasons
  BY Parts
<1>6. ASSUME NEW q \in Procs, NEW d \in Conns, q # p \/ d # c
      PROVE  Line(q, d)' = Line(q, d)
  <2>0. out'[q][d] = out[q][d]
    BY <1>2
  <2>1. CASE q # p
    <3>1. work'[q] = work[q]
      BY <1>3, <2>1
    <3> QED
      BY <2>0, <3>1, LineSame
  <2>2. CASE q = p /\ d # c
    <3>1. work[q].conn # d /\ work'[q].conn # d
      BY <1>2, <1>3, <2>2 DEF Idle
    <3> QED
      BY <2>0, <3>1, LineSame
  <2> QED
    BY <1>6, <2>1, <2>2
<1> DEFINE o == out[p][c]
           a == Len(asked[c])
<1>7. o \in Seq(Nat) /\ Numbers(c) \in Seq(Nat) /\ read[c] \in Nat /\ a \in Nat /\ read[c] <= a
      /\ ToSet(Numbers(c)) = read[c] + 1 .. a /\ Increasing(Numbers(c))
  <2>1. asked[c] \in Seq(Commands) /\ read[c] \in Nat /\ read[c] <= Len(asked[c]) /\ o \in Seq(Nat)
    BY DEF TypeOK
  <2>2. Len(asked[c]) \in Nat
    BY ONLY <2>1
  <2> QED
    BY <2>1, <2>2, NumbersAre, NumbersInOrder
<1>8. Line(p, c) = o /\ Line(p, c)' = o \o Numbers(c)
  <2>1. work[p].conn # c /\ work'[p].conn = c /\ work'[p].cmds = Numbers(c)
    BY <1>2, <1>3 DEF Idle
  <2>2. Line(p, c) = o
    BY <2>1, LineType
  <2>3. Line(p, c)' = out'[p][c] \o work'[p].cmds
    BY <2>1, LineNext
  <2> QED
    BY <1>2, <2>1, <2>2, <2>3
<1>9. read'[c] = a /\ \A d \in Conns \ {c} : read'[d] = read[d]
  BY <1>1 DEF TypeOK
<1> HIDE DEF o, a
<1>10. \A q \in Procs : Had(q, c) \subseteq 1 .. read[c]
  BY <1>5 DEF Between, Procs
<1>11. Increasing(o) /\ ToSet(o) \cap LostBy(p, c) = {}
  BY <1>5, <1>8 DEF InOrder
<1>12. ToSet(o) \subseteq 1 .. read[c] /\ LostBy(p, c) \subseteq 1 .. read[c]
  BY <1>8, <1>10 DEF Had
<1>13. /\ ToSet(o \o Numbers(c)) = ToSet(o) \cup (read[c] + 1 .. a)
       /\ Increasing(o \o Numbers(c))
  <2>1. \A x \in ToSet(o), y \in read[c] + 1 .. a : x < y
    BY <1>7, <1>12
  <2> QED
    BY <1>7, <1>11, <2>1, ToSetOfBoth, IncreasingBoth
<1>14. InOrder(p, c)'
  <2>1. (read[c] + 1 .. a) \cap LostBy(p, c) = {}
    BY <1>7, <1>12
  <2> QED
    BY <1>4, <1>8, <1>11, <1>13, <2>1 DEF InOrder
<1>15. Had(p, c)' = Had(p, c) \cup (read[c] + 1 .. a)
  BY <1>4, <1>8, <1>13 DEF Had
<1>16. ASSUME NEW q \in Procs, NEW d \in Conns, q # p \/ d # c
       PROVE  Had(q, d)' = Had(q, d) /\ InOrder(q, d)'
  BY <1>4, <1>5, <1>6, <1>16, SameHad
<1>17. Between(c)'
  <2>1. Had(Main, c) \cup Had(Child, c) = 1 .. read[c]
        /\ \A n \in Had(Main, c) \cap Had(Child, c) : <<c, n>> \in shared
    BY <1>5 DEF Between
  <2>2. (1 .. read[c]) \cup (read[c] + 1 .. a) = 1 .. a
        /\ (1 .. read[c]) \cap (read[c] + 1 .. a) = {}
    BY <1>7
  <2>3. CASE p = Main
    <3>1. Had(Main, c)' = Had(Main, c) \cup (read[c] + 1 .. a) /\ Had(Child, c)' = Had(Child, c)
      BY <1>15, <1>16, <2>3 DEF Procs
    <3> QED
      BY <1>2, <1>9, <2>1, <2>2, <3>1 DEF Between
  <2>4. CASE p = Child
    <3>1. Had(Child, c)' = Had(Child, c) \cup (read[c] + 1 .. a) /\ Had(Main, c)' = Had(Main, c)
      BY <1>15, <1>16, <2>4 DEF Procs
    <3> QED
      BY <1>2, <1>9, <2>1, <2>2, <3>1 DEF Between
  <2> QED
    BY <2>3, <2>4 DEF Procs
<1>18. ASSUME NEW d \in Conns \ {c} PROVE Between(d)'
  BY <1>2, <1>5, <1>9, <1>16, SameBetween
<1>19. Reasons'
  BY <1>2, <1>5 DEF Reasons, Holds
<1> QED
  BY <1>14, <1>16, <1>17, <1>18, <1>19, PartsNext

\* What the child is forked with is shared, but BGREWRITEAOF itself.
LEMMA ForkAccounts ==
  ASSUME TableInv, TypeOK', RepliesAccounted, NEW i \in 1 .. Len(work[Main].cmds), Fork(i)
  PROVE  RepliesAccounted'
<1> USE DEF TableInv
<1>0. Main \in Procs /\ Child \in Procs /\ Main # Child /\ Procs = {Main, Child}
  BY DEF Procs
<1> DEFINE c == work[Main].conn
           t == work[Main].cmds
           r == RemoveAt(t, i)
<1>1. c \in Conns /\ t \in Seq(Nat)
  <2>1. work[Main] # Idle
    BY DEF Idle
  <2> QED
    BY <1>0, <2>1, InHands
<1>2. /\ work' = [work EXCEPT ![Child] = [work[Main] EXCEPT !.cmds = r]]
      /\ UNCHANGED <<read, out, lost>> /\ status[Child] = "none"
      /\ shared' = {<<c, n>> : n \in ToSet(r)}
  BY DEF Fork, Forking
<1>3. work'[Main] = work[Main] /\ work'[Child].conn = c /\ work'[Child].cmds = r
  BY <1>0, <1>2 DEF TypeOK
<1>4. r \in Seq(Nat) /\ ToSet(r) \subseteq ToSet(t)
  BY <1>1, Removed
<1>5. (\A d \in Conns : (\A q \in Procs : InOrder(q, d)) /\ Between(d)) /\ Reasons
  BY Parts
<1>6. Increasing(r)
  <2>1. Increasing(out[Main][c] \o t)
    BY <1>0, <1>1, <1>5, LineType DEF InOrder
  <2>2. out[Main][c] \in Seq(Nat)
    BY <1>0, <1>1 DEF TypeOK
  <2>3. Increasing(t)
    BY <1>1, <2>1, <2>2, IncreasingBoth
  <2> QED
    BY <1>1, <2>3, RemovedInOrder
<1>7. ToSet(t) \subseteq Had(Main, c)
  <2>0. out[Main][c] \in Seq(Nat)
    BY <1>0, <1>1 DEF TypeOK
  <2>1. out[Main][c] \in Seq(Nat) /\ Line(Main, c) = out[Main][c] \o t
    BY <1>0, <1>1, <2>0, LineType
  <2> QED
    BY <1>1, <2>1, ToSetOfBoth DEF Had
<1>8. \A q \in Procs, d \in Conns : LostBy(q, d)' = LostBy(q, d)
  BY <1>2 DEF LostBy
<1>9. ASSUME NEW d \in Conns
      PROVE  /\ Line(Child, d) = <<>> /\ LostBy(Child, d) = {}
             /\ Line(Child, d)' = IF d = c THEN r ELSE <<>>
  <2>1. out[Child][d] = <<>> /\ work[Child] = Idle /\ LostBy(Child, d) = {}
    BY <1>0, <1>2 DEF Hands, LostBy
  <2>2. work[Child].conn # d
    BY <2>1 DEF Idle
  <2>3. Line(Child, d) = <<>>
    BY <1>0, <2>1, <2>2, LineType
  <2>4. out'[Child][d] = <<>>
    BY <1>2, <2>1
  <2>5. CASE d = c
    <3>1. Line(Child, d)' = <<>> \o r
      BY <1>0, <1>3, <2>4, <2>5, LineNext
    <3> QED
      BY <1>4, <2>1, <2>3, <2>5, <3>1
  <2>6. CASE d # c
    <3>1. Line(Child, d)' = <<>>
      BY <1>0, <1>3, <2>4, <2>6, LineNext
    <3> QED
      BY <2>1, <2>3, <2>6, <3>1
  <2> QED
    BY <2>5, <2>6
<1>10. \A d \in Conns : Line(Main, d)' = Line(Main, d)
  BY <1>0, <1>2, <1>3, LineSame
<1> HIDE DEF c, t, r
<1>11. ToSet(<<>>) = {} /\ Increasing(<<>>)
  BY DEF ToSet, Increasing
<1>12. ASSUME NEW d \in Conns
       PROVE  /\ InOrder(Main, d)' /\ InOrder(Child, d)'
              /\ Had(Main, d)' = Had(Main, d) /\ Had(Child, d) = {}
              /\ Had(Child, d)' = IF d = c THEN ToSet(r) ELSE {}
  <2>1. InOrder(Main, d)' /\ Had(Main, d)' = Had(Main, d)
    BY <1>0, <1>5, <1>8, <1>10, SameHad
  <2>2. LostBy(Child, d)' = {} /\ Had(Child, d) = {}
    BY <1>0, <1>8, <1>9, <1>11 DEF Had
  <2> QED
    BY <1>6, <1>9, <1>11, <2>1, <2>2 DEF InOrder, Had
<1>13. ASSUME NEW d \in Conns PROVE Between(d)'
  <2>1. Had(Main, d)' = 1 .. read'[d] /\ Had(Main, d) = Had(Main, d)'
    BY <1>2, <1>5, <1>12 DEF Between
  <2>2. Had(Child, d)' \subseteq Had(Main, d)
    BY <1>4, <1>7, <1>12
  <2>3. \A n \in Had(Child, d)' : <<d, n>> \in shared'
    BY <1>2, <1>12
  <2> QED
    BY <2>1, <2>2, <2>3 DEF Between
<1>14. Reasons'
  <2>1. \A l \in lost : l.by = Main
    BY <1>2 DEF Hands
  <2>2. table' = [table EXCEPT ![Child] = table[Main]]
    BY DEF Fork, Forking
  <2>3. table'[Main] = table[Main]
    BY <1>0, <2>2 DEF TypeOK
  <2> QED
    BY <1>0, <1>2, <1>5, <2>1, <2>3 DEF Reasons, Holds
<1> QED
  BY <1>0, <1>12, <1>13, <1>14, PartsNext

\* A batch that leaves the hands of p: its beginning is replied to, its rest lost.
LEMMA BatchAccounts ==
  ASSUME TableInv, TypeOK', RepliesAccounted, NEW p \in Procs, NEW w, work[p] # Idle,
         NEW k \in 0 .. Len(work[p].cmds),
         \A q \in Procs, d \in Conns :
           out'[q][d] = IF q = p /\ d = work[p].conn THEN out[q][d] \o SubSeq(work[p].cmds, 1, k)
                        ELSE out[q][d],
         Losing(p, work[p].conn, ToSet(SubSeq(work[p].cmds, k + 1, Len(work[p].cmds))), w),
         work' = [work EXCEPT ![p] = Idle], UNCHANGED <<read, shared>>
  PROVE  \A d \in Conns : (\A q \in Procs : InOrder(q, d)') /\ Between(d)'
<1> USE DEF TableInv
<1>1. PICK c \in Conns, t \in Seq(Nat) : work[p].conn = c /\ work[p].cmds = t
  BY InHands
<1> DEFINE s == SubSeq(t, 1, k)
           u == SubSeq(t, k + 1, Len(t))
<1>2. s \in Seq(Nat) /\ u \in Seq(Nat) /\ t = s \o u
  BY <1>1, BeginningAndRest
<1>3. \A q \in Procs, d \in Conns :
        out'[q][d] = IF q = p /\ d = c THEN out[q][d] \o s ELSE out[q][d]
  BY <1>1
<1>4. \A q \in Procs, d \in Conns :
        LostBy(q, d)' = IF q = p /\ d = c THEN LostBy(q, d) \cup ToSet(u) ELSE LostBy(q, d)
  <2>1. Losing(p, c, ToSet(u), w)
    BY <1>1
  <2> HIDE DEF s, u
  <2> QED
    BY <1>1, <2>1, LosingLost
<1>5. \A q \in Procs : work'[q] = IF q = p THEN Idle ELSE work[q]
  BY DEF TypeOK
<1> HIDE DEF s, u
<1>6. \A d \in Conns : (\A q \in Procs : InOrder(q, d)) /\ Between(d)
  BY Parts
<1>7. ASSUME NEW q \in Procs, NEW d \in Conns, q # p \/ d # c
      PROVE  Line(q, d)' = Line(q, d)
  <2>0. out'[q][d] = out[q][d]
    BY <1>3, <1>7
  <2>1. CASE q # p
    <3>1. work'[q] = work[q]
      BY <1>5, <2>1
    <3> QED
      BY <2>0, <3>1, LineSame
  <2>2. CASE q = p /\ d # c
    <3>1. work[q].conn # d /\ work'[q].conn # d
      BY <1>1, <1>5, <2>2 DEF Idle
    <3> QED
      BY <2>0, <3>1, LineSame
  <2> QED
    BY <1>7, <2>1, <2>2
<1> DEFINE o == out[p][c]
<1>8. o \in Seq(Nat)
  BY <1>1 DEF TypeOK
<1>9. Line(p, c) = o \o t /\ Line(p, c)' = o \o s
  <2>1. work'[p].conn # c
    BY <1>1, <1>5 DEF Idle
  <2>2. Line(p, c)' = out'[p][c]
    BY <1>1, <2>1, LineNext
  <2>3. out'[p][c] = o \o s
    BY <1>1, <1>3
  <2>4. Line(p, c) = o \o t
    BY <1>1, LineType
  <2> QED
    BY <2>2, <2>3, <2>4
<1> HIDE DEF o
<1>10. InOrder(p, c) /\ Increasing(o \o t) /\ ToSet(o \o t) \cap LostBy(p, c) = {}
  BY <1>1, <1>6, <1>9 DEF InOrder
<1>11. /\ Increasing(o) /\ Increasing(s \o u) /\ \A x \in ToSet(o), y \in ToSet(s \o u) : x < y
       /\ ToSet(o \o t) = ToSet(o) \cup ToSet(s \o u)
  BY <1>1, <1>2, <1>8, <1>10, IncreasingBoth, ToSetOfBoth, ZenonT(60)
<1>12. /\ Increasing(s) /\ \A x \in ToSet(s), y \in ToSet(u) : x < y
       /\ ToSet(s \o u) = ToSet(s) \cup ToSet(u)
  BY <1>2, <1>11, IncreasingBoth, ToSetOfBoth
<1>13. /\ Increasing(o \o s) /\ ToSet(o \o s) = ToSet(o) \cup ToSet(s)
  BY <1>2, <1>8, <1>11, <1>12, IncreasingBoth, ToSetOfBoth
<1>14. (ToSet(o) \cup ToSet(s)) \cap ToSet(u) = {}
  <2>1. ToSet(u) \subseteq Nat
    BY <1>2, ToSetType
  <2>2. \A x \in ToSet(o) \cup ToSet(s), y \in ToSet(u) : x < y
    BY <1>11, <1>12
  <2> QED
    BY <2>1, <2>2
<1>15. InOrder(p, c)'
  BY <1>1, <1>4, <1>9, <1>10, <1>11, <1>12, <1>13, <1>14 DEF InOrder
<1>16. Had(p, c)' = Had(p, c)
  BY <1>1, <1>4, <1>9, <1>11, <1>12, <1>13 DEF Had
<1>17. ASSUME NEW q \in Procs, NEW d \in Conns, q # p \/ d # c
       PROVE  Had(q, d)' = Had(q, d) /\ InOrder(q, d)'
  BY <1>4, <1>6, <1>7, <1>17, SameHad
<1>18. ASSUME NEW d \in Conns PROVE Between(d)'
  BY <1>6, <1>16, <1>17, SameBetween
<1> QED
  BY <1>15, <1>17, <1>18

\* Lost for no cause that binds.
LEMMA MoreReasons ==
  ASSUME TableInv, Reasons, NEW p \in Procs, NEW c \in Conns, NEW N, NEW w, Losing(p, c, N, w),
         \A q \in Procs, f \in Fds : table'[q][f] \in {None, table[q][f]},
         status[Child] = "gone" => status'[Child] = "gone",
         w = "undecodable" => ~Holds(p, c)', w = "killed" => p = Child /\ status'[Child] = "gone"
  PROVE  Reasons'
<1>1. ASSUME NEW l \in lost, l.why = "undecodable" PROVE ~Holds(l.by, l.conn)'
  <2>1. ~Holds(l.by, l.conn) /\ l.by \in Procs /\ l.conn \in Conns
    BY <1>1 DEF Reasons, TableInv, TypeOK
  <2>2. l.conn # None
    BY <2>1
  <2> QED
    BY <2>1, <2>2 DEF Holds
<1>2. \A l \in lost' : l \in lost \/ (l.by = p /\ l.conn = c /\ l.why = w)
  BY DEF Losing
<1> QED
  BY <1>1, <1>2 DEF Reasons

\* A batch is replied to as far as the kernel takes it.
LEMMA RespondAccounts ==
  ASSUME TableInv, TypeOK', RepliesAccounted, NEW p \in Procs, Respond(p)
  PROVE  RepliesAccounted'
<1> USE DEF TableInv
<1> DEFINE c == work[p].conn
           t == work[p].cmds
<1>1. c \in Conns /\ t \in Seq(Nat) /\ work[p] # Idle
  BY InHands, SMTT(30) DEF Respond
<1>2. PICK k \in 0 .. Len(t) : /\ out' = [out EXCEPT ![p][c] = @ \o SubSeq(t, 1, k)]
                               /\ Losing(p, c, ToSet(SubSeq(t, k + 1, Len(t))), "refused")
  BY DEF Respond
<1>3. work' = [work EXCEPT ![p] = Idle] /\ UNCHANGED <<read, shared, status, table>>
  BY DEF Respond
<1>4. \A q \in Procs, d \in Conns :
        out'[q][d] = IF q = p /\ d = c THEN out[q][d] \o SubSeq(t, 1, k) ELSE out[q][d]
  <2> HIDE DEF c, t
  <2> QED
    BY <1>1, <1>2 DEF TypeOK
<1>5. \A d \in Conns : (\A q \in Procs : InOrder(q, d)') /\ Between(d)'
  BY <1>1, <1>2, <1>3, <1>4, BatchAccounts
<1>6. Reasons
  BY Parts
<1>7. Reasons'
  <2> HIDE DEF c, t
  <2> QED
    BY <1>1, <1>2, <1>3, <1>6, MoreReasons
<1> QED
  BY <1>5, <1>7, PartsNext

\* What dies with the child is lost.
LEMMA DieAccounts ==
  ASSUME TableInv, TypeOK', RepliesAccounted, Die
  PROVE  RepliesAccounted'
<1> USE DEF TableInv
<1>0. Main \in Procs /\ Child \in Procs /\ Main # Child /\ Procs = {Main, Child}
  BY DEF Procs
<1> DEFINE c == work[Child].conn
           t == work[Child].cmds
<1>1. /\ work' = [work EXCEPT ![Child] = Idle] /\ UNCHANGED <<read, out, shared>>
      /\ Losing(Child, c, ToSet(t), "killed")
      /\ status' = [status EXCEPT ![Child] = "gone"]
      /\ table' = [table EXCEPT ![Child] = [f \in Fds |-> None]]
  BY DEF Die
<1>2. status'[Child] = "gone"
  BY <1>0, <1>1 DEF TypeOK
<1>3. \A q \in Procs, f \in Fds : table'[q][f] \in {None, table[q][f]}
  BY <1>1 DEF TypeOK
<1>4. (\A d \in Conns : (\A q \in Procs : InOrder(q, d)) /\ Between(d)) /\ Reasons
  BY Parts
<1>5. CASE work[Child] = Idle
  <2>1. t = <<>>
    BY <1>5 DEF Idle
  <2>2. lost' = lost
    BY <1>1, <2>1 DEF Losing, ToSet
  <2>3. work' = work
    BY <1>1, <1>5 DEF TypeOK
  <2>4. \A q \in Procs, d \in Conns : Line(q, d)' = Line(q, d) /\ LostBy(q, d)' = LostBy(q, d)
    BY <1>1, <2>2, <2>3, LineSame DEF LostBy
  <2>6. \A d \in Conns : (\A q \in Procs : InOrder(q, d)') /\ Between(d)'
    BY <1>1, <1>4, <2>4, SameHad, SameBetween
  <2>5. Reasons'
    BY <1>2, <1>3, <1>4, <2>2, SameReasons
  <2> QED
    BY <2>5, <2>6, PartsNext
<1>6. CASE work[Child] # Idle
  <2>1. c \in Conns /\ t \in Seq(Nat)
    BY <1>0, <1>6, InHands
  <2>2. SubSeq(t, 1, 0) = <<>> /\ SubSeq(t, 0 + 1, Len(t)) = t /\ 0 \in 0 .. Len(t)
    BY <2>1
  <2>3. \A q \in Procs, d \in Conns :
          out'[q][d] = IF q = Child /\ d = c THEN out[q][d] \o SubSeq(t, 1, 0) ELSE out[q][d]
    <3>1. \A q \in Procs, d \in Conns : out[q][d] \o <<>> = out[q][d]
      BY DEF TypeOK
    <3> QED
      BY <1>1, <2>2, <3>1
  <2>4. Losing(Child, c, ToSet(SubSeq(t, 0 + 1, Len(t))), "killed")
    BY <1>1, <2>2
  <2>5. \A d \in Conns : (\A q \in Procs : InOrder(q, d)') /\ Between(d)'
    BY <1>0, <1>1, <1>6, <2>2, <2>3, <2>4, BatchAccounts
  <2>6. Reasons'
    <3> HIDE DEF c, t
    <3> QED
      BY <1>0, <1>1, <1>2, <1>3, <1>4, <2>1, MoreReasons
  <2> QED
    BY <2>5, <2>6, PartsNext
<1> QED
  BY <1>5, <1>6

\* What cannot be decoded is lost with the connection.
LEMMA RefuseAccounts ==
  ASSUME TableInv, TypeOK', RepliesAccounted, NEW p \in Procs, NEW e, Refuse(p, e)
  PROVE  RepliesAccounted'
<1> USE DEF TableInv
<1>1. PICK c \in Conns : /\ c = table[p][e.fd] /\ read' = [read EXCEPT ![c] = Len(asked[c])]
                         /\ Losing(p, c, ToSet(Numbers(c)), "undecodable")
  BY DEF Refuse
<1>2. /\ UNCHANGED <<asked, work, out, shared, status>> /\ Handle(p, e) /\ e.fd # Listener
      /\ table' = [table EXCEPT ![p][e.fd] = None]
  BY DEF Refuse, Drop, clientVars
<1>3. (\A d \in Conns : (\A q \in Procs : InOrder(q, d)) /\ Between(d)) /\ Reasons
  BY Parts
<1> DEFINE a == Len(asked[c])
<1>4. /\ read[c] \in Nat /\ a \in Nat /\ read[c] <= a /\ ToSet(Numbers(c)) = read[c] + 1 .. a
  <2>1. asked[c] \in Seq(Commands) /\ read[c] \in Nat /\ read[c] <= Len(asked[c])
    BY DEF TypeOK
  <2>2. Len(asked[c]) \in Nat
    BY ONLY <2>1
  <2> QED
    BY <2>1, <2>2, NumbersAre
<1>5. read'[c] = a /\ \A d \in Conns \ {c} : read'[d] = read[d]
  BY <1>1 DEF TypeOK
<1> HIDE DEF a
<1>6. \A q \in Procs, d \in Conns :
        LostBy(q, d)' = IF q = p /\ d = c THEN LostBy(q, d) \cup (read[c] + 1 .. a) ELSE LostBy(q, d)
  BY <1>1, <1>4, LosingLost
<1>7. \A q \in Procs, d \in Conns : Line(q, d)' = Line(q, d)
  BY <1>2, LineSame
<1>8. \A q \in Procs : Had(q, c) \subseteq 1 .. read[c]
  BY <1>3 DEF Between, Procs
<1>9. (1 .. read[c]) \cup (read[c] + 1 .. a) = 1 .. a
      /\ (1 .. read[c]) \cap (read[c] + 1 .. a) = {}
  BY <1>4
<1>10. InOrder(p, c)'
  <2>1. ToSet(Line(p, c)) \subseteq 1 .. read[c]
    BY <1>8 DEF Had
  <2> QED
    BY <1>3, <1>6, <1>7, <1>9, <2>1 DEF InOrder
<1>11. Had(p, c)' = Had(p, c) \cup (read[c] + 1 .. a)
  BY <1>6, <1>7 DEF Had
<1>12. ASSUME NEW q \in Procs, NEW d \in Conns, q # p \/ d # c
       PROVE  Had(q, d)' = Had(q, d) /\ InOrder(q, d)'
  BY <1>3, <1>6, <1>7, <1>12, SameHad
<1>13. Between(c)'
  <2>1. Had(Main, c) \cup Had(Child, c) = 1 .. read[c]
        /\ \A n \in Had(Main, c) \cap Had(Child, c) : <<c, n>> \in shared
    BY <1>3 DEF Between
  <2>2. CASE p = Main
    <3>1. Had(Main, c)' = Had(Main, c) \cup (read[c] + 1 .. a) /\ Had(Child, c)' = Had(Child, c)
      BY <1>11, <1>12, <2>2 DEF Procs
    <3> QED
      BY <1>2, <1>5, <1>9, <2>1, <3>1 DEF Between
  <2>3. CASE p = Child
    <3>1. Had(Child, c)' = Had(Child, c) \cup (read[c] + 1 .. a) /\ Had(Main, c)' = Had(Main, c)
      BY <1>11, <1>12, <2>3 DEF Procs
    <3> QED
      BY <1>2, <1>5, <1>9, <2>1, <3>1 DEF Between
  <2> QED
    BY <2>2, <2>3 DEF Procs
<1>14. ASSUME NEW d \in Conns \ {c} PROVE Between(d)'
  BY <1>2, <1>3, <1>5, <1>12, SameBetween
<1>15. Reasons'
  <2>1. e.fd \in Fds
    BY <1>2 DEF Handle, TypeOK, Events
  <2>2. \A q \in Procs, f \in Fds : table'[q][f] = IF q = p /\ f = e.fd THEN None ELSE table[q][f]
    BY <1>2 DEF TypeOK
  <2>3. \A f \in Fds : table[p][f] = c => f = e.fd
    BY <1>1, <2>1 DEF OneNumber
  <2>4. ~Holds(p, c)'
    BY <2>2, <2>3 DEF Holds
  <2> QED
    BY <1>1, <1>2, <1>3, <2>2, <2>4, MoreReasons
<1> QED
  BY <1>10, <1>12, <1>13, <1>14, <1>15, PartsNext

\* A step that reads, replies to and loses nothing.
LEMMA NothingAccounted ==
  ASSUME TableInv, [Next]_vars, RepliesAccounted, UNCHANGED <<read, work, out, lost, shared>>,
         \A p \in Procs, f \in Fds : table'[p][f] = table[p][f] \/ table'[p][f] = None
                                      \/ conn[table'[p][f]] # "accepted"
  PROVE  RepliesAccounted'
<1>1. (\A d \in Conns : (\A q \in Procs : InOrder(q, d)) /\ Between(d)) /\ Reasons
  BY Parts
<1>2. \A q \in Procs, d \in Conns : Line(q, d)' = Line(q, d) /\ LostBy(q, d)' = LostBy(q, d)
  BY DEF Line, LostBy
<1>3. \A d \in Conns : (\A q \in Procs : InOrder(q, d)') /\ Between(d)'
  BY <1>1, <1>2, SameHad, SameBetween
<1>4. Reasons'
  BY <1>1, Stays, SameReasons
<1> QED
  BY <1>3, <1>4, PartsNext

\* The account of replies is inductive.
LEMMA RepliesStep == TableInv /\ RepliesAccounted /\ [Next]_vars => RepliesAccounted'
<1> SUFFICES ASSUME TableInv, RepliesAccounted, [Next]_vars PROVE RepliesAccounted'
  OBVIOUS
<1>0. TypeOK'
  BY TypeStep
<1>1. ASSUME UNCHANGED <<read, work, out, lost, shared, table>> PROVE RepliesAccounted'
  BY <1>1, NothingAccounted
<1>2. CASE \E c \in Conns : Connect(c) \/ HangUp(c) \/ \E cmd \in Commands : SendCommand(c, cmd)
  BY <1>1, <1>2 DEF Connect, HangUp, SendCommand, batchVars
<1>3. ASSUME NEW p \in Procs, NEW e, Poll(p) \/ AcceptFails(p, e) \/ Skip(p, e)
      PROVE  RepliesAccounted'
  BY <1>1, <1>3 DEF Poll, AcceptFails, Skip, batchVars
<1>4. ASSUME NEW p \in Procs, NEW e, Accept(p, e) PROVE RepliesAccounted'
  <2>1. PICK c \in Backlog, fd \in Fds : table' = [table EXCEPT ![p][fd] = c]
    BY <1>4 DEF Accept
  <2>2. conn[c] # "accepted"
    BY DEF Backlog
  <2>3. \A q \in Procs, f \in Fds : table'[q][f] = table[q][f] \/ table'[q][f] = c
    BY <2>1 DEF TableInv, TypeOK
  <2>4. UNCHANGED <<read, work, out, lost, shared>>
    BY <1>4 DEF Accept, batchVars
  <2> QED
    BY <2>2, <2>3, <2>4, NothingAccounted
<1>5. ASSUME NEW p \in Procs, NEW e, Close(p, e) PROVE RepliesAccounted'
  <2>1. table' = [table EXCEPT ![p][e.fd] = None] /\ UNCHANGED <<read, work, out, lost, shared>>
    BY <1>5 DEF Close, Drop
  <2>2. \A q \in Procs, f \in Fds : table'[q][f] = table[q][f] \/ table'[q][f] = None
    BY <2>1 DEF TableInv, TypeOK
  <2> QED
    BY <2>1, <2>2, NothingAccounted
<1>6. CASE DumpDone \/ UNCHANGED vars
  BY <1>1, <1>6 DEF DumpDone, vars, batchVars
<1> QED
  BY <1>0, <1>2, <1>3, <1>4, <1>5, <1>6, ReadAccounts, ForkAccounts, RespondAccounts, RefuseAccounts,
     DieAccounts DEF Next, Loop
-----------------------------------------------------------------------------
DescriptorsInv == TableInv /\ EventsInv /\ RepliesAccounted

\* It holds always.
LEMMA DescriptorsInvariant == Spec => []DescriptorsInv
<1>1. Init => DescriptorsInv
  <2> SUFFICES ASSUME Init PROVE EventsInv /\ RepliesAccounted
    BY TableInit DEF DescriptorsInv
  <2>2. EventsInv
    <3>1. events[Main] = {} /\ \A p \in Procs : events[p] = {}
      BY DEF Init, Procs
    <3> QED
      BY <3>1 DEF EventsInv, ListenerEvents, EventsStayTrue
  <2>3. RepliesAccounted
    BY RepliesInit
  <2> QED
    BY <2>2, <2>3
<1>2. DescriptorsInv /\ [Next]_vars => DescriptorsInv'
  BY TableStep, EventsStep, RepliesStep DEF DescriptorsInv
<1> QED
  BY <1>1, <1>2, PTL DEF Spec

\* What epoll watches is what some process has open, under the number that
\* process has for it, however descriptors are taken, inherited and given back.
THEOREM WatchedWhileOpenAlways == Spec => []WatchedWhileOpen
<1>1. DescriptorsInv => WatchedWhileOpen
  BY DEF DescriptorsInv, TableInv
<1> QED
  BY <1>1, DescriptorsInvariant, PTL

\* Until a process is forked, the events still to be handled are true whatever
\* the ones before them did, for any number of connections.
THEOREM EventsAreTrue == Spec => []EventsStayTrue
<1>1. DescriptorsInv => EventsStayTrue
  BY DEF DescriptorsInv, EventsInv
<1> QED
  BY <1>1, DescriptorsInvariant, PTL

\* Two processes that read the same connections account for every command
\* read, whenever one of them stops between reading and replying, whatever the
\* kernel refuses and whichever of them gives up a connection: each replies in
\* order and at most once, both only to what was in hand when the child was
\* forked, and nothing is lost without a cause.
THEOREM RepliesBalance == Spec => []RepliesAccounted
<1>1. DescriptorsInv => RepliesAccounted
  BY DEF DescriptorsInv
<1> QED
  BY <1>1, DescriptorsInvariant, PTL

\* The types of the tables, events and counts.
THEOREM DescriptorsTypes == Spec => []TypeOK
<1>1. DescriptorsInv => TypeOK
  BY DEF DescriptorsInv, TableInv
<1> QED
  BY <1>1, DescriptorsInvariant, PTL
=============================================================================
