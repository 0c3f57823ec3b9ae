-------------------------------- MODULE Wire --------------------------------
(***************************************************************************)
(* One connection: a client that sends commands as byte strings, the       *)
(* stream, and the server, which decodes whatever one read returns as if   *)
(* it were whole commands (server/sync_tcp.go, core/comm.go).              *)
(*                                                                         *)
(* A patient client is that of storm/set/main.go: it waits for a reply     *)
(* before it sends again.  Any other sends, receives and hangs up as it    *)
(* likes.  A connection that ends, ends for one of two reasons: closed, or *)
(* the server's process has crashed.                                       *)
(***************************************************************************)
EXTENDS Resp

CONSTANTS
  Commands,   \* sequences of tokens, of any bytes
  BufSize,    \* bytes of the buffer of a read: 512
  SendBuf,    \* replies the kernel keeps for a client that does not receive
  MaxSent     \* bound of the model: commands sent

ASSUME WireAssumption ==
  /\ \A c \in Commands : c # <<>> /\ c \in Seq(Seq(1 .. 255))
  /\ {BufSize, SendBuf, MaxSent} \subseteq Nat \ {0}
  /\ Half \in Nat /\ Half > 120

VARIABLES
  patient,    \* the client waits for each reply
  sent,       \* commands the client has sent
  done,       \* the client has hung up
  at,         \* bytes of the stream the server has read
  torn,       \* a read has ended within a command
  astray,     \* history: a read has begun within a command, at a "*"
  conn,       \* "open", "closed" or "crashed"
  executed,   \* commands the server has executed
  answered,   \* replies the kernel has taken from the server
  got         \* replies the client has received

vars == <<patient, sent, done, at, torn, astray, conn, executed, answered, got>>

Encoded == [c \in Commands |-> EncodeStrings(c)]
Stream(cmds) == FlattenSeq([i \in DOMAIN cmds |-> Encoded[cmds[i]]])

\* Where the i-th command sent ends.
Border(i) == Len(Stream(SubSeq(sent, 1, i)))
Borders == {Border(i) : i \in 0 .. Len(sent)}

Unread == Len(Stream(sent)) - at

Init ==
  /\ patient \in BOOLEAN
  /\ sent = <<>> /\ done = FALSE
  /\ at = 0 /\ torn = FALSE /\ astray = FALSE /\ conn = "open"
  /\ executed = <<>> /\ answered = 0 /\ got = 0
-----------------------------------------------------------------------------
Send ==
  /\ ~done /\ conn = "open" /\ Len(sent) < MaxSent
  /\ patient => got = Len(sent)
  /\ \E c \in Commands : sent' = Append(sent, c)
  /\ UNCHANGED <<patient, done, at, torn, astray, conn, executed, answered, got>>

Receive ==
  /\ ~done /\ got < answered
  /\ patient => got < Len(sent)
  /\ got' = got + 1
  /\ UNCHANGED <<patient, sent, done, at, torn, astray, conn, executed, answered>>

\* A patient client returns when its connection ends.
HangUp ==
  /\ ~done /\ (patient => conn # "open")
  /\ done' = TRUE
  /\ UNCHANGED <<patient, sent, at, torn, astray, conn, executed, answered, got>>
-----------------------------------------------------------------------------
\* Values that are no commands skipped.
toArrayStringSkips(values) ==
  LET good == SelectSeq(values, LAMBDA v : v[1] = "array")
  IN Value([i \in DOMAIN good |-> [j \in DOMAIN good[i][2] |-> good[i][2][j][2]]], 0)

\* Every value must be an array, every element a string: the assertions panic.
toArrayString(values) ==
  IF \A v \in ToSet(values) : v[1] = "array" /\ \A e \in ToSet(v[2]) : e[1] = "string"
  THEN Value([i \in DOMAIN values |-> [j \in DOMAIN values[i][2] |-> values[i][2][j][2]]], 0)
  ELSE Outcome("panic")

\* A command without tokens has no first one.
WithFirst(cmds) == IF cmds.out = "value" /\ <<>> \in ToSet(cmds.val) THEN Outcome("panic") ELSE cmds
CommandsOf(d) == IF d.out = "value" THEN WithFirst(toArrayString(d.val)) ELSE d
readCommands(b, n) == CommandsOf(Decode(b, n))

\* The bytes one read of n bytes leaves in a buffer of size bytes.
Buffer(n, size) == SubSeq(Stream(sent), at + 1, at + n) \o [i \in 1 .. size - n |-> NUL]

\* A connection answered once.
RespondOnce(cmds) == answered' = IF cmds # <<>> /\ answered = 0 THEN 1 ELSE answered

\* The result of the write is ignored, and so is what did not fit.
Respond(cmds) == answered' = answered + Min({Len(cmds), SendBuf - (answered - got)})

\* A panic ends the process, an error the connection.
Serve(cmds) ==
  IF cmds.out = "value"
  THEN executed' = executed \o cmds.val /\ Respond(cmds.val) /\ UNCHANGED conn
  ELSE /\ conn' = IF cmds.out = "panic" THEN "crashed" ELSE "closed"
       /\ UNCHANGED <<executed, answered>>

\* Each read starts afresh.
Read ==
  /\ conn = "open"
  /\ \E n \in 1 .. Min({BufSize, Unread}) :
       /\ at' = at + n
       /\ torn' = (torn \/ at + n \notin Borders)
       /\ astray' = (astray \/ (at \notin Borders /\ Stream(sent)[at + 1] = Star))
       /\ Serve(readCommands(Buffer(n, BufSize), n))
  /\ UNCHANGED <<patient, sent, done, got>>

\* A client that has gone: the read returns nothing, or an error if it left
\* replies behind.  Either way the connection is closed.
ReadEnd ==
  /\ conn = "open" /\ done
  /\ Unread = 0 \/ got < answered
  /\ conn' = "closed"
  /\ UNCHANGED <<patient, sent, done, at, torn, astray, executed, answered, got>>
-----------------------------------------------------------------------------
Next == Send \/ Receive \/ HangUp \/ Read \/ ReadEnd

Spec == Init /\ [][Next]_vars

\* The event loop reads from a connection that has something to read; the client
\* receives what has come.
FairSpec == Spec /\ WF_vars(Read) /\ WF_vars(Receive)
-----------------------------------------------------------------------------
\* As long as every read ends between two commands, the server executes exactly
\* the commands it has read and neither crashes nor closes on a client that is
\* still there (readCommands, sync_tcp.go:19-50).
UncutIsExact ==
  ~torn => /\ \E i \in 0 .. Len(sent) : at = Border(i) /\ executed = SubSeq(sent, 1, i)
           /\ conn = "open" \/ (conn = "closed" /\ done)

\* What a read that ends within a command makes of it: all of it but the last
\* argument, which is empty or ends in NULs (readBulkString, resp.go:69).
Spoils(e, s) ==
  /\ Len(e) = Len(s) /\ Front(e) = Front(s)
  /\ \/ Last(e) = <<>>
     \/ /\ Len(Last(e)) = Len(Last(s))
        /\ \E k \in 0 .. Len(Last(s)) : \A i \in DOMAIN Last(s) :
             Last(e)[i] = IF i <= k THEN Last(s)[i] ELSE NUL

\* The server executes what the client sent, in that order, and nothing else;
\* only the last command may be spoiled, and only by a read that tore it.  One
\* thing alone misleads it: a read that begins at a "*" within a command, whose
\* tokens it then takes for commands (Decode, resp.go:113-133).
Intact ==
  ~astray =>
    /\ Len(executed) <= Len(sent)
    /\ \A i \in 1 .. Len(executed) :
         executed[i] = sent[i] \/ (torn /\ i = Len(executed) /\ Spoils(executed[i], sent[i]))

\* A command of which the server has read a byte has been executed or has cost
\* the client its connection; none waits for its rest, and none that came with
\* a spoiled one is skipped in silence (Decode, resp.go:120-131).  That too is
\* undone by a read that begins at a "*" within a command.
BegunIsExecuted ==
  conn = "open" /\ ~astray => Len(executed) = Cardinality({i \in 1 .. Len(sent) : Border(i - 1) < at})

\* After a read that ended within a command nothing of that connection is
\* executed any more, neither a command sent later nor what is left over of the
\* torn one, unless a read begins at a "*" of the rest: the only bytes that are
\* taken for a command are those of a token that reads like one.
NothingAfterTorn == [][torn /\ ~astray' => executed' = executed]_vars

\* Java decodes no command before it has all of it but the last CRLF, so it
\* never sees the arguments Go makes up.  A lone "*" it takes for an empty array
\* (RESPDecoder.java:66-79).
JavaNeverPads ==
  \A c \in Commands :
    LET b == Encoded[c]
        value == Arr([i \in DOMAIN c |-> Str(c[i])])
    IN \A n \in 0 .. Len(b) :
         LET d == decode(SubSeq(b, 1, n)) IN
         CASE n = 1 -> d.val = Arr(<<>>)
           [] n >= Len(b) - 2 -> d.val = value
           [] OTHER -> d.out = "error"

\* Replies, as pairs of what is encoded and how, and what a reader should see:
\* bulk strings of any bytes, one-line texts, the integers of TTL and INCR, nil.
Texts == {t \in UNION {ToSet(c) : c \in Commands} : CR \notin ToSet(t)}
Replies ==
  ({Str(t) : t \in Texts} \X {TRUE})
    \cup (({Str(t) : t \in UNION {ToSet(c) : c \in Commands}} \cup {Error(t) : t \in Texts}
            \cup {Integer(i) : i \in -120 .. 120} \cup {NoValue}) \X {FALSE})
Seen(v) == CASE v[1] = "error" -> Str(v[2])
             [] v = NoValue -> Str(<<>>)
             [] OTHER -> v

\* What Go's own decoder sees: the sign of an integer is one more digit to it.
SeenByGo(v) ==
  IF v[1] = "int" /\ v[2] < 0 THEN Integer(Int64(Number(Signed(v[2])))) ELSE Seen(v)

\* Every reply the server encodes is read back by both decoders, alone or
\* gathered by EXEC, as one value that takes all the bytes.  Java sees the right
\* one, but that nil reads as an empty string; so does Go, but that it reads
\* another number for a negative one (readInt64, resp.go:51).
RepliesRoundTrip ==
  LET bytes(r) == Encode(r[1], r[2])
      read(b, g, j) ==
        /\ Decode(b, Len(b)) = Value(<<g>>, Len(b))
        /\ decode(b) = Value(j, Len(b))
  IN /\ \A r \in Replies : read(bytes(r), SeenByGo(r[1]), Seen(r[1]))
     /\ \A r \in Replies, i \in {NoValue, Integer(7), Integer(-2)} :
          read(TxnExec(<<bytes(r), Encode(i, FALSE)>>),
               Arr(<<SeenByGo(r[1]), SeenByGo(i)>>), Arr(<<Seen(r[1]), Seen(i)>>))

\* The codecs agree on what the server sends, and on whole commands.  That is
\* the same in every state; it is evaluated where nothing has been sent.
CodecsAgree == sent = <<>> => RepliesRoundTrip /\ JavaNeverPads

\* A command a patient client has sent is answered in the end, unless the
\* connection ends: however its bytes arrive nobody waits for ever, and no reply
\* is lost for want of room (storm/set/main.go:34-45; Client.Write, comm.go:17).
ReplyOrEnd == (patient /\ got < Len(sent)) ~> (got = Len(sent) \/ conn # "open")
=============================================================================
