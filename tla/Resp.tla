-------------------------------- MODULE Resp --------------------------------
(***************************************************************************)
(* The RESP codec: Decode and Encode of go/core/resp.go, and the part of   *)
(* java/.../RESPDecoder.java that reads the same types.                    *)
(*                                                                         *)
(* Bytes are numbers.  Go reads a slice: the first n bytes of a buffer     *)
(* whose other bytes are NUL.  A slice expression may reach beyond n, to   *)
(* the end of the buffer; an index may not.  Positions count from 0.       *)
(***************************************************************************)
EXTENDS Integers, Sequences, SequencesExt, FiniteSetsExt

CONSTANT Half   \* an int64, or a Java long, is one of -Half .. Half - 1: 2^63

NUL == 0   LF == 10   CR == 13
Dollar == 36   Star == 42   Plus == 43   Minus == 45   Colon == 58
CRLF == <<CR, LF>>
Digits == 48 .. 57

\* Values: strings, integers, arrays, and what an unknown type is read as.
Str(s) == <<"string", s>>
Integer(i) == <<"int", i>>
Arr(elems) == <<"array", elems>>
NoValue == <<"nil">>
Error(s) == <<"error", s>>

\* What a reader returns: a value and the position after it, or another outcome.
Value(v, next) == [out |-> "value", val |-> v, next |-> next]
Outcome(kind) == [out |-> kind, val |-> NoValue, next |-> 0]

\* Bytes from .. to - 1 of b.
Slice(b, from, to) == SubSeq(b, from + 1, to)

\* The first position of b from p on, and before n, whose byte satisfies P; n
\* if there is none.
First(b, p, n, P(_)) ==
  CHOOSE i \in p .. n : (i = n \/ P(b[i + 1])) /\ \A j \in p .. i - 1 : ~P(b[j + 1])

\* What is left of a number in 64 bits.
Int64(v) == IF v \in -Half .. Half - 1 THEN v ELSE ((v + Half) % (2 * Half)) - Half

\* The number some bytes stand for; a byte that is no digit wraps around.
Number(s) ==
  LET value[i \in 0 .. Len(s)] ==
        IF i = 0 THEN 0 ELSE value[i - 1] * 10 + ((s[i] - 48) % 256)
  IN value[Len(s)]
-----------------------------------------------------------------------------
Length(b, p, e) == [length |-> Number(Slice(b, p, e)), next |-> e + 2]

\* A length whose terminator has not arrived taken for complete.
readLengthEager(b, p, n) == Length(b, p, First(b, p, n, LAMBDA c : c \notin Digits))

\* A length and the position after it and its CRLF; without a terminator it is
\* 0 and nothing has been read.
readLength(b, p, n) ==
  LET e == First(b, p, n, LAMBDA c : c \notin Digits)
  IN IF e < n THEN Length(b, p, e) ELSE [length |-> 0, next |-> p]

\* Both search for CR without looking at the end of the slice.
readSimpleString(b, p, n) ==
  LET e == First(b, p + 1, n, LAMBDA c : c = CR)
  IN IF e = n THEN Outcome("panic") ELSE Value(Str(Slice(b, p + 1, e)), e + 2)

readInt64(b, p, n) ==
  LET e == First(b, p + 1, n, LAMBDA c : c = CR)
  IN IF e = n THEN Outcome("panic") ELSE Value(Integer(Int64(Number(Slice(b, p + 1, e)))), e + 2)

\* r.length bytes from r.next on, and a CRLF; what reaches beyond the array fails.
StringAt(b, r, failure) ==
  IF r.next + r.length > Len(b) THEN Outcome(failure)
  ELSE Value(Str(Slice(b, r.next, r.next + r.length)), r.next + r.length + 2)

\* The string may lie beyond the slice, not beyond the buffer.
readBulkString(b, p, n) == StringAt(b, readLength(b, p + 1, n), "panic")

\* The elements a with the one after them, which one[q] reads at its position q.
\* An element of unknown type is nil and takes no bytes.
WithElement(one, a, n) ==
  LET e == one[a.next] IN
  IF a.out # "value" THEN a
  ELSE IF a.next > n THEN Outcome("panic")
  ELSE IF a.next = n THEN Outcome("error")
  ELSE IF e.out \in {"panic", "error"} THEN e
  ELSE Value(Append(a.val, e.val), IF e.out = "value" THEN e.next ELSE a.next)

\* r.length elements from r.next on.
Elements(one, r, n) ==
  LET read[i \in 0 .. r.length] ==
        IF i = 0 THEN Value(<<>>, r.next) ELSE WithElement(one, read[i - 1], n)
  IN read[r.length]

ArrayOf(elems) == IF elems.out = "value" THEN [elems EXCEPT !.val = Arr(@)] ELSE elems

readArray(b, p, n, one) == ArrayOf(Elements(one, readLength(b, p + 1, n), n))

\* What stands at position p, where one[q] stands at any later q.
DecodeAt(b, p, n, one) ==
  CASE b[p + 1] \in {Plus, Minus} -> readSimpleString(b, p, n)
    [] b[p + 1] = Colon -> readInt64(b, p, n)
    [] b[p + 1] = Dollar -> readBulkString(b, p, n)
    [] b[p + 1] = Star -> readArray(b, p, n, one)
    [] OTHER -> Outcome("unknown")

\* What stands at each position of the slice.
DecodeOne(b, n) == LET one[p \in 0 .. n - 1] == DecodeAt(b, p, n, one) IN one

\* All values from position p on: the one there, and the rest.
Before(v, rest) == IF rest.out = "value" THEN Value(<<v.val>> \o rest.val, rest.next) ELSE rest
Onwards(v, all, n) ==
  IF v.out # "value" THEN Outcome(v.out)
  ELSE IF v.next >= n THEN Value(<<v.val>>, v.next)
  ELSE Before(v, all[v.next])
Values(one, n) == LET all[p \in 0 .. n - 1] == Onwards(one[p], all, n) IN all

\* Values up to one of unknown type, and no word about it.
DecodeStops(b, n) ==
  LET stop(v) == IF v.out = "unknown" THEN Value(NoValue, n) ELSE v
      one == DecodeOne(b, n)
      known(d) ==
        IF d.out = "value" THEN [d EXCEPT !.val = SelectSeq(@, LAMBDA v : v # NoValue)] ELSE d
  IN IF n = 0 THEN Outcome("error")
     ELSE known(Values([p \in 0 .. n - 1 |-> stop(one[p])], n)[0])

\* All values of the slice.  An unknown type, an error or a panic spoils those
\* read before it.
Decode(b, n) == IF n = 0 THEN Outcome("error") ELSE Values(DecodeOne(b, n), n)[0]
-----------------------------------------------------------------------------
Decimal[i \in Nat] == IF i < 10 THEN <<48 + i>> ELSE Append(Decimal[i \div 10], 48 + (i % 10))
Signed(i) == IF i < 0 THEN <<Minus>> \o Decimal[-i] ELSE Decimal[i]

\* The length of a string off by its terminator.
encodeStringLong(s) == <<Dollar>> \o Decimal[Len(s) + 2] \o CRLF \o s \o CRLF

encodeString(s) == <<Dollar>> \o Decimal[Len(s)] \o CRLF \o s \o CRLF

EncodeStrings(ss) ==
  <<Star>> \o Decimal[Len(ss)] \o CRLF \o FlattenSeq([i \in DOMAIN ss |-> encodeString(ss[i])])

RESP_NIL == <<Dollar, Minus, 49>> \o CRLF

Encode(value, isSimple) ==
  CASE value[1] = "string" /\ isSimple -> <<Plus>> \o value[2] \o CRLF
    [] value[1] = "string" /\ ~isSimple -> encodeString(value[2])
    [] value[1] = "int" -> <<Colon>> \o Signed(value[2]) \o CRLF
    [] value[1] = "strings" -> EncodeStrings(value[2])
    [] value[1] = "error" -> <<Minus>> \o value[2] \o CRLF
    [] OTHER -> RESP_NIL

\* The replies within a transaction are gathered as they are.
TxnExec(replies) == <<Star>> \o Decimal[Len(replies)] \o CRLF \o FlattenSeq(replies)
-----------------------------------------------------------------------------
\* Java: the same types read from an array of n bytes; whatever reaches beyond
\* it throws.
readLen(b, p, n) == Length(b, p, First(b, p, n, LAMBDA c : c \notin Digits))

\* A byte has a sign, and so has what it adds to a number.
JavaNumber(s) ==
  LET digit(c) == (IF c < 128 THEN c ELSE c - 256) - 48
      value[i \in 0 .. Len(s)] ==
        IF i = 0 THEN 0 ELSE value[i - 1] * 10 + digit(s[i])
  IN value[Len(s)]

\* A sign that is skipped.
readLongUnsigned(b, p, n) ==
  LET from == IF b[p + 1] \in {Plus, Minus} THEN p + 1 ELSE p
      e == First(b, from, n, LAMBDA c : c = CR)
  IN Value(Integer(Int64(JavaNumber(Slice(b, from, e)))), e + 2)

readLong(b, p, n) ==
  LET signed == p < n /\ b[p + 1] \in {Plus, Minus}
      from == IF signed THEN p + 1 ELSE p
      e == First(b, from, n, LAMBDA c : c = CR)
      v == JavaNumber(Slice(b, from, e))
  IN IF e >= n THEN Outcome("error")
     ELSE Value(Integer(Int64(IF signed /\ b[p + 1] = Minus THEN -v ELSE v)), e + 2)

\* A search for CR that the end of the array ends.
readSimple(b, p, n) ==
  LET e == First(b, p, n, LAMBDA c : c = CR)
  IN IF e >= n THEN Outcome("error") ELSE Value(Str(Slice(b, p, e)), e + 2)

Throws(v) == IF v.out = "value" THEN v ELSE Outcome("error")

\* What stands at position p, where one[q] stands at any later q.
decodeAt(b, p, n, one) ==
  CASE b[p + 1] \in {Plus, Minus} -> readSimple(b, p + 1, n)
    [] b[p + 1] = Colon -> readLong(b, p + 1, n)
    [] b[p + 1] = Dollar -> StringAt(b, readLen(b, p + 1, n), "error")
    [] b[p + 1] = Star -> Throws(ArrayOf(Elements(one, readLen(b, p + 1, n), n)))
    [] OTHER -> Outcome("error")

decodeOne(b) == LET one[p \in 0 .. Len(b) - 1] == decodeAt(b, p, Len(b), one) IN one

\* decode reads one value.
decode(b) == IF b = <<>> THEN Outcome("error") ELSE decodeOne(b)[0]
=============================================================================
