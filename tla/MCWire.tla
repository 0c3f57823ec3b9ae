------------------------------- MODULE MCWire -------------------------------
EXTENDS Wire

G == 71   S == 83   A == 97   Five == 53

\* GET, SET of a text that reads like a GET, SET of a negative number, and a SET
\* longer than a buffer.
MCCommands ==
  {<<<<G>>>>, <<<<S>>, EncodeStrings(<<<<G>>>>)>>, <<<<S>>, <<Minus, Five>>>>,
   <<<<S>>, <<>>, [i \in 1 .. 10 |-> A]>>}
=============================================================================
