------------------------------- MODULE MCAof -------------------------------
(***************************************************************************)
(* A small instance of the dumps: keys and children are interchangeable.   *)
(* An earlier run has left no file, one without records, or a record and a *)
(* torn one.                                                               *)
(***************************************************************************)
EXTENDS Aof, TLC

Symmetry == Permutations(Keys) \cup Permutations(Children)

LeftByEarlierRun ==
  {<<>>} \cup UNION {{Record(k, v) \o SubSeq(Record(l, v), 1, 1) : l \in Keys \ {k}} :
                       k \in Keys, v \in Long}
=============================================================================
