----------------------------- MODULE MCKeyspace -----------------------------
(***************************************************************************)
(* Small instances of the keyspace for TLC.                                *)
(***************************************************************************)
EXTENDS KeyspaceProps, TLC

\* No EX, or a duration that is not positive; and one second.
MCSecs == {-1, 1}

\* Only durations that make EXPIRE expire a key at once.
MCPast == {-1}

Symmetry == Permutations(Keys) \cup Permutations(Objs)
=============================================================================
