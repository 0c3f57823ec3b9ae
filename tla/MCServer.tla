------------------------------ MODULE MCServer ------------------------------
(***************************************************************************)
(* A small instance of the server: its connections are interchangeable.    *)
(***************************************************************************)
EXTENDS Server, TLC

Symmetry == Permutations(Conns)
=============================================================================
