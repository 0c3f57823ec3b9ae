------------------------------- MODULE MCTxn -------------------------------
(***************************************************************************)
(* A small instance of the clients: their descriptors are interchangeable. *)
(***************************************************************************)
EXTENDS Txn, TLC

Symmetry == Permutations(Fds)
=============================================================================
