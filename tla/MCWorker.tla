------------------------------ MODULE MCWorker ------------------------------
(* Worker for TLC: the RPC threads are interchangeable. *)
EXTENDS Worker, TLC

Symmetry == Permutations(Handlers)
=============================================================================
