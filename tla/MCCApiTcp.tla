------------------------------ MODULE MCCApiTcp ------------------------------
(* CApiTcp on a small instance. *)
EXTENDS CApiTcp, TLC

Names == Permutations(Conns) \cup Permutations(Ctxs) \cup Permutations(Fds)
==============================================================================
