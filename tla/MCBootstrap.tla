---------------------------- MODULE MCBootstrap ----------------------------
(* Instance of Bootstrap for TLC. *)
EXTENDS Bootstrap, TLC

Symmetry == Permutations(Proc)
=============================================================================
