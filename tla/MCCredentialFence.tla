------------------------- MODULE MCCredentialFence -------------------------
(* Instance of CredentialFence for TLC. *)
EXTENDS CredentialFence, TLC

Symmetry == Permutations(Proc)
=============================================================================
