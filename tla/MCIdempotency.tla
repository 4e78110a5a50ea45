---------------------------- MODULE MCIdempotency ----------------------------
(* Instance of Idempotency for TLC. *)
EXTENDS Idempotency, TLC

Symmetry ==
    Permutations(Call) \union Permutations(Id) \union Permutations(Thread)
        \union Permutations(Args) \union Permutations(Key)
=============================================================================
