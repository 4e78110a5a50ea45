----------------------------- MODULE Lifecycle -----------------------------
(***************************************************************************)
(* The normalized submission state machine of internal/submission, the     *)
(* single definition the store enforces for every writer.                  *)
(***************************************************************************)
EXTENDS Naturals

Pending == {"accepted", "queued", "running", "input_required"}

Terminal == {"completed", "failed", "cancelled", "expired", "outcome_unknown"}

State == Pending \union Terminal

\* The legal moves: accepted, queued, running; running and input_required to
\* each other; either of them to any terminal state.
Allowed(from, to) ==
    \/ from = "accepted" /\ to = "queued"
    \/ from = "queued" /\ to = "running"
    \/ from = "running" /\ to \in {"input_required"} \union Terminal
    \/ from = "input_required" /\ to \in {"running"} \union Terminal

FirstSequence == 1

\* An event sequence is acceptable after `previous`.
CheckSequence(sequence, previous) ==
    sequence >= FirstSequence /\ sequence > previous
=============================================================================
