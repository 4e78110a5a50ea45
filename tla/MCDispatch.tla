----------------------------- MODULE MCDispatch -----------------------------
(* Instance of Dispatch for TLC. *)
EXTENDS Dispatch

\* An earlier process left one pending submission; which one makes no difference
\* to the others.
OneLeft == Init /\ created = <<CHOOSE id \in Id : TRUE>> /\ settled = {}

LiveSpec == OneLeft /\ [][Next]_vars /\ Fairness
=============================================================================
