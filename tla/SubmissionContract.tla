-------------------------- MODULE SubmissionContract --------------------------
(***************************************************************************)
(* What the profile store promises the client of `submit` and `await`, and *)
(* nothing of how: an accepted submission is pending until it settles on   *)
(* one outcome, the outcome never changes while it is retained, the        *)
(* retention sweep turns it into a payload-free tombstone and removes it.  *)
(***************************************************************************)
CONSTANTS Id, Outcome

VARIABLE view  \* what a client can observe of each submission

NoOutcome == <<>>

Absent  == [phase |-> "absent",  outcome |-> NoOutcome]
Pending == [phase |-> "pending", outcome |-> NoOutcome]
Gone    == [phase |-> "expired", outcome |-> NoOutcome]

Settled(out) == [phase |-> "settled", outcome |-> out]

View == {Absent, Pending, Gone} \union {Settled(out) : out \in Outcome}

Init == view = [id \in Id |-> Absent]

Accept(id) ==
    /\ view[id] = Absent
    /\ view' = [view EXCEPT ![id] = Pending]

Settle(id, out) ==
    /\ view[id] = Pending
    /\ view' = [view EXCEPT ![id] = Settled(out)]

\* One sweep retires any set of settled submissions; it never touches a
\* pending one, and a tombstone only disappears.
Sweep ==
    /\ view' \in [Id -> View]
    /\ \A id \in Id :
          \/ view'[id] = view[id]
          \/ view[id].phase = "settled" /\ view'[id] \in {Gone, Absent}
          \/ view[id] = Gone /\ view'[id] = Absent

Next ==
    \/ \E id \in Id : Accept(id)
    \/ \E id \in Id, out \in Outcome : Settle(id, out)
    \/ Sweep

Spec == Init /\ [][Next]_view
=============================================================================
