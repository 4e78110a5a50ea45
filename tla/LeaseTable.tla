----------------------------- MODULE LeaseTable -----------------------------
(***************************************************************************)
(* One row of the SQLite `leases` table and the four statements of         *)
(* internal/store/lease.go that read or write it.  A deadline is kept as   *)
(* the time left until it (`left`), which is what every comparison with    *)
(* the clock reduces to: expires_at > now is left > 0, expires_at <= now   *)
(* is left = 0.  A row with no owner is a row that does not exist.         *)
(*                                                                         *)
(* The statements take the clock before they wait for SQLite's write lock. *)
(* `wait` is the time that passes in between: the new deadline is already  *)
(* `wait` old when it is written, and RenewLease compares with the clock   *)
(* of `wait` ago.                                                          *)
(***************************************************************************)
EXTENDS Naturals

CONSTANTS NoOwner,  \* no row
          TTL       \* lease duration, in ticks

ASSUME TTLAssumption == TTL \in Nat \ {0}

NoLease == [owner |-> NoOwner, left |-> 0, gen |-> 0]

LeaseRow(Owners) ==
    [owner : Owners \union {NoOwner}, left : 0..TTL, gen : Nat]

\* requireLiveLease: the row names the owner and has not expired.
Live(row, owner) == row.owner = owner /\ row.left > 0

\* Mutated forms (a plausible bug each): a claim takes a lease a tick before it
\* expires; an expired lease stays its owner's; the gate trusts the generation
\* alone; a release deletes the row whoever owns it.
ClaimableOneEarly(row, owner) ==
    row.owner = NoOwner \/ row.left <= 1 \/ row.owner = owner

ClaimableIfReleased(row, owner) == row.owner = NoOwner \/ row.owner = owner

CommitLeaseByGeneration(row, owner, gen, wait) ==
    row.gen = gen /\ (row.left > 0 \/ wait > 0)

ReleaseAnyLease(row, owner) == NoLease

\* A claim takes a missing or an expired row, or the claimant's own.
Claimable(row, owner) ==
    row.owner = NoOwner \/ row.left = 0 \/ row.owner = owner

\* A claim by a different owner advances the generation of an existing row;
\* a missing row is inserted with generation 1.
ClaimLease(row, owner, wait) ==
    [ owner |-> owner,
      left  |-> TTL - wait,
      gen   |-> IF row.owner = NoOwner THEN 1
                ELSE IF row.owner = owner THEN row.gen
                ELSE row.gen + 1 ]

\* A renewal needs the row to have been live when the clock was read, `wait`
\* ago.  How long ago an expired row expired is not kept, so any wait will do.
Renewable(row, owner, wait) ==
    row.owner = owner /\ (row.left > 0 \/ wait > 0)

RenewLease(row, wait) == [row EXCEPT !.left = TTL - wait]

\* CommitLease: the generation gate; it changes nothing.  As a renewal, it
\* passes a row that expired while it waited, if nobody claimed it.
CommitLease(row, owner, gen, wait) ==
    /\ row.owner = owner /\ row.gen = gen
    /\ row.left > 0 \/ wait > 0

\* The same check inside a write transaction (CommitCredentialFence,
\* ClearCredentialFence), which reads the clock under the write lock.
HoldsEpoch(row, owner, gen) == Live(row, owner) /\ row.gen = gen

\* ReleaseLease deletes the row, and with it the generation.
ReleaseLease(row, owner) == IF row.owner = owner THEN NoLease ELSE row

\* Time passes for one row.
Elapse(row) == [row EXCEPT !.left = IF @ > 0 THEN @ - 1 ELSE 0]
=============================================================================
