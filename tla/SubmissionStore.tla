--------------------------- MODULE SubmissionStore ---------------------------
(***************************************************************************)
(* The submissions and leases tables of one profile database and the store *)
(* operations on them (internal/store).  Each operation is one SQLite      *)
(* transaction begun IMMEDIATE, so each is one atomic step; an operator    *)
(* here is the guard or the new row of that step and the modules that      *)
(* EXTEND this one say who takes it.                                       *)
(*                                                                         *)
(* Deadlines are the time left, as in LeaseTable.  A result is known by    *)
(* the lease owner whose execution produced it.                            *)
(***************************************************************************)
EXTENDS Lifecycle, LeaseTable

CONSTANTS Id,                 \* submission IDs
          Invocation,         \* lease owners: one nonce per Run invocation
          PayloadRetention,   \* time a terminal payload is kept
          TombstoneRetention  \* time its tombstone is kept

ASSUME StoreAssumption ==
    /\ NoOwner \notin Invocation
    /\ PayloadRetention \in Nat \ {0}
    /\ TombstoneRetention \in Nat
    /\ PayloadRetention <= TombstoneRetention

VARIABLES submissions,  \* the submissions table
          leases        \* the leases "submission/<id>"

storeVars == <<submissions, leases>>

\* The stable error codes a store row can carry here ("none": a NULL column).
ErrorCode == {"none", "upstream_execution_failed", "result_too_large"}

\* `args` stands for the encrypted request, present until the payload expires.
Row == [ status    : State \union {"absent"},
         args      : BOOLEAN,
         result    : Invocation \union {NoOwner},
         error     : ErrorCode,
         payload   : 0..PayloadRetention,
         tombstone : 0..TombstoneRetention ]

Absent == [ status |-> "absent", args |-> FALSE, result |-> NoOwner,
            error |-> "none", payload |-> 0, tombstone |-> 0 ]

StoreTypeOK ==
    /\ submissions \in [Id -> Row]
    /\ leases \in [Id -> LeaseRow(Invocation)]

StoreInit ==
    /\ submissions = [id \in Id |-> Absent]
    /\ leases = [id \in Id |-> NoLease]

-----------------------------------------------------------------------------

\* CreateSubmission inserts the row.
Accepted == [Absent EXCEPT !.status = "accepted", !.args = TRUE]

\* Mutated forms: the lease is not checked in the writing transaction; the
\* expiry sweep does not look at the state; a tombstone keeps its error.
MayMoveUnleased(id, owner, to) == Allowed(submissions[id].status, to)
PayloadLapsedAnyState(row)     == row.args /\ row.payload = 0
TombstoneKeepingError(row)     ==
    [row EXCEPT !.status = "expired", !.args = FALSE, !.result = NoOwner]

\* requireLiveLease and the state machine guard one leased status write.
MayMove(id, owner, to) ==
    /\ Live(leases[id], owner)
    /\ Allowed(submissions[id].status, to)

\* TransitionLeased to a state that is not terminal.
Transition(row, to) == [row EXCEPT !.status = to]

\* finish: status, result or error, and both retention deadlines together.
Finish(row, to, result, code) ==
    [ status |-> to, args |-> row.args, result |-> result, error |-> code,
      payload |-> PayloadRetention, tombstone |-> TombstoneRetention ]

-----------------------------------------------------------------------------

\* expirePayloads: a terminal row whose payload deadline passed and that still
\* has any payload column becomes a payload-free tombstone.
PayloadLapsed(row) ==
    /\ row.status \in Terminal
    /\ row.payload = 0
    /\ row.args \/ row.result # NoOwner \/ row.error # "none"

Tombstone(row) ==
    [ status |-> "expired", args |-> FALSE, result |-> NoOwner,
      error |-> "none", payload |-> row.payload, tombstone |-> row.tombstone ]

\* deleteLapsedTombstones
TombstoneLapsed(row) == row.status \in Terminal /\ row.tombstone = 0

\* Both sweeps of GC run in one transaction, the expiry first.
Collected(row) ==
    IF TombstoneLapsed(row) THEN Absent
    ELSE IF PayloadLapsed(row) THEN Tombstone(row)
    ELSE row

GC ==
    /\ \E id \in Id : Collected(submissions[id]) # submissions[id]
    /\ submissions' = [id \in Id |-> Collected(submissions[id])]
    /\ UNCHANGED leases

-----------------------------------------------------------------------------

CountDown(n) == IF n > 0 THEN n - 1 ELSE 0

\* Time passes for every deadline of the database.
StoreElapse ==
    /\ leases' = [id \in Id |-> Elapse(leases[id])]
    /\ submissions' =
          [id \in Id |-> [submissions[id] EXCEPT
                            !.payload = CountDown(@),
                            !.tombstone = CountDown(@)]]
=============================================================================
