------------------------------- MODULE Leases -------------------------------
(***************************************************************************)
(* The lease protocol as the code's lease clients follow it: claim, read   *)
(* the generation of the ownership epoch, work while a goroutine renews,   *)
(* pass the CommitLease gate, write outside the store, and release.  Each  *)
(* owner runs one operation at a time (refreshMu in internal/oauth, one    *)
(* invocation per owner nonce elsewhere) but keeps its identity across     *)
(* operations, as internal/oauth does.                                     *)
(*                                                                         *)
(* A process may stall anywhere (the clock ticks without it), the gate and *)
(* the write included; it may crash, or fail to release.                   *)
(***************************************************************************)
EXTENDS LeaseTable

CONSTANTS Owner,   \* lease owners
          MaxGen   \* bound: the highest generation a claim may reach

ASSUME LeasesAssumption == NoOwner \notin Owner /\ MaxGen \in Nat \ {0}

VARIABLES lease,      \* the row of one lease name
          op,         \* where the operation of each owner is
          epoch,      \* the generation each operation read
          age,        \* history: ticks since the operation last claimed or renewed
          overtaken   \* history: another owner claimed since this operation did

local == <<epoch, age, overtaken>>
vars == <<lease, op, local>>

\* "writing" is past the gate and still renewing, "adrift" past the gate with
\* the lease found lost.
OpState == {"idle", "claimed", "held", "writing", "adrift", "ending"}

TypeOK ==
    /\ lease \in LeaseRow(Owner)
    /\ op \in [Owner -> OpState]
    /\ epoch \in [Owner -> Nat]
    /\ age \in [Owner -> 0..TTL]
    /\ overtaken \in [Owner -> BOOLEAN]

Init ==
    /\ lease = NoLease
    /\ op = [o \in Owner |-> "idle"]
    /\ epoch = [o \in Owner |-> 0]
    /\ age = [o \in Owner |-> 0]
    /\ overtaken = [o \in Owner |-> FALSE]

Goto(o, where) == op' = [op EXCEPT ![o] = where]

\* The operation returns.
Return(o) ==
    /\ Goto(o, "idle")
    /\ epoch' = [epoch EXCEPT ![o] = 0]
    /\ age' = [age EXCEPT ![o] = 0]
    /\ overtaken' = [overtaken EXCEPT ![o] = FALSE]

-----------------------------------------------------------------------------

\* ClaimLease writes the row; it reports ownership only when the deadline it
\* wrote has not passed meanwhile (wait < TTL).  Otherwise the row stays
\* behind, expired, and the operation ends.
Claim(o, wait) ==
    /\ op[o] = "idle"
    /\ Claimable(lease, o)
    /\ lease' = ClaimLease(lease, o, wait)
    /\ lease'.gen <= MaxGen
    /\ Goto(o, IF wait < TTL THEN "claimed" ELSE "idle")
    /\ age' = [age EXCEPT ![o] = IF wait < TTL THEN wait ELSE 0]
    /\ overtaken' = [p \in Owner |-> p # o /\ op[p] # "idle"]
    /\ UNCHANGED epoch

\* LeaseGeneration: a lease that is no longer held ends the operation without
\* a release (claimRefreshLease returns before the release is deferred).
ReadGeneration(o) ==
    /\ op[o] = "claimed"
    /\ \/ /\ Live(lease, o)
          /\ Goto(o, "held")
          /\ epoch' = [epoch EXCEPT ![o] = lease.gen]
          /\ UNCHANGED <<age, overtaken>>
       \/ ~ Live(lease, o) /\ Return(o)
    /\ UNCHANGED lease

\* The renewal goroutine ends and cancels the work, which then only releases;
\* a write that takes no context goes on (profile publication, a keyring call).
LoseLease(o) ==
    \/ Goto(o, "ending")
    \/ op[o] = "writing" /\ Goto(o, "adrift")

\* The renewal goroutine extends the lease while the work and the write last.
Renew(o, wait) ==
    /\ op[o] \in {"held", "writing"}
    /\ \/ /\ Renewable(lease, o, wait)
          /\ lease' = RenewLease(lease, wait)
          /\ age' = [age EXCEPT ![o] = wait]
          /\ IF wait < TTL THEN UNCHANGED op ELSE LoseLease(o)
       \/ /\ ~ Renewable(lease, o, wait)
          /\ LoseLease(o)
          /\ UNCHANGED <<lease, age>>
    /\ UNCHANGED <<epoch, overtaken>>

\* CommitLease passes; when it refuses, the operation only releases.
Gate(o, wait) ==
    /\ op[o] = "held"
    /\ CommitLease(lease, o, epoch[o], wait)
    /\ Goto(o, "writing")
    /\ UNCHANGED <<lease, local>>

\* The write outside the store that the gate let through; nothing checks the
\* lease again.
Write(o) ==
    /\ op[o] \in {"writing", "adrift"}
    /\ Goto(o, "ending")
    /\ UNCHANGED <<lease, local>>

\* The gate refuses, or the write fails or was made: the deferred release.
Release(o) ==
    /\ op[o] \notin {"idle", "claimed"}
    /\ lease' = ReleaseLease(lease, o)
    /\ Return(o)

\* The process dies, or every attempt to release fails: the row stays.
Crash(o) ==
    /\ op[o] # "idle"
    /\ Return(o)
    /\ UNCHANGED lease

Tick ==
    /\ lease' = Elapse(lease)
    /\ age' = [o \in Owner |-> IF op[o] = "idle" \/ age[o] = TTL THEN age[o]
                                ELSE age[o] + 1]
    /\ UNCHANGED <<op, epoch, overtaken>>

Next ==
    \/ \E o \in Owner :
          \/ \E wait \in 0..TTL : Claim(o, wait) \/ Renew(o, wait) \/ Gate(o, wait)
          \/ ReadGeneration(o) \/ Write(o) \/ Release(o) \/ Crash(o)
    \/ Tick

Spec == Init /\ [][Next]_vars
-----------------------------------------------------------------------------

\* lease.go, CommitLease: "a lease lost to a foreign claim fails the gate
\* instead of letting a stale writer commit".  The gate never lets an operation
\* through after another owner's claim was granted since its own, although a
\* release starts the generations again.  (The write may still come later.)
NoStaleCommit ==
    [][\A o \in Owner, wait \in 0..TTL : Gate(o, wait) => ~ overtaken[o]]_vars

\* Another owner is granted a claim during an operation, its write included,
\* only if that operation let a whole TTL pass since it read the clock for its
\* last claim or renewal: neither the old deadlines written after a wait, nor
\* what an overtaken operation still renews or releases, shorten a lease.
OvertakenOutlivedLease ==
    \A o \in Owner : overtaken[o] => age[o] = TTL
=============================================================================
