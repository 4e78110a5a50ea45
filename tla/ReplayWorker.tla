---------------------------- MODULE ReplayWorker ----------------------------
(***************************************************************************)
(* internal/worker/runner.go: Run invocations, in any number of processes, *)
(* executing locally replayable submissions under the durable lease of     *)
(* each.  An invocation owns a fresh lease identity, so an identity that   *)
(* no lease row names any more may be used again.                          *)
(*                                                                         *)
(* Faults: a crash, a cancelled context (Stop), a renewal or a release     *)
(* that fails, a statement that waits for SQLite's write lock, a process   *)
(* that stalls past its lease, an execution deferred by contention.        *)
(* `faults` counts them; MaxFaults bounds them.                            *)
(***************************************************************************)
EXTENDS SubmissionStore

CONSTANTS NoId,      \* the target of an idle invocation
          MaxFaults  \* bound on the faults of a behaviour

ASSUME WorkerAssumption == NoId \notin Id /\ MaxFaults \in Nat

VARIABLES pc,       \* where each invocation is in Run
          target,   \* the submission it runs
          outcome,  \* what its execution returned
          latest,   \* history: the invocation that last took each lease
          faults

runVars == <<pc, target, outcome>>
vars == <<submissions, leases, pc, target, outcome, latest, faults>>

Preparing == {"claimed", "queueing", "starting", "confirming"}

\* Invocations whose renewal goroutine is running.
Renewing == Preparing \union {"executing", "publishing"}

Location == {"idle"} \union Renewing \union {"cancelled", "releasing"}

Result == {"none", "result", "oversized", "error"}

TypeOK ==
    /\ StoreTypeOK
    /\ pc \in [Invocation -> Location]
    /\ target \in [Invocation -> Id \union {NoId}]
    /\ \A o \in Invocation : pc[o] # "idle" => target[o] \in Id
    /\ outcome \in [Invocation -> Result]
    /\ latest \in [Id -> Invocation \union {NoOwner}]
    /\ faults \in 0..MaxFaults

Init ==
    /\ StoreInit
    /\ pc = [o \in Invocation |-> "idle"]
    /\ target = [o \in Invocation |-> NoId]
    /\ outcome = [o \in Invocation |-> "none"]
    /\ latest = [id \in Id |-> NoOwner]
    /\ faults = 0

\* Something the code cannot prevent happens, if any is left.
Fault == faults < MaxFaults /\ faults' = faults + 1

\* A statement may wait for the write lock; a wait is a fault.
Waited(wait) == IF wait = 0 THEN UNCHANGED faults ELSE Fault

Goto(o, where) == pc' = [pc EXCEPT ![o] = where]

\* Run returns: the invocation is over.
Return(o) ==
    /\ pc' = [pc EXCEPT ![o] = "idle"]
    /\ target' = [target EXCEPT ![o] = NoId]
    /\ outcome' = [outcome EXCEPT ![o] = "none"]

-----------------------------------------------------------------------------

\* CreateSubmission under a fresh ID.  An ID is a new one if no invocation
\* still works on it; whatever lease row an older use left is not its own.
Submit(id) ==
    /\ submissions[id] = Absent
    /\ \A o \in Invocation : target[o] # id
    /\ submissions' = [submissions EXCEPT ![id] = Accepted]
    /\ leases' = [leases EXCEPT ![id] = NoLease]
    /\ latest' = [latest EXCEPT ![id] = NoOwner]
    /\ UNCHANGED <<runVars, faults>>

\* Run claims the lease for a new nonce.  The ID comes from a dispatch or a
\* sweep and may be stale: the row may have settled since it was listed.  A
\* claim that comes back too late leaves its expired row behind.
Claim(o, id, wait) ==
    /\ pc[o] = "idle"
    /\ submissions[id].status # "absent"
    /\ \A j \in Id : leases[j].owner # o
    /\ Claimable(leases[id], o)
    /\ leases' = [leases EXCEPT ![id] = ClaimLease(@, o, wait)]
    /\ latest' = [latest EXCEPT ![id] = o]
    /\ \/ /\ wait < TTL
          /\ Goto(o, "claimed")
          /\ target' = [target EXCEPT ![o] = id]
       \/ /\ wait = TTL
          /\ UNCHANGED <<pc, target>>
    /\ Waited(wait)
    /\ UNCHANGED <<submissions, outcome>>

\* prepare reads the row.  A running row is a recovered one: it is executed
\* again.  Anything settled, deleted or waiting for input is not runnable.
Load(o) ==
    /\ pc[o] = "claimed"
    /\ LET status == submissions[target[o]].status IN
       Goto(o, CASE status = "accepted" -> "queueing"
                 [] status = "queued"   -> "starting"
                 [] status = "running"  -> "confirming"
                 [] OTHER               -> "releasing")
    /\ UNCHANGED <<storeVars, target, outcome, latest, faults>>

\* One TransitionLeased of prepare; a refusal ends the run.
Advance(o, from, to, next) ==
    /\ pc[o] = from
    /\ IF MayMove(target[o], o, to)
       THEN /\ submissions' =
                 [submissions EXCEPT ![target[o]] = Transition(@, to)]
            /\ Goto(o, next)
       ELSE /\ Goto(o, "releasing")
            /\ UNCHANGED submissions
    /\ UNCHANGED <<leases, target, outcome, latest, faults>>

\* Mutated form of Start: the call is made before the row says running.
StartUnwritten(o) ==
    /\ pc[o] = "starting"
    /\ Goto(o, "confirming")
    /\ UNCHANGED <<storeVars, target, outcome, latest, faults>>

Queue(o) == Advance(o, "queueing", "queued", "starting")

Start(o) == Advance(o, "starting", "running", "confirming")

\* prepare's last step renews once more before the upstream call.
Confirm(o, wait) ==
    /\ pc[o] = "confirming"
    /\ LET id == target[o] IN
       IF Renewable(leases[id], o, wait)
       THEN /\ leases' = [leases EXCEPT ![id] = RenewLease(@, wait)]
            /\ Goto(o, IF wait < TTL THEN "executing" ELSE "releasing")
       ELSE /\ Goto(o, "releasing")
            /\ UNCHANGED leases
    /\ Waited(wait)
    /\ UNCHANGED <<submissions, target, outcome, latest>>

\* The renewal goroutine: a lost lease cancels the execution context.
Renew(o, wait) ==
    /\ pc[o] \in Renewing
    /\ LET id == target[o] IN
       IF Renewable(leases[id], o, wait)
       THEN /\ leases' = [leases EXCEPT ![id] = RenewLease(@, wait)]
            /\ IF wait < TTL THEN UNCHANGED pc ELSE Goto(o, "cancelled")
       ELSE /\ Goto(o, "cancelled")
            /\ UNCHANGED leases
    /\ Waited(wait)
    /\ UNCHANGED <<submissions, target, outcome, latest>>

\* Stop cancels the context, or a renewal fails outright.
Cancel(o) ==
    /\ pc[o] \in Renewing
    /\ Fault
    /\ Goto(o, "cancelled")
    /\ UNCHANGED <<storeVars, target, outcome, latest>>

\* A store call times out on the write lock: the run ends, nothing written.
StoreBusy(o) ==
    /\ pc[o] \in Preparing \union {"publishing"}
    /\ Fault
    /\ Goto(o, "releasing")
    /\ UNCHANGED <<storeVars, target, outcome, latest>>

\* The upstream call returns with something to record ...
Execute(o, result) ==
    /\ pc[o] = "executing"
    /\ Goto(o, "publishing")
    /\ outcome' = [outcome EXCEPT ![o] = result]
    /\ UNCHANGED <<storeVars, target, latest, faults>>

\* ... or with ErrExecutionDeferred: nothing is recorded.
Defer(o) ==
    /\ pc[o] = "executing"
    /\ Fault
    /\ Goto(o, "releasing")
    /\ UNCHANGED <<storeVars, target, outcome, latest>>

\* How an execution's return settles the row: a result past the accepted
\* bound is a failure.
Settlement(result) ==
    CASE result = "result"    -> [to |-> "completed", code |-> "none"]
      [] result = "oversized" -> [to |-> "failed", code |-> "result_too_large"]
      [] OTHER -> [to |-> "failed", code |-> "upstream_execution_failed"]

\* CompleteLeased or FailLeased; a refused write records nothing.
Publish(o) ==
    /\ pc[o] = "publishing"
    /\ LET id == target[o] IN
       IF MayMove(id, o, Settlement(outcome[o]).to)
       THEN submissions' =
              [submissions EXCEPT ![id] =
                 Finish(@, Settlement(outcome[o]).to,
                        IF outcome[o] = "result" THEN o ELSE NoOwner,
                        Settlement(outcome[o]).code)]
       ELSE UNCHANGED submissions
    /\ Goto(o, "releasing")
    /\ UNCHANGED <<leases, target, outcome, latest, faults>>

\* A cancelled run makes no further write: every store call fails on its
\* context, and the executor's error is not recorded.
Unwind(o) ==
    /\ pc[o] = "cancelled"
    /\ Goto(o, "releasing")
    /\ UNCHANGED <<storeVars, target, outcome, latest, faults>>

Release(o) ==
    /\ pc[o] = "releasing"
    /\ leases' = [leases EXCEPT ![target[o]] = ReleaseLease(@, o)]
    /\ Return(o)
    /\ UNCHANGED <<submissions, latest, faults>>

\* The process dies anywhere, or the bounded release retries all fail: the
\* lease row stays until it expires.
Crash(o) ==
    /\ pc[o] # "idle"
    /\ Fault
    /\ Return(o)
    /\ UNCHANGED <<storeVars, latest>>

\* Leases of working invocations that one more tick would expire.
Stalling ==
    {o \in Invocation : /\ pc[o] # "idle"
                        /\ leases[target[o]].owner = o
                        /\ leases[target[o]].left = 1}

Tick ==
    /\ \/ \E id \in Id : leases[id].left > 0
       \/ \E id \in Id : submissions[id].tombstone > 0
    /\ StoreElapse
    /\ IF Stalling = {} THEN UNCHANGED faults ELSE Fault
    /\ UNCHANGED <<runVars, latest>>

Collect == GC /\ UNCHANGED <<runVars, latest, faults>>

-----------------------------------------------------------------------------

Step(o) ==
    \/ \E wait \in 0..TTL : Confirm(o, wait) \/ Renew(o, wait)
    \/ Load(o) \/ Queue(o) \/ Start(o)
    \/ \E result \in Result \ {"none"} : Execute(o, result)
    \/ Defer(o) \/ Publish(o) \/ Cancel(o) \/ StoreBusy(o)
    \/ Unwind(o) \/ Release(o) \/ Crash(o)

Next ==
    \/ \E id \in Id : Submit(id)
    \/ \E o \in Invocation, id \in Id, wait \in 0..TTL : Claim(o, id, wait)
    \/ \E o \in Invocation : Step(o)
    \/ Tick
    \/ Collect

Spec == Init /\ [][Next]_vars

\* The scheduler runs every invocation; an upstream call returns (it has a
\* request timeout).
Work(o) ==
    \/ Load(o) \/ Queue(o) \/ Start(o) \/ Confirm(o, 0)
    \/ \E result \in Result \ {"none"} : Execute(o, result)
    \/ Publish(o) \/ Unwind(o) \/ Release(o)

\* The recurring sweep lists the row and some invocation claims it.
SweepClaims(id) ==
    /\ submissions[id].status \in {"accepted", "queued", "running"}
    /\ \E o \in Invocation : Claim(o, id, 0)

FairSpec ==
    /\ Spec
    /\ \A o \in Invocation : WF_vars(Work(o))
    /\ \A id \in Id : SF_vars(SweepClaims(id))
    /\ SF_vars(Tick)

-----------------------------------------------------------------------------

\* store/transition.go, CompleteLeased: "preventing a stale worker from
\* publishing a result after ownership moved to another process".  A
\* submission settles only by the invocation that took its lease last, and
\* the result it keeps is that invocation's.
NoStalePublish ==
    [][\A id \in Id :
          submissions[id].status \in Pending /\ submissions'[id].status \in Terminal
          => /\ latest[id] \in Invocation
             /\ pc[latest[id]] = "publishing"
             /\ target[latest[id]] = id
             /\ submissions'[id].result \in {latest[id], NoOwner}]_vars

\* No upstream call starts before the row durably says running: recovery can
\* tell a submission that was never sent from one that may have been.
RunningBeforeExecute ==
    \A o \in Invocation :
        pc[o] \in {"executing", "publishing"}
        => submissions[target[o]].status \notin {"accepted", "queued"}

\* One transaction captures a terminal state with its result or error, and a
\* tombstone keeps no payload: no reader sees a completed row without its
\* result, a failed row without its error, or an expired row with either.
CapturedWhole ==
    \A id \in Id :
        LET row == submissions[id] IN
        /\ row.status \in Pending =>
              row.args /\ row.result = NoOwner /\ row.error = "none"
        /\ row.status = "completed" => row.result # NoOwner /\ row.error = "none"
        /\ row.status = "failed" => row.result = NoOwner /\ row.error # "none"
        /\ row.status = "expired" =>
              ~ row.args /\ row.result = NoOwner /\ row.error = "none"

\* What await shows of a row.
ClientView(row) ==
    IF row.status = "absent" THEN [phase |-> "absent", outcome |-> <<>>]
    ELSE IF row.status \in Pending THEN [phase |-> "pending", outcome |-> <<>>]
    ELSE IF ~ row.args THEN [phase |-> "expired", outcome |-> <<>>]
    ELSE [phase |-> "settled", outcome |-> <<row.status, row.result, row.error>>]

clientView == [id \in Id |-> ClientView(submissions[id])]

Contract == INSTANCE SubmissionContract
    WITH Outcome <- Terminal \X (Invocation \union {NoOwner}) \X ErrorCode,
         view <- clientView

\* The worker pool implements the promise of SubmissionContract.
KeepsContract == Contract!Spec

\* Every accepted submission settles, whatever crashed, stalled or was
\* cancelled on the way (service.go: "a saturated queue never loses work").
EventuallySettles ==
    \A id \in Id :
        submissions[id].status \in Pending ~> submissions[id].status \in Terminal

\* service.go: "A submission is never executed concurrently twice in one
\* process, and the durable lease keeps that true across processes."
NeverExecutedTwiceAtOnce ==
    \A o, p \in Invocation :
        pc[o] = "executing" /\ pc[p] = "executing" /\ target[o] = target[p]
        => o = p
=============================================================================
