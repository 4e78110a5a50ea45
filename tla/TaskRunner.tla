----------------------------- MODULE TaskRunner -----------------------------
(***************************************************************************)
(* internal/application/task_*.go: Run invocations, in any number of       *)
(* processes, driving one App submission whose work is an upstream task.   *)
(*                                                                         *)
(* An invocation takes the submission's lease, opens the upstream task     *)
(* with one tools/call, records its handle, and then follows it with two   *)
(* goroutines: one polls tasks/get, one receives notifications.  Both      *)
(* apply snapshots to the row under a mutex.  Every snapshot write, and    *)
(* every terminal failure, first takes the input-delivery lease, which an  *)
(* await holds while it sends tasks/update.                                *)
(*                                                                         *)
(* Calls and lookups may be lost, refused or deferred, notifications may   *)
(* be missed or arrive late, processes stall past their leases and crash;  *)
(* `faults` counts these and MaxFaults bounds them.                        *)
(***************************************************************************)
EXTENDS Lifecycle, LeaseTable

CONSTANTS Invocation,  \* lease owners: one nonce per Run invocation
          Await,       \* whoever else holds the delivery lease
          Replayable,  \* the bindings prove the call idempotent
          Ending,      \* the terminal states the upstream task may reach
          MaxStamp,    \* bound: the latest lastUpdatedAt, in seconds
          MaxFaults    \* bound on the faults of a behaviour

ASSUME TaskAssumption ==
    /\ NoOwner \notin Invocation
    /\ Replayable \in BOOLEAN
    /\ Ending \subseteq {"completed", "oversized", "failed", "cancelled", "expired"}
    /\ MaxStamp \in Nat \ {0} /\ MaxFaults \in Nat

VARIABLES row,       \* the submission's row
          lease,     \* the lease "submission/<id>"
          delivery,  \* the lease "input-delivery/<id>"
          up,        \* the upstream task
          calls,     \* history: tools/call requests that reached upstream
          pc,        \* where each invocation is in Run
          run,       \* what it knows: first call?, task ID?, its verdict
          thr,       \* its two goroutines, and the snapshot in hand
          faults

vars == <<row, lease, delivery, up, calls, pc, run, thr, faults>>

Thread == Invocation \X {"poll", "watch"}

\* The delivery lease has a fresh owner per claim; a goroutine makes one claim
\* at a time.
Poller(o)  == <<o, "poll">>
Watcher(o) == <<o, "watch">>
Threads(o) == {Poller(o), Watcher(o)}

UpState == {"working", "input_required"} \union Ending

\* A snapshot's state; "foreign" names another task.
SnapState == {"none", "foreign", "running", "input_required"} \union Ending

\* Goroutine positions: off, idle, with a snapshot, inside apply (Locked), and
\* inside fail.
Locked == {"claiming", "observing", "settling", "ending"}
ThreadAt == {"off", "idle", "fetched", "condemning", "freeing"} \union Locked

Off  == [at |-> "off",  status |-> "none", stamp |-> 0, seen |-> "none"]
Idle == [at |-> "idle", status |-> "none", stamp |-> 0, seen |-> "none"]

\* Inside apply, what is still needed of the snapshot.
Deciding(u) == [u EXCEPT !.at = "settling", !.stamp = 0, !.seen = "none"]
Ended == [Idle EXCEPT !.at = "ending"]

Fresh == [first |-> FALSE, task |-> FALSE, verdict |-> "none"]

TypeOK ==
    /\ row \in [status : State, task : BOOLEAN, stamp : 0..MaxStamp, asks : BOOLEAN]
    /\ lease \in LeaseRow(Invocation)
    /\ delivery \in LeaseRow(Thread \union {Await})
    /\ up \in [status : UpState \union {"none"}, stamp : 0..MaxStamp]
    /\ calls \in Nat
    /\ pc \in [Invocation -> {"idle", "claimed", "queueing", "starting",
                              "connecting", "opening", "called", "attached",
                              "following", "failing", "leaving", "cancelled",
                              "releasing"}]
    /\ run \in [Invocation -> [first : BOOLEAN, task : BOOLEAN,
                               verdict : {"none", "failed", "outcome_unknown"}]]
    /\ thr \in [Thread -> [at : ThreadAt, status : SnapState,
                           stamp : 0..MaxStamp, seen : State \union {"none"}]]
    /\ faults \in 0..MaxFaults

\* submit has accepted the request; nothing has reached upstream.
Init ==
    /\ row = [status |-> "accepted", task |-> FALSE, stamp |-> 0, asks |-> FALSE]
    /\ lease = NoLease /\ delivery = NoLease
    /\ up = [status |-> "none", stamp |-> 0]
    /\ calls = 0
    /\ pc = [o \in Invocation |-> "idle"]
    /\ run = [o \in Invocation |-> Fresh]
    /\ thr = [t \in Thread |-> Off]
    /\ faults = 0

store    == <<row, lease, delivery>>
upstream == <<up, calls>>
local    == <<run, thr>>

Fault == faults < MaxFaults /\ faults' = faults + 1

Goto(o, where) == pc' = [pc EXCEPT ![o] = where]

\* Run is about to record a terminal failure.
Failing(o, verdict) ==
    /\ Goto(o, "failing")
    /\ run' = [run EXCEPT ![o].verdict = verdict]

\* Mutated form: the lease is not checked in the writing transaction.
MayMoveUnleased(o, to) == Allowed(row.status, to)

\* requireLiveLease and the state machine guard a leased status write.
MayMove(o, to) == Live(lease, o) /\ Allowed(row.status, to)

\* SaveTaskRecordLeased also refuses a terminal row.
MayObserve(o) == Live(lease, o) /\ row.status \in Pending

-----------------------------------------------------------------------------
\* prepare

\* A new invocation has a nonce that no live lease names.
Claim(o) ==
    /\ pc[o] = "idle"
    /\ ~ Live(lease, o) /\ \A t \in Threads(o) : ~ Live(delivery, t)
    /\ Claimable(lease, o)
    /\ lease' = ClaimLease(lease, o, 0)
    /\ Goto(o, "claimed")
    /\ UNCHANGED <<row, delivery, upstream, local, faults>>

\* A row that is past queued was sent, or may have been: this is no first call.
Load(o) ==
    /\ pc[o] = "claimed"
    /\ Goto(o, CASE row.status = "accepted" -> "queueing"
                 [] row.status = "queued"   -> "starting"
                 [] row.status \in {"running", "input_required"} -> "connecting"
                 [] OTHER -> "leaving")
    /\ run' = [run EXCEPT ![o] =
                 [Fresh EXCEPT !.first = row.status \in {"accepted", "queued"},
                               !.task = row.task]]
    /\ UNCHANGED <<store, upstream, thr, faults>>

Advance(o, from, to, next) ==
    /\ pc[o] = from
    /\ \/ /\ MayMove(o, to)
          /\ row' = [row EXCEPT !.status = to]
          /\ Goto(o, next)
       \/ ~ MayMove(o, to) /\ Goto(o, "leaving") /\ UNCHANGED row
    /\ UNCHANGED <<lease, delivery, upstream, local, faults>>

Queue(o) == Advance(o, "queueing", "queued", "starting")
Start(o) == Advance(o, "starting", "running", "connecting")

-----------------------------------------------------------------------------
\* connect and ensureTask

\* Mutated forms: every recovered call is replayed; a first call is not known
\* from a recovered one.
ReplayAlways(o) == TRUE
FirstForgotten(o) == Replayable

\* ensureTask: a call that may have been made already is repeated only with
\* proof of idempotency.
MayCall(o) == run[o].first \/ Replayable

\* openFailed: whether a lost response is left to a replay.
MayRetry == Replayable

\* follow starts the watcher next to the poll loop.
Follow(o) ==
    /\ Goto(o, "following")
    /\ run' = [run EXCEPT ![o] = Fresh]
    /\ thr' = [t \in Thread |-> IF t \in Threads(o) THEN Idle ELSE thr[t]]

\* The connection is up and the descriptor is unchanged.
Connect(o) ==
    /\ pc[o] = "connecting"
    /\ \/ run[o].task /\ Follow(o)
       \/ ~ run[o].task /\ MayCall(o) /\ Goto(o, "opening") /\ UNCHANGED local
       \/ ~ run[o].task /\ ~ MayCall(o) /\ Failing(o, "outcome_unknown") /\ UNCHANGED thr
    /\ UNCHANGED <<store, upstream, faults>>

\* Upstream is not reachable, or the credential is contended: try again later.
\* Before the call, after it, or while polling.
Deferred(o) ==
    /\ pc[o] \in {"connecting", "opening"} \/ (pc[o] = "following" /\ thr[Poller(o)] = Idle)
    /\ Fault
    /\ Goto(o, "leaving")
    /\ UNCHANGED <<store, upstream, local>>

\* An authentication, protocol, catalog or size error is final.
Refused(o) ==
    /\ \/ pc[o] \in {"connecting", "opening", "called"}
       \/ pc[o] = "following" /\ thr[Poller(o)] = Idle
    /\ Fault
    /\ Failing(o, "failed")
    /\ UNCHANGED <<store, upstream, thr>>

\* tools/call reaches upstream.  A proven-idempotent call finds its task again.
\* (A response whose handle is not "working" is a protocol error: Refused.)
Call(o) ==
    /\ pc[o] = "opening"
    /\ up' = IF up.status # "none" /\ Replayable THEN up
             ELSE [status |-> "working", stamp |-> 1]
    /\ calls' = calls + 1
    /\ Goto(o, "called")
    /\ thr' = [thr EXCEPT ![Poller(o)].stamp = up'.stamp]
    /\ UNCHANGED <<store, run, faults>>

\* The request or its response is lost.
Lost(o) ==
    /\ pc[o] \in {"opening", "called"}
    /\ Fault
    /\ \/ MayRetry /\ Goto(o, "leaving") /\ UNCHANGED run
       \/ ~ MayRetry /\ Failing(o, "outcome_unknown")
    /\ UNCHANGED <<store, upstream, thr>>

\* AttachTaskID needs no lease.
Attach(o) ==
    /\ pc[o] = "called"
    /\ row' = [row EXCEPT !.task = TRUE]
    /\ Goto(o, "attached")
    /\ UNCHANGED <<lease, delivery, upstream, local, faults>>

\* observe of the handle, then follow.
Record(o) ==
    /\ pc[o] = "attached"
    /\ \/ /\ MayObserve(o)
          /\ row' = [row EXCEPT !.stamp = thr[Poller(o)].stamp, !.asks = FALSE]
          /\ Follow(o)
       \/ ~ MayObserve(o) /\ Goto(o, "leaving") /\ UNCHANGED <<row, local>>
    /\ UNCHANGED <<lease, delivery, upstream, faults>>

-----------------------------------------------------------------------------
\* follow: the poll loop, the watcher, and apply

\* Mutated forms: the stamp is not compared; an equal stamp is not eligible.
AnyObservation(stamp)      == TRUE
StrictlyNewer(stamp)       == row.stamp = 0 \/ stamp > row.stamp

\* newerObservation: equal stamps stay eligible.
NewerObservation(stamp) == row.stamp = 0 \/ stamp >= row.stamp

\* normalizeTaskState
Normalize(status) == IF status = "working" THEN "running" ELSE status

Snapshot == [Idle EXCEPT !.at = "fetched", !.status = Normalize(up.status),
                         !.stamp = up.stamp]

\* The loop reads the row, and asks tasks/get unless it is settled (the
\* watcher's terminal signal only makes it look earlier).
Poll(o) ==
    /\ pc[o] = "following"
    /\ thr[Poller(o)] = Idle
    /\ \/ row.status \in Terminal /\ Goto(o, "leaving") /\ UNCHANGED thr
       \/ /\ row.status \in Pending
          /\ thr' = [thr EXCEPT ![Poller(o)] = Snapshot]
          /\ UNCHANGED pc
    /\ UNCHANGED <<store, upstream, run, faults>>

\* A notification, or the tasks/get of a dropped stream.  It is an optimization:
\* nothing makes it happen.
Notify(o) ==
    /\ pc[o] \in {"following", "failing"} /\ thr[Watcher(o)] = Idle
    /\ thr' = [thr EXCEPT ![Watcher(o)] = Snapshot]
    /\ UNCHANGED <<store, upstream, pc, run, faults>>

\* Upstream answers with another task.
Foreign(t) ==
    /\ thr[t].at = "fetched" /\ thr[t].status # "foreign"
    /\ Fault
    /\ thr' = [thr EXCEPT ![t] = [Idle EXCEPT !.at = "fetched", !.status = "foreign"]]
    /\ UNCHANGED <<store, upstream, pc, run>>

\* The context of the invocation is alive: its store calls can succeed.
Active(o) == pc[o] \notin {"idle", "cancelled", "releasing"}

\* apply: under the mutex the row is read again; a settled row ends the
\* goroutine and an older snapshot is dropped.
Begin(t) ==
    /\ thr[t].at = "fetched" /\ Active(t[1])
    /\ \A u \in Threads(t[1]) : thr[u].at \notin Locked
    /\ \/ /\ row.status \in Terminal
          /\ thr' = [thr EXCEPT ![t] = IF t[2] = "poll" THEN Idle ELSE Off]
       \/ /\ row.status \in Pending
          /\ thr' = [thr EXCEPT ![t] =
                       IF @.status = "foreign" \/ NewerObservation(@.stamp)
                       THEN [@ EXCEPT !.at = "claiming", !.seen = row.status]
                       ELSE Idle]
    /\ UNCHANGED <<store, upstream, pc, run, faults>>

\* claimInputDeliveryOnce: a lease that is held defers the snapshot.
ClaimDelivery(t) ==
    /\ thr[t].at = "claiming" /\ Active(t[1])
    /\ \/ /\ Claimable(delivery, t)
          /\ delivery' = ClaimLease(delivery, t, 0)
          /\ thr' = [thr EXCEPT ![t] =
                       IF @.status = "foreign" THEN Deciding(@) ELSE [@ EXCEPT !.at = "observing"]]
       \/ /\ ~ Claimable(delivery, t)
          /\ thr' = [thr EXCEPT ![t] = Idle]
          /\ UNCHANGED delivery
    /\ UNCHANGED <<row, lease, upstream, pc, run, faults>>

\* observe: the stamp is saved and the outstanding input set is replaced.
Observe(t) ==
    /\ thr[t].at = "observing" /\ Active(t[1])
    /\ \/ /\ MayObserve(t[1])
          /\ row' = [row EXCEPT !.stamp = thr[t].stamp,
                                !.asks = thr[t].status = "input_required"]
          /\ thr' = [thr EXCEPT ![t] =
                       IF @.status = @.seen THEN Ended ELSE Deciding(@)]
       \/ /\ ~ MayObserve(t[1])
          /\ thr' = [thr EXCEPT ![t] = Ended]
          /\ UNCHANGED row
    /\ UNCHANGED <<lease, delivery, upstream, pc, run, faults>>

\* What a snapshot makes of the row: a result past the bound is a failure.
Settlement(status) == IF status \in {"foreign", "oversized"} THEN "failed" ELSE status

\* CompleteLeased, TransitionLeased or CaptureTerminalLeased; a refused write
\* ends the poll loop with an error.
Settle(t) ==
    /\ thr[t].at = "settling" /\ Active(t[1])
    /\ LET to == Settlement(thr[t].status) IN
       \/ /\ MayMove(t[1], to)
          /\ row' = [row EXCEPT !.status = to,
                       !.asks = @ /\ thr[t].status \notin {"failed", "cancelled", "expired"}]
          /\ UNCHANGED pc
       \/ /\ ~ MayMove(t[1], to)
          /\ UNCHANGED row
          /\ IF t[2] = "poll" THEN Goto(t[1], "leaving") ELSE UNCHANGED pc
    /\ thr' = [thr EXCEPT ![t] = Ended]
    /\ UNCHANGED <<lease, delivery, upstream, run, faults>>

\* The deferred release of the delivery lease, and of the mutex.
Free(t) ==
    /\ thr[t].at \in {"ending", "freeing"}
    /\ delivery' = ReleaseLease(delivery, t)
    /\ thr' = [thr EXCEPT ![t] = Idle]
    /\ UNCHANGED <<row, lease, upstream, pc, run, faults>>

\* The release is lost: the row stays, under an owner nobody is any more.
FreeLost(t) ==
    /\ thr[t].at \in {"ending", "freeing"}
    /\ delivery.owner = t
    /\ Fault
    /\ delivery' = [delivery EXCEPT !.owner = Await]
    /\ thr' = [thr EXCEPT ![t] = Idle]
    /\ UNCHANGED <<row, lease, upstream, pc, run>>

-----------------------------------------------------------------------------
\* fail

\* fail takes the delivery lease once, outside the mutex, or gives up until
\* the next sweep.
FailClaim(o) ==
    /\ pc[o] = "failing" /\ thr[Poller(o)].at \in {"off", "idle"}
    /\ \/ /\ Claimable(delivery, Poller(o))
          /\ delivery' = ClaimLease(delivery, Poller(o), 0)
          /\ thr' = [thr EXCEPT ![Poller(o)] = [Idle EXCEPT !.at = "condemning"]]
          /\ UNCHANGED pc
       \/ /\ ~ Claimable(delivery, Poller(o))
          /\ Goto(o, "leaving")
          /\ UNCHANGED <<delivery, thr>>
    /\ UNCHANGED <<row, lease, upstream, run, faults>>

Condemn(o) ==
    /\ pc[o] = "failing" /\ thr[Poller(o)].at = "condemning"
    /\ row' = IF MayMove(o, run[o].verdict)
              THEN [row EXCEPT !.status = run[o].verdict] ELSE row
    /\ thr' = [thr EXCEPT ![Poller(o)] = [Idle EXCEPT !.at = "freeing"]]
    /\ Goto(o, "leaving")
    /\ UNCHANGED <<lease, delivery, upstream, run, faults>>

-----------------------------------------------------------------------------
\* The end of Run, its lease, and the environment

\* A cancelled context fails every store call that is still to come.
Abort(t) ==
    /\ pc[t[1]] = "cancelled"
    /\ thr[t].at \in {"claiming", "observing", "settling", "condemning"}
    /\ thr' = [thr EXCEPT ![t] = [Idle EXCEPT !.at = "freeing"]]
    /\ UNCHANGED <<store, upstream, pc, run, faults>>

\* follow waits for its watcher; drive and Run return.
Leave(o) ==
    /\ pc[o] \in {"leaving", "cancelled"}
    /\ \A t \in Threads(o) : thr[t].at \in {"off", "idle", "fetched"}
    /\ thr' = [t \in Thread |-> IF t \in Threads(o) THEN Off ELSE thr[t]]
    /\ run' = [run EXCEPT ![o] = Fresh]
    /\ Goto(o, "releasing")
    /\ UNCHANGED <<store, upstream, faults>>

Release(o) ==
    /\ pc[o] = "releasing"
    /\ lease' = ReleaseLease(lease, o)
    /\ Goto(o, "idle")
    /\ UNCHANGED <<row, delivery, upstream, local, faults>>

\* The renewal goroutine: a lost lease cancels the context.
Renew(o) ==
    /\ Active(o)
    /\ \/ /\ Renewable(lease, o, 0)
          /\ lease' = RenewLease(lease, 0)
          /\ UNCHANGED pc
       \/ /\ ~ Renewable(lease, o, 0)
          /\ Goto(o, "cancelled")
          /\ UNCHANGED lease
    /\ UNCHANGED <<row, delivery, upstream, local, faults>>

\* Stop, or a renewal that fails.
Cancel(o) ==
    /\ Active(o)
    /\ Fault
    /\ Goto(o, "cancelled")
    /\ UNCHANGED <<store, upstream, local>>

Crash(o) ==
    /\ pc[o] # "idle"
    /\ Fault
    /\ Goto(o, "idle")
    /\ run' = [run EXCEPT ![o] = Fresh]
    /\ thr' = [t \in Thread |-> IF t \in Threads(o) THEN Off ELSE thr[t]]
    /\ UNCHANGED <<store, upstream>>

\* A lease expires under its owner only if the owner stalls.
Lapse ==
    /\ lease.left > 0
    /\ lease' = Elapse(lease)
    /\ IF lease.left = 1 /\ lease.owner \in Invocation /\ pc[lease.owner] # "idle"
       THEN Fault ELSE UNCHANGED faults
    /\ UNCHANGED <<row, delivery, upstream, pc, local>>

DeliveryLapse ==
    /\ delivery.left > 0 /\ delivery.owner \in Thread
    /\ delivery' = Elapse(delivery)
    /\ IF delivery.left = 1
          /\ thr[delivery.owner].at \in Locked \union {"condemning", "freeing"}
       THEN Fault ELSE UNCHANGED faults
    /\ UNCHANGED <<row, lease, upstream, pc, local>>

\* An await takes the delivery lease and renews it until it frees it; a row
\* left behind by a lost release or a crash is freed by its expiry.
AwaitClaims ==
    /\ delivery.owner # Await
    /\ Claimable(delivery, Await)
    /\ delivery' = ClaimLease(delivery, Await, 0)
    /\ UNCHANGED <<row, lease, upstream, pc, local, faults>>

AwaitFrees ==
    /\ delivery.owner = Await
    /\ delivery' = ReleaseLease(delivery, Await)
    /\ UNCHANGED <<row, lease, upstream, pc, local, faults>>

\* The upstream task works, asks for input and ends.  Stamps have a precision
\* of a second: several changes may share one.
UpStep(status, stamp) ==
    /\ up.status \in {"working", "input_required"}
    /\ status # up.status
    /\ stamp \in {up.stamp, up.stamp + 1} \cap 0..MaxStamp
    /\ up' = [status |-> status, stamp |-> stamp]
    /\ UNCHANGED <<store, calls, pc, local, faults>>

-----------------------------------------------------------------------------

ApplyStep(t) ==
    \/ Begin(t) \/ ClaimDelivery(t) \/ Observe(t) \/ Settle(t)
    \/ Free(t) \/ Abort(t)

\* What an invocation does if it is scheduled and nothing fails.
Work(o) ==
    \/ Load(o) \/ Queue(o) \/ Start(o) \/ Connect(o)
    \/ Call(o) \/ Attach(o) \/ Record(o) \/ Poll(o)
    \/ FailClaim(o) \/ Condemn(o) \/ Leave(o) \/ Release(o)

Next ==
    \/ \E o \in Invocation :
          \/ Claim(o) \/ Work(o) \/ Renew(o) \/ Notify(o)
          \/ Deferred(o) \/ Refused(o) \/ Lost(o) \/ Cancel(o) \/ Crash(o)
    \/ \E t \in Thread : ApplyStep(t) \/ Foreign(t) \/ FreeLost(t)
    \/ Lapse \/ DeliveryLapse \/ AwaitClaims \/ AwaitFrees
    \/ \E status \in UpState, stamp \in 0..MaxStamp : UpStep(status, stamp)

Spec == Init /\ [][Next]_vars

\* The sweep lists every pending row and some invocation claims it.
SweepClaims == row.status \in Pending /\ \E o \in Invocation : Claim(o)

\* Every goroutine is scheduled and upstream calls return; an abandoned lease
\* expires; an await ends, and a client answers finitely often, so the delivery
\* lease is not held for ever.  Nothing is assumed of notifications.
FairSpec ==
    /\ Spec
    /\ \A o \in Invocation : WF_vars(Work(o)) /\ WF_vars(Renew(o))
    /\ \A t \in Thread : WF_vars(ApplyStep(t))
    /\ SF_vars(SweepClaims)
    /\ WF_vars(Lapse /\ UNCHANGED faults)
    /\ WF_vars(DeliveryLapse /\ UNCHANGED faults)
    /\ WF_vars(AwaitFrees)
    /\ <>[][~ AwaitClaims]_vars

-----------------------------------------------------------------------------

\* task_run.go: "tools/call is replayed only when the pinned bindings prove
\* Message Submission idempotency".  Whatever crashes, stalls or is lost, the
\* call of an operation without that proof reaches upstream at most once.
NoDuplicateCall == ~ Replayable => calls <= 1

\* A result, a cancellation or an expiry the row reports is the one the task
\* ended with; and a row that reports a failure the task did not have, or an
\* unknown outcome, goes back to a fault: neither follows from two invocations
\* and their goroutines alone.  (An unknown outcome says nothing of what
\* happened upstream, not even that a call was made: UnknownOnlyIfCalled.)
TruthfulOutcome ==
    /\ row.status = "completed" => up.status = "completed" /\ row.task
    /\ row.status \in {"cancelled", "expired"} => up.status = row.status
    /\ row.status = "failed" => up.status \in {"failed", "oversized"} \/ faults > 0
    /\ row.status = "outcome_unknown" => faults > 0

\* A row changes state only by a step of the invocation that holds its live
\* lease, and never again once it is terminal.
SettledByLeaseHolder ==
    [][row'.status # row.status =>
          /\ row.status \in Pending
          /\ lease.owner \in Invocation /\ lease.left > 0
          /\ \/ pc'[lease.owner] # pc[lease.owner]
             \/ \E t \in Threads(lease.owner) : thr'[t] # thr[t]]_vars

\* A late snapshot never overwrites a newer one: polls and notifications are
\* applied in the order of their stamps although they arrive in any order.
ObservationsInOrder == [][row'.stamp >= row.stamp]_vars

\* A task that ends upstream ends here.
EndsHere == up.status \in Ending ~> row.status \in Terminal

\* A task that waits for input is shown waiting, with its outstanding input,
\* even if the process died between the observation and the state change, or
\* if two changes share one stamp; unless it moves on or the row has settled.
InputIsRequested ==
    up.status = "input_required" ~>
        \/ row.status = "input_required" /\ row.asks
        \/ up.status # "input_required"
        \/ row.status \in Terminal

\* wip/tama-link-specification.md: "`outcome_unknown` is reserved for the
\* ambiguous result of a non-replayable synchronous mutation": some call must
\* have been made.
UnknownOnlyIfCalled == row.status = "outcome_unknown" => calls > 0
=============================================================================
