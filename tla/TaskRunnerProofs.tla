-------------------------- MODULE TaskRunnerProofs --------------------------
(***************************************************************************)
(* Proofs about TaskRunner, for any number of Run invocations, any lease   *)
(* duration, any number of faults, and a call with or without the proof of *)
(* idempotency.                                                            *)
(***************************************************************************)
EXTENDS TaskRunner, TLAPS

Location == {"idle", "claimed", "queueing", "starting", "connecting",
             "opening", "called", "attached", "following", "failing",
             "leaving", "cancelled", "releasing"}

\* The statements of lease.go keep a row well typed, whoever its owners are.
LEMMA ElapseType ==
    ASSUME NEW Owners, NEW r \in LeaseRow(Owners)
    PROVE  Elapse(r) \in LeaseRow(Owners)
  BY TTLAssumption DEF LeaseRow, Elapse

LEMMA RowTypes ==
    ASSUME NEW Owners, NEW r \in LeaseRow(Owners), NEW o \in Owners
    PROVE  /\ NoLease \in LeaseRow(Owners)
           /\ ClaimLease(r, o, 0) \in LeaseRow(Owners)
           /\ RenewLease(r, 0) \in LeaseRow(Owners)
           /\ ReleaseLease(r, o) \in LeaseRow(Owners)
           /\ [r EXCEPT !.owner = o] \in LeaseRow(Owners)
  BY TTLAssumption
     DEF NoLease, LeaseRow, ClaimLease, RenewLease, ReleaseLease

\* A goroutine is named by its invocation.
LEMMA ThreadFacts ==
    /\ \A o \in Invocation : Poller(o) \in Thread /\ Watcher(o) \in Thread
    /\ \A t \in Thread : /\ t[1] \in Invocation
                         /\ t = Poller(t[1]) \/ t = Watcher(t[1])
    /\ \A o, p \in Invocation : /\ Poller(o) = Poller(p) => o = p
                                /\ Watcher(o) = Watcher(p) => o = p
                                /\ Poller(o) # Watcher(p)
    /\ \A o \in Invocation : Poller(o)[1] = o /\ Watcher(o)[1] = o
  BY DEF Thread, Poller, Watcher

RowType == [status : State, task : BOOLEAN, stamp : 0..MaxStamp, asks : BOOLEAN]
UpType == [status : UpState \union {"none"}, stamp : 0..MaxStamp]
RunType == [first : BOOLEAN, task : BOOLEAN,
            verdict : {"none", "failed", "outcome_unknown"}]
ThreadState == [at : ThreadAt, status : SnapState,
                stamp : 0..MaxStamp, seen : State \union {"none"}]
DeliveryOwner == Thread \union {Await}

LEMMA TypeParts ==
    TypeOK <=> /\ row \in RowType
               /\ lease \in LeaseRow(Invocation) /\ delivery \in LeaseRow(DeliveryOwner)
               /\ up \in UpType /\ calls \in Nat
               /\ pc \in [Invocation -> Location] /\ run \in [Invocation -> RunType]
               /\ thr \in [Thread -> ThreadState]
               /\ faults \in 0..MaxFaults
  BY DEF TypeOK, RowType, UpType, RunType, ThreadState, DeliveryOwner, Location

LEMMA ThreadConstants ==
    /\ Off \in ThreadState /\ Idle \in ThreadState /\ Ended \in ThreadState
    /\ [Idle EXCEPT !.at = "condemning"] \in ThreadState
    /\ [Idle EXCEPT !.at = "freeing"] \in ThreadState
    /\ [Idle EXCEPT !.at = "fetched", !.status = "foreign"] \in ThreadState
  <1>1. 0 \in 0..MaxStamp /\ "none" \in State \union {"none"}
    BY TaskAssumption
  <1>2. {"none", "foreign"} \subseteq SnapState
    BY DEF SnapState
  <1>3. {"off", "idle", "ending", "condemning", "freeing", "fetched"} \subseteq ThreadAt
    BY DEF ThreadAt, Locked
  <1>4. QED
    BY <1>1, <1>2, <1>3 DEF ThreadState, Off, Idle, Ended

LEMMA ThreadChanges ==
    ASSUME NEW u \in ThreadState, NEW s \in State
    PROVE  /\ Deciding(u) \in ThreadState
           /\ [u EXCEPT !.at = "observing"] \in ThreadState
           /\ [u EXCEPT !.at = "claiming", !.seen = s] \in ThreadState
           /\ \A n \in 0..MaxStamp : [u EXCEPT !.stamp = n] \in ThreadState
  <1>1. 0 \in 0..MaxStamp /\ "none" \in State \union {"none"}
    BY TaskAssumption
  <1>2. {"settling", "observing", "claiming"} \subseteq ThreadAt
    BY DEF ThreadAt, Locked
  <1>3. QED
    BY <1>1, <1>2 DEF ThreadState, Deciding

LEMMA SnapshotState == ASSUME up \in UpType PROVE Snapshot \in ThreadState
  <1>1. Normalize(up.status) \in SnapState /\ up.stamp \in 0..MaxStamp
    BY DEF UpType, UpState, Normalize, SnapState
  <1>2. QED
    BY <1>1 DEF Snapshot, ThreadState, ThreadAt, Idle

\* A status write is one the state machine allows, so it writes a state.
LEMMA AllowedTypes ==
    ASSUME NEW from, NEW to, Allowed(from, to)
    PROVE  from \in Pending /\ to \in State
  BY DEF Allowed, State, Pending, Terminal

LEMMA RowChanges ==
    ASSUME NEW r \in RowType
    PROVE  /\ \A to \in State : [r EXCEPT !.status = to] \in RowType
           /\ \A to \in State, asks \in BOOLEAN :
                 [r EXCEPT !.status = to, !.asks = asks] \in RowType
           /\ \A n \in 0..MaxStamp, asks \in BOOLEAN :
                 [r EXCEPT !.stamp = n, !.asks = asks] \in RowType
           /\ [r EXCEPT !.task = TRUE] \in RowType
           /\ r.status \in State /\ r.stamp \in 0..MaxStamp
           /\ r.task \in BOOLEAN /\ r.asks \in BOOLEAN
  BY DEF RowType

LEMMA RunChanges ==
    ASSUME NEW r \in RunType
    PROVE  /\ Fresh \in RunType
           /\ [r EXCEPT !.verdict = "failed"] \in RunType
           /\ [r EXCEPT !.verdict = "outcome_unknown"] \in RunType
           /\ \A a, b \in BOOLEAN : [Fresh EXCEPT !.first = a, !.task = b] \in RunType
  BY DEF RunType, Fresh

\* Every step keeps the types.
LEMMA TypeOKStep == TypeOK /\ [Next]_vars => TypeOK'
  <1> SUFFICES ASSUME TypeOK, [Next]_vars PROVE TypeOK'
    OBVIOUS
  <1> USE DEF Goto, store, upstream, local
  <1>0. /\ row \in RowType
        /\ lease \in LeaseRow(Invocation) /\ delivery \in LeaseRow(DeliveryOwner)
        /\ up \in UpType /\ calls \in Nat
        /\ pc \in [Invocation -> Location] /\ run \in [Invocation -> RunType]
        /\ thr \in [Thread -> ThreadState]
        /\ faults \in 0..MaxFaults
    BY TypeParts
  <1>a. ASSUME /\ row' \in RowType
               /\ lease' \in LeaseRow(Invocation) /\ delivery' \in LeaseRow(DeliveryOwner)
               /\ up' \in UpType /\ calls' \in Nat
               /\ pc' \in [Invocation -> Location] /\ run' \in [Invocation -> RunType]
               /\ thr' \in [Thread -> ThreadState]
               /\ faults' \in 0..MaxFaults
        PROVE TypeOK'
    BY <1>a DEF TypeOK, RowType, UpType, RunType, ThreadState, DeliveryOwner, Location
  <1>b. ASSUME Fault PROVE faults' \in 0..MaxFaults
    BY <1>b, <1>0, TaskAssumption DEF Fault
  <1>c. ASSUME NEW o \in Invocation, Follow(o)
        PROVE  /\ pc' \in [Invocation -> Location] /\ run' \in [Invocation -> RunType]
               /\ thr' \in [Thread -> ThreadState]
    BY <1>c, <1>0, RunChanges, ThreadConstants DEF Follow, Location
  <1>d. ASSUME NEW o \in Invocation, NEW v \in {"failed", "outcome_unknown"}, Failing(o, v)
        PROVE  pc' \in [Invocation -> Location] /\ run' \in [Invocation -> RunType]
    BY <1>d, <1>0, RunChanges DEF Failing, Location
  <1>1. ASSUME NEW o \in Invocation, Claim(o) PROVE TypeOK'
    <2>1. lease' \in LeaseRow(Invocation)
      BY <1>1, <1>0, RowTypes DEF Claim
    <2>2. QED
      BY <1>1, <2>1, <1>0, <1>a DEF Claim, Location
  <1>2. ASSUME NEW o \in Invocation, Load(o) PROVE TypeOK'
    <2>1. pc' \in [Invocation -> Location]
      BY <1>2, <1>0 DEF Load, Location
    <2>2. run' \in [Invocation -> RunType]
      <3>1. row.task \in BOOLEAN
        BY <1>0, RowChanges
      <3>2. [Fresh EXCEPT !.first = row.status \in {"accepted", "queued"}, !.task = row.task]
               \in RunType
        <4>1. CASE row.status \in {"accepted", "queued"}
          BY <3>1, <4>1 DEF RunType, Fresh
        <4>2. CASE row.status \notin {"accepted", "queued"}
          <5>1. [Fresh EXCEPT !.first = FALSE, !.task = row.task] \in RunType
            BY <3>1 DEF RunType, Fresh
          <5>2. (row.status \in {"accepted", "queued"}) = FALSE
            BY <4>2
          <5>3. QED
            BY <5>1, <5>2, Zenon
        <4>3. QED
          BY <4>1, <4>2
      <3>3. QED
        BY <1>2, <3>2, <1>0 DEF Load
    <2>3. QED
      BY <1>2, <2>1, <2>2, <1>0, <1>a DEF Load
  <1>3. ASSUME NEW o \in Invocation, Queue(o) \/ Start(o) PROVE TypeOK'
    <2>1. row' \in RowType
      <3>1. {"queued", "running"} \subseteq State
        BY DEF State, Pending
      <3>2. QED
        BY ZenonT(40), <1>3, <3>1, <1>0, RowChanges DEF Queue, Start, Advance
    <2>2. QED
      BY <1>3, <2>1, <1>0, <1>a DEF Queue, Start, Advance, Location
  <1>4. ASSUME NEW o \in Invocation, Connect(o) PROVE TypeOK'
    <2>1. CASE Follow(o)
      BY <1>4, <2>1, <1>0, <1>a, <1>c DEF Connect
    <2>2. CASE Goto(o, "opening") /\ UNCHANGED local
      BY <1>4, <2>2, <1>0, <1>a DEF Connect, Location
    <2>3. CASE Failing(o, "outcome_unknown") /\ UNCHANGED thr
      BY <1>4, <2>3, <1>0, <1>a, <1>d DEF Connect
    <2>4. QED
      BY <1>4, <2>1, <2>2, <2>3 DEF Connect
  <1>5. ASSUME NEW o \in Invocation, Deferred(o) \/ Cancel(o) PROVE TypeOK'
    BY <1>5, <1>0, <1>a, <1>b DEF Deferred, Cancel, Location
  <1>6. ASSUME NEW o \in Invocation, Refused(o) PROVE TypeOK'
    BY <1>6, <1>0, <1>a, <1>b, <1>d DEF Refused
  <1>7. ASSUME NEW o \in Invocation, Lost(o) PROVE TypeOK'
    <2>1. pc' \in [Invocation -> Location] /\ run' \in [Invocation -> RunType]
      BY <1>7, <1>0, <1>d DEF Lost, Location
    <2>2. QED
      BY <1>7, <2>1, <1>0, <1>a, <1>b DEF Lost
  <1>8. ASSUME NEW o \in Invocation, Call(o) PROVE TypeOK'
    <2>1. up' \in UpType
      BY <1>8, <1>0, TaskAssumption DEF Call, UpType, UpState
    <2>2. thr' \in [Thread -> ThreadState]
      <3>1. up'.stamp \in 0..MaxStamp
        BY <2>1 DEF UpType
      <3>2. QED
        BY <1>8, <3>1, <1>0, ThreadFacts, ThreadChanges DEF Call, State, Pending
    <2>3. QED
      BY <1>8, <2>1, <2>2, <1>0, <1>a DEF Call, Location
  <1>9. ASSUME NEW o \in Invocation, Attach(o) PROVE TypeOK'
    BY <1>9, <1>0, <1>a, RowChanges DEF Attach, Location
  <1>10. ASSUME NEW o \in Invocation, Record(o) PROVE TypeOK'
    <2>1. CASE MayObserve(o)
      <3>1. thr[Poller(o)].stamp \in 0..MaxStamp
        BY <1>0, ThreadFacts DEF ThreadState
      <3>2. row' \in RowType
        BY ZenonT(40), <1>10, <2>1, <3>1, <1>0, RowChanges DEF Record
      <3>3. QED
        BY <1>10, <2>1, <3>2, <1>0, <1>a, <1>c DEF Record
    <2>2. CASE ~ MayObserve(o)
      BY <1>10, <2>2, <1>0, <1>a DEF Record, Location
    <2>3. QED
      BY <2>1, <2>2
  <1>11. ASSUME NEW o \in Invocation, Poll(o) \/ Notify(o) PROVE TypeOK'
    BY <1>11, <1>0, <1>a, SnapshotState DEF Poll, Notify, Location
  <1>12. ASSUME NEW o \in Invocation, FailClaim(o) PROVE TypeOK'
    <2>1. delivery' \in LeaseRow(DeliveryOwner)
      <3>1. Poller(o) \in DeliveryOwner
        BY ThreadFacts DEF DeliveryOwner
      <3>2. ClaimLease(delivery, Poller(o), 0) \in LeaseRow(DeliveryOwner)
        BY <3>1, <1>0, RowTypes
      <3>3. QED
        BY <1>12, <3>2, <1>0 DEF FailClaim
    <2>2. thr' \in [Thread -> ThreadState]
      BY <1>12, <1>0, ThreadConstants DEF FailClaim
    <2>3. QED
      BY <1>12, <2>1, <2>2, <1>0, <1>a DEF FailClaim, Location
  <1>13. ASSUME NEW o \in Invocation, Condemn(o) PROVE TypeOK'
    <2>1. row' \in RowType
      BY <1>13, <1>0, RowChanges, AllowedTypes DEF Condemn, MayMove
    <2>2. thr' \in [Thread -> ThreadState]
      BY <1>13, <1>0, ThreadConstants DEF Condemn
    <2>3. QED
      BY <1>13, <2>1, <2>2, <1>0, <1>a DEF Condemn, Location
  <1>14. ASSUME NEW o \in Invocation, Leave(o) \/ Crash(o) PROVE TypeOK'
    <2>1. thr' \in [Thread -> ThreadState]
      BY <1>14, <1>0, ThreadConstants DEF Leave, Crash
    <2>2. run' \in [Invocation -> RunType]
      BY <1>14, <1>0, RunChanges DEF Leave, Crash
    <2>3. QED
      BY <1>14, <2>1, <2>2, <1>0, <1>a, <1>b DEF Leave, Crash, Location
  <1>15. ASSUME NEW o \in Invocation, Release(o) \/ Renew(o) PROVE TypeOK'
    <2>1. lease' \in LeaseRow(Invocation)
      <3>1. /\ ReleaseLease(lease, o) \in LeaseRow(Invocation)
            /\ RenewLease(lease, 0) \in LeaseRow(Invocation)
        BY <1>0, RowTypes
      <3>2. QED
        BY <1>15, <3>1, <1>0 DEF Release, Renew
    <2>2. QED
      BY <1>15, <2>1, <1>0, <1>a DEF Release, Renew, Location
  <1>16. ASSUME NEW t \in Thread, Begin(t) PROVE TypeOK'
    <2>1. row.status \in State
      BY <1>0, RowChanges
    <2>2. [thr[t] EXCEPT !.at = "claiming", !.seen = row.status] \in ThreadState
      BY <2>1, <1>0, ThreadChanges
    <2>3. thr' \in [Thread -> ThreadState]
      BY <1>16, <2>2, <1>0, ThreadConstants DEF Begin
    <2>4. QED
      BY <1>16, <2>3, <1>0, <1>a DEF Begin
  <1>17. ASSUME NEW t \in Thread, ClaimDelivery(t) PROVE TypeOK'
    <2>1. delivery' \in LeaseRow(DeliveryOwner)
      <3>1. t \in DeliveryOwner
        BY DEF DeliveryOwner
      <3>2. ClaimLease(delivery, t, 0) \in LeaseRow(DeliveryOwner)
        BY <3>1, <1>0, RowTypes
      <3>3. QED
        BY <1>17, <3>2, <1>0 DEF ClaimDelivery
    <2>2. [thr[t] EXCEPT !.at = "observing"] \in ThreadState /\ Deciding(thr[t]) \in ThreadState
      BY <1>0, ThreadChanges, RowChanges
    <2>3. thr' \in [Thread -> ThreadState]
      BY <1>17, <2>2, <1>0, ThreadConstants DEF ClaimDelivery
    <2>4. QED
      BY <1>17, <2>1, <2>3, <1>0, <1>a DEF ClaimDelivery
  <1>18. ASSUME NEW t \in Thread, Observe(t) PROVE TypeOK'
    <2>1. thr[t].stamp \in 0..MaxStamp /\ Deciding(thr[t]) \in ThreadState
      BY <1>0, ThreadChanges, RowChanges DEF ThreadState
    <2>2. row' \in RowType
      <3>1. (thr[t].status = "input_required") \in BOOLEAN
        OBVIOUS
      <3>2. [row EXCEPT !.stamp = thr[t].stamp, !.asks = thr[t].status = "input_required"]
               \in RowType
        BY <2>1, <3>1, <1>0 DEF RowType
      <3>3. QED
        BY <1>18, <3>2, <1>0 DEF Observe
    <2>3. thr' \in [Thread -> ThreadState]
      BY <1>18, <2>1, <1>0, ThreadConstants DEF Observe
    <2>4. QED
      BY <1>18, <2>2, <2>3, <1>0, <1>a DEF Observe
  <1>19. ASSUME NEW t \in Thread, Settle(t) PROVE TypeOK'
    <2>1. row' \in RowType
      <3>1. CASE MayMove(t[1], Settlement(thr[t].status))
        <4>1. Settlement(thr[t].status) \in State
          BY <3>1, AllowedTypes DEF MayMove
        <4>2. row' = [row EXCEPT !.status = Settlement(thr[t].status),
                        !.asks = row.asks /\ thr[t].status \notin {"failed", "cancelled", "expired"}]
          BY <1>19, <3>1 DEF Settle
        <4>3. QED
          BY <4>1, <4>2, <1>0 DEF RowType
      <3>2. CASE ~ MayMove(t[1], Settlement(thr[t].status))
        BY <1>19, <3>2, <1>0 DEF Settle
      <3>3. QED
        BY <3>1, <3>2
    <2>2. pc' \in [Invocation -> Location]
      BY <1>19, <1>0, ThreadFacts DEF Settle, Location
    <2>3. thr' \in [Thread -> ThreadState]
      BY <1>19, <1>0, ThreadConstants DEF Settle
    <2>4. QED
      BY <1>19, <2>1, <2>2, <2>3, <1>0, <1>a DEF Settle
  <1>20. ASSUME NEW t \in Thread, Free(t) \/ FreeLost(t) PROVE TypeOK'
    <2>1. delivery' \in LeaseRow(DeliveryOwner)
      <3>1. t \in DeliveryOwner /\ Await \in DeliveryOwner
        BY DEF DeliveryOwner
      <3>2. /\ ReleaseLease(delivery, t) \in LeaseRow(DeliveryOwner)
            /\ [delivery EXCEPT !.owner = Await] \in LeaseRow(DeliveryOwner)
        BY <3>1, <1>0, RowTypes
      <3>3. QED
        BY <1>20, <3>2, <1>0 DEF Free, FreeLost
    <2>2. thr' \in [Thread -> ThreadState]
      BY <1>20, <1>0, ThreadConstants DEF Free, FreeLost
    <2>3. QED
      BY <1>20, <2>1, <2>2, <1>0, <1>a, <1>b DEF Free, FreeLost
  <1>21. ASSUME NEW t \in Thread, Abort(t) \/ Foreign(t) PROVE TypeOK'
    <2>1. thr' \in [Thread -> ThreadState]
      BY <1>21, <1>0, ThreadConstants DEF Abort, Foreign
    <2>2. QED
      BY <1>21, <2>1, <1>0, <1>a, <1>b DEF Abort, Foreign
  <1>22. CASE Lapse \/ DeliveryLapse
    <2>1. /\ Elapse(lease) \in LeaseRow(Invocation)
          /\ Elapse(delivery) \in LeaseRow(DeliveryOwner)
      BY <1>0, ElapseType
    <2>2. faults' \in 0..MaxFaults
      BY <1>22, <1>0, <1>b DEF Lapse, DeliveryLapse
    <2>3. QED
      BY <1>22, <2>1, <2>2, <1>0, <1>a DEF Lapse, DeliveryLapse
  <1>23. CASE AwaitClaims \/ AwaitFrees
    <2>1. Await \in DeliveryOwner
      BY DEF DeliveryOwner
    <2>2. delivery' \in LeaseRow(DeliveryOwner)
      <3>1. /\ ClaimLease(delivery, Await, 0) \in LeaseRow(DeliveryOwner)
            /\ ReleaseLease(delivery, Await) \in LeaseRow(DeliveryOwner)
        BY <2>1, <1>0, RowTypes
      <3>2. QED
        BY <1>23, <3>1 DEF AwaitClaims, AwaitFrees
    <2>3. QED
      BY <1>23, <2>2, <1>0, <1>a DEF AwaitClaims, AwaitFrees
  <1>24. ASSUME NEW status \in UpState, NEW stamp \in 0..MaxStamp, UpStep(status, stamp)
         PROVE TypeOK'
    <2>1. up' \in UpType
      BY <1>24 DEF UpStep, UpType
    <2>2. QED
      BY <1>24, <2>1, <1>0, <1>a DEF UpStep
  <1>25. CASE UNCHANGED vars
    BY <1>25, <1>0, <1>a DEF vars
  <1>26. QED
    BY <1>1, <1>2, <1>3, <1>4, <1>5, <1>6, <1>7, <1>8, <1>9, <1>10, <1>11, <1>12,
       <1>13, <1>14, <1>15, <1>16, <1>17, <1>18, <1>19, <1>20, <1>21, <1>22, <1>23,
       <1>24, <1>25 DEF Next, Work, ApplyStep
-----------------------------------------------------------------------------
(* The inductive invariant.                                                *)

\* Nobody moves the row while its loader still holds the lease.
LoadedRow ==
    \A o \in Invocation : Live(lease, o) =>
        /\ pc[o] = "queueing" => row.status = "accepted"
        /\ pc[o] = "starting" => row.status = "queued"

\* The invocation that may make the first call: the one that started the row.
MayOpen(o) == pc[o] \in {"connecting", "opening"} /\ run[o].first

OneOpener ==
    ~ Replayable =>
        /\ \A o \in Invocation : pc[o] = "opening" => run[o].first
        /\ \A o \in Invocation :
              MayOpen(o) => calls = 0 /\ row.status \notin {"accepted", "queued"}
        /\ \A o, p \in Invocation : MayOpen(o) /\ MayOpen(p) => o = p
        /\ calls <= 1
        /\ row.status \in {"accepted", "queued"} => calls = 0

NoTaskYet ==
    /\ calls = 0 => up.status = "none"
    /\ up.status = "none" => up.stamp = 0

\* Whoever follows the task has its handle stored.
HandleStored ==
    /\ \A o \in Invocation :
          /\ pc[o] \in {"attached", "following"} \/ run[o].task => row.task
          /\ thr[Watcher(o)].at # "off" => row.task
    /\ \A t \in Thread : thr[t].at = "fetched" \/ thr[t].status # "none" => row.task

\* A snapshot of an ended task is never out of date.
EndingIsFinal == \A t \in Thread : thr[t].status \in Ending => up.status = thr[t].status

\* A verdict, and an answer about another task, go back to a fault.
FaultsTold ==
    /\ \A o \in Invocation : run[o].verdict # "none" => faults > 0
    /\ \A t \in Thread : thr[t].status = "foreign" => faults > 0

\* Without faults an invocation keeps its lease to the end, so a row that was
\* sent and has no handle yet is still with the invocation that sent it; nobody
\* else loads it, and nobody loads it without the right to call.
Undisturbed ==
    faults = 0 =>
        /\ \A o \in Invocation : pc[o] # "idle" => Live(lease, o)
        /\ \A o \in Invocation :
              /\ pc[o] \in {"queueing", "starting"} => run[o].first
              /\ pc[o] = "connecting" => run[o].task \/ run[o].first
        /\ row.status \in {"running", "input_required"} /\ ~ row.task =>
              \E o \in Invocation : pc[o] \in {"connecting", "opening", "called"}

\* The goroutines exist only while Run follows, or returns from following.
ThreadsOff ==
    \A o \in Invocation :
        pc[o] \in {"idle", "claimed", "queueing", "starting", "connecting", "opening",
                   "called", "attached", "releasing"}
        => thr[Poller(o)].at = "off" /\ thr[Watcher(o)].at = "off"

\* apply runs under the mutex.
OneInApply ==
    \A o \in Invocation :
        ~ (thr[Poller(o)].at \in Locked /\ thr[Watcher(o)].at \in Locked)

\* A snapshot past its newerObservation check stays the newest, as long as its
\* invocation holds the lease.
Checked(t) ==
    \/ thr[t].at = "observing"
    \/ thr[t].at = "claiming" /\ thr[t].status # "foreign"

StampsAhead ==
    \A o \in Invocation : Live(lease, o) =>
        /\ pc[o] \in {"called", "attached"} => row.stamp <= thr[Poller(o)].stamp
        /\ Checked(Poller(o)) => row.stamp <= thr[Poller(o)].stamp
        /\ Checked(Watcher(o)) => row.stamp <= thr[Watcher(o)].stamp

StampsBehind == row.stamp <= up.stamp /\ \A t \in Thread : thr[t].stamp <= up.stamp

IInv ==
    /\ TypeOK
    /\ LoadedRow /\ OneOpener /\ NoTaskYet
    /\ HandleStored /\ EndingIsFinal /\ FaultsTold /\ Undisturbed /\ TruthfulOutcome
    /\ ThreadsOff /\ OneInApply /\ StampsBehind /\ StampsAhead

-----------------------------------------------------------------------------
(* What a step can do.                                                     *)

\* A lease is live after a step only if it was, or was just claimed.
LEMMA LiveStep ==
    ASSUME TypeOK, [Next]_vars, NEW o \in Invocation, Live(lease', o)
    PROVE  Live(lease, o) \/ Claim(o)
  <1> USE TypeParts, TaskAssumption, TTLAssumption
  <1>1. ASSUME NEW p \in Invocation, Claim(p) PROVE Live(lease, o) \/ Claim(o)
    BY <1>1 DEF Claim, ClaimLease, Live
  <1>2. ASSUME NEW p \in Invocation, Renew(p) PROVE Live(lease, o)
    BY <1>2 DEF Renew, Renewable, RenewLease, Live, LeaseRow
  <1>3. ASSUME NEW p \in Invocation, Release(p) PROVE Live(lease, o)
    BY <1>3 DEF Release, ReleaseLease, NoLease, Live
  <1>4. CASE Lapse
    BY <1>4 DEF Lapse, Elapse, Live, LeaseRow
  <1>5. CASE UNCHANGED lease
    BY <1>5
  <1>6. QED
    BY <1>1, <1>2, <1>3, <1>4, <1>5
       DEF Next, Work, ApplyStep, store, vars, Load, Queue, Start, Advance, Connect, Deferred,
           Refused, Call, Lost, Attach, Record, Poll, Notify, FailClaim, Condemn, Leave,
           Cancel, Crash, Begin, ClaimDelivery, Observe, Settle, Free, FreeLost, Abort,
           Foreign, DeliveryLapse, AwaitClaims, AwaitFrees, UpStep

\* Two invocations never hold the lease at once.
LEMMA OneHolder ==
    ASSUME NEW o, NEW p, Live(lease, o), Live(lease, p) PROVE o = p
  BY DEF Live

\* The steps of one goroutine inside apply or fail.
Applies(t) ==
    \/ Begin(t) \/ ClaimDelivery(t) \/ Observe(t) \/ Settle(t)
    \/ Free(t) \/ FreeLost(t) \/ Abort(t) \/ Foreign(t)

\* Such a step touches nothing but the row, the delivery lease and the goroutine.
LEMMA AppliesFrame ==
    ASSUME TypeOK, NEW t \in Thread, Applies(t)
    PROVE  /\ UNCHANGED <<lease, up, calls, run>>
           /\ row'.task = row.task
           /\ pc' = pc \/ pc' = [pc EXCEPT ![t[1]] = "leaving"]
           /\ thr[t].at \notin {"off", "idle"}
           /\ \A u \in Thread : u # t => thr'[u] = thr[u]
           /\ thr'[t].stamp \in {0, thr[t].stamp}
           /\ thr'[t].status \in {"none", "foreign", thr[t].status}
           /\ Foreign(t) \/ thr'[t].status \in {"none", thr[t].status}
           /\ thr[t].at = "fetched" \/ thr'[t].status \in {"none", thr[t].status}
           /\ thr'[t].at = "fetched" => thr[t].at = "fetched"
  <1> USE DEF upstream, store, local, Goto
  <1>0. thr \in [Thread -> ThreadState] /\ row \in RowType
    BY TypeParts
  <1>a. ASSUME thr' = [thr EXCEPT ![t] = thr'[t]],
               \/ thr'[t] \in {Idle, Off, Ended, Deciding(thr[t]), [Idle EXCEPT !.at = "freeing"]}
               \/ thr'[t] = [thr[t] EXCEPT !.at = "observing"]
               \/ \E s \in State : thr'[t] = [thr[t] EXCEPT !.at = "claiming", !.seen = s]
               \/ /\ thr'[t] = [Idle EXCEPT !.at = "fetched", !.status = "foreign"]
                  /\ Foreign(t) /\ thr[t].at = "fetched"
        PROVE  /\ \A u \in Thread : u # t => thr'[u] = thr[u]
               /\ thr'[t].stamp \in {0, thr[t].stamp}
               /\ thr'[t].status \in {"none", "foreign", thr[t].status}
               /\ Foreign(t) \/ thr'[t].status \in {"none", thr[t].status}
               /\ thr[t].at = "fetched" \/ thr'[t].status \in {"none", thr[t].status}
               /\ thr'[t].at = "fetched" => thr[t].at = "fetched"
    <2>1. \A u \in Thread : u # t => thr'[u] = thr[u]
      BY <1>a, <1>0
    <2>2. ASSUME thr'[t] \in {Idle, Off, Ended, [Idle EXCEPT !.at = "freeing"]}
          PROVE  thr'[t].stamp = 0 /\ thr'[t].status = "none" /\ thr'[t].at # "fetched"
      BY <2>2 DEF Idle, Off, Ended
    <2>3. ASSUME NEW s, thr'[t] \in {Deciding(thr[t]), [thr[t] EXCEPT !.at = "observing"],
                                   [thr[t] EXCEPT !.at = "claiming", !.seen = s]}
          PROVE  /\ thr'[t].stamp \in {0, thr[t].stamp} /\ thr'[t].status = thr[t].status
                 /\ thr'[t].at # "fetched"
      BY <2>3, <1>0 DEF ThreadState, Deciding
    <2>4. ASSUME thr'[t] = [Idle EXCEPT !.at = "fetched", !.status = "foreign"]
          PROVE  thr'[t].stamp = 0 /\ thr'[t].status = "foreign"
      BY <2>4 DEF Idle
    <2>5. CASE thr'[t] \in {Idle, Off, Ended, [Idle EXCEPT !.at = "freeing"]}
      BY <2>1, <2>2, <2>5
    <2>6. CASE thr'[t] \in {Deciding(thr[t]), [thr[t] EXCEPT !.at = "observing"]}
      BY <2>1, <2>3, <2>6
    <2>7. CASE \E s \in State : thr'[t] = [thr[t] EXCEPT !.at = "claiming", !.seen = s]
      BY <2>1, <2>3, <2>7
    <2>8. CASE /\ thr'[t] = [Idle EXCEPT !.at = "fetched", !.status = "foreign"]
               /\ Foreign(t) /\ thr[t].at = "fetched"
      BY <2>1, <2>4, <2>8
    <2>9. QED
      BY <1>a, <2>5, <2>6, <2>7, <2>8
  <1>1. CASE Begin(t)
    <2>1. row.status \in State
      BY <1>0 DEF RowType
    <2>2. \/ thr' = [thr EXCEPT ![t] = Idle]
          \/ thr' = [thr EXCEPT ![t] = Off]
          \/ thr' = [thr EXCEPT ![t] = [thr[t] EXCEPT !.at = "claiming", !.seen = row.status]]
      BY <1>1 DEF Begin
    <2>3. QED
      BY <1>1, <1>0, <1>a, <2>1, <2>2 DEF Begin
  <1>2. CASE ClaimDelivery(t)
    <2>1. \/ thr' = [thr EXCEPT ![t] = Idle]
          \/ thr' = [thr EXCEPT ![t] = Deciding(thr[t])]
          \/ thr' = [thr EXCEPT ![t] = [thr[t] EXCEPT !.at = "observing"]]
      BY <1>2 DEF ClaimDelivery
    <2>2. QED
      BY <1>2, <1>0, <1>a, <2>1 DEF ClaimDelivery
  <1>3. CASE Observe(t)
    <2>1. thr' = [thr EXCEPT ![t] = Ended] \/ thr' = [thr EXCEPT ![t] = Deciding(thr[t])]
      BY <1>3 DEF Observe
    <2>2. row'.task = row.task
      BY <1>3, <1>0 DEF Observe, RowType
    <2>3. QED
      BY <1>3, <1>0, <1>a, <2>1, <2>2 DEF Observe
  <1>4. CASE Settle(t)
    <2>1. row'.task = row.task
      BY <1>4, <1>0 DEF Settle, RowType
    <2>2. QED
      BY <1>4, <1>0, <1>a, <2>1 DEF Settle
  <1>5. CASE Free(t) \/ FreeLost(t)
    BY <1>5, <1>0, <1>a DEF Free, FreeLost
  <1>6. CASE Abort(t)
    BY <1>6, <1>0, <1>a DEF Abort
  <1>7. CASE Foreign(t)
    <2>1. /\ thr' = [thr EXCEPT ![t] = [Idle EXCEPT !.at = "fetched", !.status = "foreign"]]
          /\ thr[t].at = "fetched" /\ UNCHANGED <<store, upstream, pc, run>>
      BY <1>7 DEF Foreign
    <2>2. QED
      BY <1>7, <1>0, <1>a, <2>1
  <1>8. QED
    BY <1>1, <1>2, <1>3, <1>4, <1>5, <1>6, <1>7 DEF Applies

\* Only the holder of the live lease moves the row, by one of four steps.
LEMMA StatusStep ==
    ASSUME TypeOK, [Next]_vars, row'.status # row.status
    PROVE  \E o \in Invocation :
              /\ MayMove(o, row'.status)
              /\ \/ Queue(o) /\ row'.status = "queued"
                 \/ Start(o) /\ row'.status = "running"
                 \/ Condemn(o) /\ row'.status = run[o].verdict
                 \/ \E t \in Thread : /\ t[1] = o /\ Settle(t)
                                      /\ row'.status = Settlement(thr[t].status)
  <1> USE TypeParts DEF RowType
  <1>1. ASSUME NEW o \in Invocation, Queue(o) \/ Start(o)
        PROVE  /\ MayMove(o, row'.status)
               /\ \/ Queue(o) /\ row'.status = "queued"
                  \/ Start(o) /\ row'.status = "running"
    BY <1>1 DEF Queue, Start, Advance
  <1>2. ASSUME NEW o \in Invocation, Condemn(o)
        PROVE  MayMove(o, row'.status) /\ row'.status = run[o].verdict
    BY <1>2 DEF Condemn
  <1>3. ASSUME NEW t \in Thread, Settle(t)
        PROVE  /\ MayMove(t[1], row'.status) /\ t[1] \in Invocation
               /\ row'.status = Settlement(thr[t].status)
    BY <1>3, ThreadFacts DEF Settle
  <1>4. CASE row'.status = row.status
    BY <1>4
  <1>5. ASSUME NEW o \in Invocation, Attach(o) \/ Record(o) PROVE row'.status = row.status
    BY <1>5 DEF Attach, Record
  <1>6. ASSUME NEW t \in Thread, Observe(t) PROVE row'.status = row.status
    BY <1>6 DEF Observe
  <1>7. QED
    BY <1>1, <1>2, <1>3, <1>4, <1>5, <1>6
       DEF Next, Work, ApplyStep, store, vars, Claim, Load, Connect, Deferred, Refused, Call,
           Lost, Poll, Notify, FailClaim, Leave, Release, Renew, Cancel, Crash, Begin,
           ClaimDelivery, Free, FreeLost, Abort, Foreign, Lapse, DeliveryLapse,
           AwaitClaims, AwaitFrees, UpStep

\* A goroutine is left alone, is reset, is given the handle's stamp, takes a
\* snapshot, or takes a step inside apply.
LEMMA ThreadStep ==
    ASSUME TypeOK, [Next]_vars, NEW t \in Thread
    PROVE  \/ thr'[t] = thr[t]
           \/ /\ thr'[t].status = "none" /\ thr'[t].stamp = 0
              /\ thr'[t].at \in {"off", "idle", "condemning", "freeing"}
           \/ /\ Call(t[1]) /\ t = Poller(t[1])
              /\ thr'[t] = [thr[t] EXCEPT !.stamp = up'.stamp]
           \/ /\ thr'[t] = Snapshot /\ thr[t] = Idle
              /\ UNCHANGED <<row, lease, up, pc>>
              /\ \/ t = Poller(t[1]) /\ pc[t[1]] = "following"
                 \/ t = Watcher(t[1])
           \/ Applies(t)
  <1> USE DEF store, upstream, local
  <1> DEFINE Reset == /\ thr'[t].status = "none" /\ thr'[t].stamp = 0
                      /\ thr'[t].at \in {"off", "idle", "condemning", "freeing"}
  <1>0. thr \in [Thread -> ThreadState]
    BY TypeParts
  <1>1. ASSUME NEW o \in Invocation, Follow(o) \/ Leave(o) \/ Crash(o)
        PROVE  thr'[t] = thr[t] \/ Reset
    BY <1>0, <1>1 DEF Follow, Leave, Crash, Idle, Off
  <1>2. ASSUME NEW o \in Invocation, Connect(o) \/ Record(o)
        PROVE  thr'[t] = thr[t] \/ Reset
    BY <1>1, <1>2 DEF Connect, Record
  <1>3. ASSUME NEW o \in Invocation, FailClaim(o) \/ Condemn(o)
        PROVE  thr'[t] = thr[t] \/ Reset
    BY <1>0, <1>3 DEF FailClaim, Condemn, Idle
  <1>4. ASSUME NEW o \in Invocation, Call(o)
        PROVE  \/ thr'[t] = thr[t]
               \/ /\ Call(t[1]) /\ t = Poller(t[1])
                  /\ thr'[t] = [thr[t] EXCEPT !.stamp = up'.stamp]
    <2>1. CASE t = Poller(o)
      <3>1. t[1] = o
        BY <2>1, ThreadFacts
      <3>2. thr' = [thr EXCEPT ![t] = [thr[t] EXCEPT !.stamp = up'.stamp]]
        BY <1>4, <2>1 DEF Call
      <3>3. QED
        BY <1>0, <1>4, <2>1, <3>1, <3>2
    <2>2. CASE t # Poller(o)
      BY <1>0, <1>4, <2>2 DEF Call
    <2>3. QED
      BY <2>1, <2>2
  <1>5. ASSUME NEW o \in Invocation, Poll(o) \/ Notify(o)
        PROVE  \/ thr'[t] = thr[t]
               \/ /\ thr'[t] = Snapshot /\ thr[t] = Idle
                  /\ UNCHANGED <<row, lease, up, pc>>
                  /\ \/ t = Poller(t[1]) /\ pc[t[1]] = "following"
                     \/ t = Watcher(t[1])
    BY <1>0, <1>5, ThreadFacts DEF Poll, Notify
  <1>6. ASSUME NEW u \in Thread, Applies(u) PROVE thr'[t] = thr[t] \/ Applies(t)
    BY <1>6, AppliesFrame
  <1>7. QED
    BY <1>1, <1>2, <1>3, <1>4, <1>5, <1>6
       DEF Next, Work, ApplyStep, Applies, vars, Claim, Load, Queue, Start, Advance, Deferred,
           Refused, Lost, Attach, Renew, Cancel, Release, Lapse, DeliveryLapse, AwaitClaims,
           AwaitFrees, UpStep

-----------------------------------------------------------------------------
(* Every step keeps each part.                                             *)

LEMMA ThreadsOffStep == TypeOK /\ ThreadsOff /\ [Next]_vars => ThreadsOff'
  <1> DEFINE Early == {"idle", "claimed", "queueing", "starting", "connecting", "opening",
                       "called", "attached", "releasing"}
  <1> SUFFICES ASSUME TypeOK, ThreadsOff, [Next]_vars, NEW p \in Invocation, pc'[p] \in Early
               PROVE  thr'[Poller(p)].at = "off" /\ thr'[Watcher(p)].at = "off"
    BY DEF ThreadsOff
  <1> USE DEF Goto
  <1>0. /\ pc \in [Invocation -> Location] /\ thr \in [Thread -> ThreadState]
        /\ Poller(p) \in Thread /\ Watcher(p) \in Thread
        /\ pc[p] \in Early => thr[Poller(p)].at = "off" /\ thr[Watcher(p)].at = "off"
    BY TypeParts, ThreadFacts DEF ThreadsOff
  <1>1. ASSUME pc[p] \in Early, UNCHANGED thr
        PROVE  thr'[Poller(p)].at = "off" /\ thr'[Watcher(p)].at = "off"
    BY <1>0, <1>1
  <1>2. ASSUME NEW o \in Invocation,
               \/ Claim(o) \/ Load(o) \/ Queue(o) \/ Start(o) \/ Deferred(o) \/ Refused(o)
               \/ Lost(o) \/ Attach(o) \/ Renew(o) \/ Cancel(o) \/ Release(o)
        PROVE  thr'[Poller(p)].at = "off" /\ thr'[Watcher(p)].at = "off"
    BY <1>0, <1>1, <1>2
       DEF Claim, Load, Queue, Start, Advance, Deferred, Refused, Failing, Lost, Attach,
           Renew, Cancel, Release, local
  <1>3. ASSUME NEW o \in Invocation, Follow(o)
        PROVE  thr'[Poller(p)].at = "off" /\ thr'[Watcher(p)].at = "off"
    BY <1>0, <1>3, ThreadFacts DEF Follow, Threads
  <1>4. ASSUME NEW o \in Invocation, Connect(o) \/ Record(o)
        PROVE  thr'[Poller(p)].at = "off" /\ thr'[Watcher(p)].at = "off"
    BY <1>0, <1>1, <1>3, <1>4 DEF Connect, Record, Failing, local
  <1>5. ASSUME NEW o \in Invocation, Call(o)
        PROVE  thr'[Poller(p)].at = "off" /\ thr'[Watcher(p)].at = "off"
    <2>1. /\ thr'[Poller(p)].at = thr[Poller(p)].at
          /\ thr'[Watcher(p)].at = thr[Watcher(p)].at
      BY <1>0, <1>5, ThreadFacts DEF Call, ThreadState
    <2>2. QED
      BY <1>0, <1>5, <2>1 DEF Call
  <1>6. ASSUME NEW o \in Invocation, Poll(o) \/ Notify(o)
        PROVE  thr'[Poller(p)].at = "off" /\ thr'[Watcher(p)].at = "off"
    BY <1>0, <1>6, ThreadFacts DEF Poll, Notify
  <1>7. ASSUME NEW o \in Invocation, FailClaim(o) \/ Condemn(o)
        PROVE  thr'[Poller(p)].at = "off" /\ thr'[Watcher(p)].at = "off"
    BY <1>0, <1>7, ThreadFacts DEF FailClaim, Condemn
  <1>8. ASSUME NEW o \in Invocation, Leave(o) \/ Crash(o)
        PROVE  thr'[Poller(p)].at = "off" /\ thr'[Watcher(p)].at = "off"
    BY <1>0, <1>8, ThreadFacts DEF Leave, Crash, Threads, Off
  <1>9. ASSUME NEW t \in Thread, Applies(t)
        PROVE  thr'[Poller(p)].at = "off" /\ thr'[Watcher(p)].at = "off"
    <2>1. pc[p] \in Early
      BY <1>0, <1>9, AppliesFrame
    <2>2. t # Poller(p) /\ t # Watcher(p)
      BY <1>0, <1>9, <2>1, AppliesFrame
    <2>3. QED
      BY <1>0, <1>9, <2>1, <2>2, AppliesFrame
  <1>10. CASE UNCHANGED <<pc, thr>>
    BY <1>0, <1>10
  <1>11. QED
    BY <1>2, <1>4, <1>5, <1>6, <1>7, <1>8, <1>9, <1>10
       DEF Next, Work, ApplyStep, Applies, vars, local, Lapse, DeliveryLapse, AwaitClaims,
           AwaitFrees, UpStep

LEMMA OneInApplyStep == TypeOK /\ OneInApply /\ [Next]_vars => OneInApply'
  <1> DEFINE Two(o) == thr'[Poller(o)].at \in Locked /\ thr'[Watcher(o)].at \in Locked
  <1> SUFFICES ASSUME TypeOK, OneInApply, [Next]_vars, NEW p \in Invocation, Two(p)
               PROVE  FALSE
    BY DEF OneInApply
  <1>0. /\ thr \in [Thread -> ThreadState]
        /\ Poller(p) \in Thread /\ Watcher(p) \in Thread /\ Poller(p) # Watcher(p)
        /\ ~ (thr[Poller(p)].at \in Locked /\ thr[Watcher(p)].at \in Locked)
    BY TypeParts, ThreadFacts DEF OneInApply
  <1>1. ASSUME \A t \in {Poller(p), Watcher(p)} :
                  thr'[t].at \in Locked => thr[t].at \in Locked
        PROVE  FALSE
    BY <1>0, <1>1
  <1>2. ASSUME UNCHANGED thr PROVE FALSE
    BY <1>1, <1>2
  <1>3. ASSUME NEW o \in Invocation, Follow(o) \/ Leave(o) \/ Crash(o) PROVE FALSE
    BY <1>0, <1>1, <1>3 DEF Follow, Leave, Crash, Locked, Idle, Off
  <1>4. ASSUME NEW o \in Invocation, Connect(o) \/ Record(o) PROVE FALSE
    BY <1>2, <1>3, <1>4 DEF Connect, Record, local
  <1>5. ASSUME NEW o \in Invocation, Call(o) PROVE FALSE
    BY <1>0, <1>1, <1>5, ThreadFacts DEF Call, ThreadState
  <1>6. ASSUME NEW o \in Invocation, Poll(o) \/ Notify(o) PROVE FALSE
    BY ZenonT(40), <1>0, <1>1, <1>6, ThreadFacts DEF Poll, Notify, Snapshot, Idle, Locked
  <1>7. ASSUME NEW o \in Invocation, FailClaim(o) \/ Condemn(o) PROVE FALSE
    BY <1>0, <1>1, <1>7, ThreadFacts DEF FailClaim, Condemn, Idle, Locked
  <1>8. ASSUME NEW t \in Thread, Begin(t) PROVE FALSE
    <2>1. t \in {Poller(p), Watcher(p)} => t[1] = p
      BY ThreadFacts
    <2>2. \A u \in Thread : u # t => thr'[u] = thr[u]
      BY <1>8, AppliesFrame DEF Applies
    <2>3. QED
      BY <1>0, <1>8, <2>1, <2>2 DEF Begin, Threads
  <1>9. ASSUME NEW t \in Thread,
               Free(t) \/ FreeLost(t) \/ Abort(t) \/ Foreign(t)
        PROVE FALSE
    <2>1. thr'[t] \in {Idle, [Idle EXCEPT !.at = "freeing"],
                      [Idle EXCEPT !.at = "fetched", !.status = "foreign"]}
      BY <1>0, <1>9 DEF Free, FreeLost, Abort, Foreign
    <2>2. thr'[t].at \in {"idle", "freeing", "fetched"}
      <3>1. CASE thr'[t] = Idle
        BY <3>1 DEF Idle
      <3>2. CASE thr'[t] = [Idle EXCEPT !.at = "freeing"]
        BY <3>2 DEF Idle
      <3>3. CASE thr'[t] = [Idle EXCEPT !.at = "fetched", !.status = "foreign"]
        BY <3>3 DEF Idle
      <3>4. QED
        BY <2>1, <3>1, <3>2, <3>3
    <2>3. \A u \in Thread : u # t => thr'[u] = thr[u]
      BY <1>9, AppliesFrame DEF Applies
    <2>4. QED
      BY <1>0, <1>1, <2>2, <2>3 DEF Locked
  <1>10. ASSUME NEW t \in Thread, ClaimDelivery(t) \/ Observe(t) \/ Settle(t) PROVE FALSE
    <2>1. thr[t].at \in Locked
      BY <1>10 DEF ClaimDelivery, Observe, Settle, Locked
    <2>2. \A u \in Thread : u # t => thr'[u] = thr[u]
      BY <1>10, AppliesFrame DEF Applies
    <2>3. QED
      BY <1>0, <1>1, <2>1, <2>2
  <1>11. QED
    BY <1>2, <1>3, <1>4, <1>5, <1>6, <1>7, <1>8, <1>9, <1>10
       DEF Next, Work, ApplyStep, vars, local, Claim, Load, Queue, Start, Advance, Deferred,
           Refused, Lost, Attach, Renew, Cancel, Release, Lapse, DeliveryLapse, AwaitClaims,
           AwaitFrees, UpStep

LEMMA LoadedRowStep == TypeOK /\ ThreadsOff /\ LoadedRow /\ [Next]_vars => LoadedRow'
  <1> SUFFICES ASSUME TypeOK, ThreadsOff, LoadedRow, [Next]_vars,
                      NEW p \in Invocation, Live(lease', p)
               PROVE  /\ pc'[p] = "queueing" => row'.status = "accepted"
                      /\ pc'[p] = "starting" => row'.status = "queued"
    BY DEF LoadedRow
  <1>0. pc \in [Invocation -> Location] /\ row \in RowType
    BY TypeParts
  <1>1. CASE Claim(p)
    BY <1>0, <1>1 DEF Claim, Goto
  <1>2. CASE Live(lease, p) /\ row'.status # row.status
    <2>1. PICK o \in Invocation :
              /\ MayMove(o, row'.status)
              /\ \/ Queue(o) /\ row'.status = "queued"
                 \/ Start(o) \/ Condemn(o)
                 \/ \E t \in Thread : t[1] = o /\ Settle(t)
      BY <1>2, StatusStep
    <2>2. o = p
      BY <1>2, <2>1, OneHolder DEF MayMove
    <2>3. CASE Queue(p) /\ row'.status = "queued"
      BY <1>0, <2>3 DEF Queue, Advance, Goto
    <2>4. CASE Start(p) \/ Condemn(p)
      BY <1>0, <2>4 DEF Start, Advance, Condemn, Goto
    <2>5. ASSUME NEW t \in Thread, t[1] = p, Settle(t)
          PROVE  pc'[p] \notin {"queueing", "starting"}
      <3>1. thr[t].at = "settling"
        BY <2>5 DEF Settle
      <3>2. pc[p] \notin {"queueing", "starting"}
        BY <2>5, <3>1, ThreadFacts DEF ThreadsOff
      <3>3. QED
        BY <1>0, <2>5, <3>2 DEF Settle, Goto
    <2>6. QED
      BY <2>1, <2>2, <2>3, <2>4, <2>5
  <1>3. CASE Live(lease, p) /\ row'.status = row.status
    <2>1. ASSUME pc'[p] # pc[p], pc'[p] \in {"queueing", "starting"}
          PROVE  Load(p) \/ Queue(p)
      <3>1. ASSUME NEW o \in Invocation, o # p,
                   \/ Claim(o) \/ Work(o) \/ Renew(o) \/ Notify(o) \/ Deferred(o)
                   \/ Refused(o) \/ Lost(o) \/ Cancel(o) \/ Crash(o)
            PROVE  pc'[p] = pc[p]
        BY <1>0, <3>1
           DEF Work, Claim, Load, Queue, Start, Advance, Connect, Follow, Call, Attach, Record,
               Poll, FailClaim, Condemn, Leave, Release, Renew, Notify, Deferred, Refused,
               Failing, Lost, Cancel, Crash, Goto
      <3>2. ASSUME \/ Claim(p) \/ Start(p) \/ Connect(p) \/ Call(p) \/ Attach(p)
                   \/ Record(p) \/ Poll(p) \/ FailClaim(p) \/ Condemn(p) \/ Leave(p)
                   \/ Release(p) \/ Renew(p) \/ Notify(p) \/ Deferred(p) \/ Refused(p)
                   \/ Lost(p) \/ Cancel(p) \/ Crash(p)
            PROVE  pc'[p] = pc[p] \/ pc'[p] \notin {"queueing", "starting"}
        BY <1>0, <3>2
           DEF Claim, Start, Advance, Connect, Follow, Call, Attach, Record,
               Poll, FailClaim, Condemn, Leave, Release, Renew, Notify, Deferred, Refused,
               Failing, Lost, Cancel, Crash, Goto
      <3>3. ASSUME NEW t \in Thread, Applies(t)
            PROVE  pc'[p] = pc[p] \/ pc'[p] = "leaving"
        BY <1>0, <3>3, AppliesFrame
      <3>4. QED
        BY <2>1, <3>1, <3>2, <3>3
           DEF Next, Work, ApplyStep, Applies, vars, Lapse, DeliveryLapse, AwaitClaims,
               AwaitFrees, UpStep
    <2>2. CASE Load(p)
      BY <1>0, <2>2 DEF Load, store, Goto
    <2>3. CASE Queue(p)
      BY <1>0, <1>3, <2>3 DEF Queue, Advance, MayMove, Goto, RowType
    <2>4. QED
      BY <1>3, <2>1, <2>2, <2>3 DEF LoadedRow
  <1>4. QED
    BY <1>1, <1>2, <1>3, LiveStep

\* The one who may open the task started the row, and has not called yet.
LEMMA OpenStep ==
    ASSUME TypeOK, [Next]_vars, NEW o \in Invocation, MayOpen(o)'
    PROVE  \/ MayOpen(o) /\ ~ Call(o)
           \/ Start(o) /\ MayMove(o, "running") /\ row'.status = "running"
  <1> USE DEF Goto, MayOpen
  <1>0. /\ pc \in [Invocation -> Location] /\ run \in [Invocation -> RunType]
        /\ row \in RowType
    BY TypeParts
  <1>1. ASSUME UNCHANGED <<pc, run>> PROVE MayOpen(o) /\ ~ Call(o)
    BY <1>0, <1>1 DEF Call
  <1>2. ASSUME NEW p \in Invocation, Load(p) PROVE MayOpen(o) /\ ~ Call(o)
    <2>1. CASE p = o
      <3>1. pc'[o] = "connecting" => row.status \in {"running", "input_required"}
        BY <1>0, <1>2, <2>1 DEF Load
      <3>2. row.status \in {"running", "input_required"} => ~ run'[o].first
        BY <1>0, <1>2, <2>1 DEF Load, Fresh
      <3>3. pc'[o] # "opening"
        BY <1>0, <1>2, <2>1 DEF Load
      <3>4. QED
        BY <3>1, <3>2, <3>3
    <2>2. CASE p # o
      BY <1>0, <1>2, <2>2 DEF Load, Call
    <2>3. QED
      BY <2>1, <2>2
  <1>3. ASSUME NEW p \in Invocation, Start(p)
        PROVE  \/ MayOpen(o) /\ ~ Call(o)
               \/ Start(o) /\ MayMove(o, "running") /\ row'.status = "running"
    BY <1>0, <1>3 DEF Start, Advance, Call, local, RowType
  <1>4. ASSUME NEW p \in Invocation,
               \/ Claim(p) \/ Queue(p) \/ Deferred(p) \/ Refused(p) \/ Call(p) \/ Lost(p)
               \/ Attach(p) \/ Poll(p) \/ FailClaim(p) \/ Condemn(p) \/ Release(p)
               \/ Renew(p) \/ Cancel(p) \/ Notify(p)
        PROVE  MayOpen(o) /\ ~ Call(o)
    BY <1>0, <1>4
       DEF Claim, Queue, Advance, Deferred, Refused, Failing, Call, Lost, Attach, Poll,
           FailClaim, Condemn, Release, Renew, Cancel, Notify, local, RunType
  <1>5. ASSUME NEW p \in Invocation, Connect(p) \/ Record(p) \/ Leave(p) \/ Crash(p)
        PROVE  MayOpen(o) /\ ~ Call(o)
    BY <1>0, <1>5
       DEF Connect, Follow, Failing, Record, Leave, Crash, Call, local, RunType, Fresh
  <1>6. ASSUME NEW t \in Thread, Applies(t) PROVE MayOpen(o) /\ ~ Call(o)
    <2>1. run' = run /\ pc'[o] \in {pc[o], "leaving"} /\ calls' = calls /\ calls \in Nat
      BY <1>0, <1>6, AppliesFrame, TypeParts, ThreadFacts
    <2>2. QED
      BY <2>1 DEF Call
  <1>7. QED
    BY <1>1, <1>2, <1>3, <1>4, <1>5, <1>6
       DEF Next, Work, ApplyStep, Applies, vars, local, Lapse, DeliveryLapse, AwaitClaims,
           AwaitFrees, UpStep

\* Only Call calls.
LEMMA CallStep ==
    ASSUME TypeOK, [Next]_vars, calls' # calls
    PROVE  \E o \in Invocation : Call(o)
  BY AppliesFrame
     DEF Next, Work, ApplyStep, Applies, vars, upstream, Claim, Load, Queue, Start, Advance,
         Connect, Deferred, Refused, Lost, Attach, Record, Poll, Notify, FailClaim, Condemn,
         Leave, Release, Renew, Cancel, Crash, Lapse, DeliveryLapse, AwaitClaims, AwaitFrees,
         UpStep

LEMMA OneOpenerStep ==
    TypeOK /\ LoadedRow /\ OneOpener /\ [Next]_vars => OneOpener'
  <1> SUFFICES ASSUME TypeOK, LoadedRow, OneOpener, [Next]_vars, ~ Replayable PROVE OneOpener'
    BY DEF OneOpener
  <1>0. /\ pc \in [Invocation -> Location] /\ run \in [Invocation -> RunType]
        /\ row \in RowType /\ calls \in Nat
        /\ \A o \in Invocation : pc[o] = "opening" => run[o].first
        /\ \A o \in Invocation :
              MayOpen(o) => calls = 0 /\ row.status \notin {"accepted", "queued"}
        /\ \A o, p \in Invocation : MayOpen(o) /\ MayOpen(p) => o = p
        /\ calls <= 1
        /\ row.status \in {"accepted", "queued"} => calls = 0
    BY TypeParts DEF OneOpener
  <1>1. ASSUME NEW o \in Invocation, Start(o), MayMove(o, "running")
        PROVE  row.status = "queued" /\ calls = 0
    BY <1>0, <1>1 DEF Start, Advance, MayMove, LoadedRow
  <1>2. ASSUME NEW o \in Invocation, Call(o)
        PROVE  /\ MayOpen(o) /\ calls = 0 /\ calls' = 1 /\ UNCHANGED row
               /\ row.status \notin {"accepted", "queued"}
    BY <1>0, <1>2 DEF Call, MayOpen, store
  <1>3. ASSUME row'.status \in {"accepted", "queued"}
        PROVE  row.status \in {"accepted", "queued"}
    <2>1. CASE row'.status # row.status
      BY <1>3, <2>1, StatusStep DEF MayMove, Allowed, Terminal
    <2>2. QED
      BY <1>3, <2>1
  <1>4. \A o \in Invocation : pc'[o] = "opening" => run'[o].first
    <2> SUFFICES ASSUME NEW o \in Invocation, pc'[o] = "opening" PROVE run'[o].first
      OBVIOUS
    <2> USE DEF Goto
    <2>1. ASSUME NEW p \in Invocation,
                 \/ Claim(p) \/ Queue(p) \/ Start(p) \/ Deferred(p) \/ Refused(p) \/ Call(p)
                 \/ Lost(p) \/ Attach(p) \/ Poll(p) \/ FailClaim(p) \/ Condemn(p)
                 \/ Release(p) \/ Renew(p) \/ Cancel(p) \/ Notify(p)
          PROVE  run'[o].first
      BY <1>0, <2>1
         DEF Claim, Queue, Start, Advance, Deferred, Refused, Failing, Call, Lost, Attach,
             Poll, FailClaim, Condemn, Release, Renew, Cancel, Notify, local, RunType
    <2>2. ASSUME NEW p \in Invocation, Load(p) \/ Record(p) \/ Leave(p) \/ Crash(p)
          PROVE  run'[o].first
      BY <1>0, <2>2 DEF Load, Follow, Record, Leave, Crash, local, RunType
    <2>3. ASSUME NEW p \in Invocation, Connect(p) PROVE run'[o].first
      BY <1>0, <2>3 DEF Connect, MayCall, Follow, Failing, local, RunType
    <2>4. ASSUME NEW t \in Thread, Applies(t) PROVE run'[o].first
      <3>1. run' = run /\ pc'[o] \in {pc[o], "leaving"}
        BY <1>0, <2>4, AppliesFrame, ThreadFacts
      <3>2. QED
        BY <1>0, <3>1
    <2>5. CASE UNCHANGED <<pc, run>>
      BY <1>0, <2>5
    <2>6. QED
      BY <2>1, <2>2, <2>3, <2>4, <2>5
         DEF Next, Work, ApplyStep, Applies, vars, local, Lapse, DeliveryLapse, AwaitClaims,
             AwaitFrees, UpStep
  <1>5. ASSUME NEW o \in Invocation, MayOpen(o)'
        PROVE  calls' = 0 /\ row'.status \notin {"accepted", "queued"}
    <2>1. CASE MayOpen(o) /\ ~ Call(o)
      <3>1. \A p \in Invocation : ~ Call(p)
        BY <1>0, <1>2, <2>1
      <3>2. calls' = calls
        BY <3>1, CallStep
      <3>3. QED
        BY <1>0, <1>3, <2>1, <3>2
    <2>2. CASE Start(o) /\ MayMove(o, "running") /\ row'.status = "running"
      BY <1>1, <2>2 DEF Start, Advance, upstream
    <2>3. QED
      BY <1>5, <2>1, <2>2, OpenStep
  <1>6. ASSUME NEW o \in Invocation, NEW p \in Invocation, MayOpen(o)', MayOpen(p)'
        PROVE  o = p
    <2>1. ASSUME NEW q \in Invocation, MayOpen(q)'
          PROVE  MayOpen(q) \/ (row.status = "queued" /\ Live(lease, q))
      BY <1>1, <2>1, OpenStep DEF MayMove
    <2>2. QED
      BY <1>0, <1>6, <2>1, OneHolder
  <1>7. calls' <= 1 /\ (row'.status \in {"accepted", "queued"} => calls' = 0)
    <2>1. CASE calls' = calls
      BY <1>0, <1>3, <2>1
    <2>2. CASE calls' # calls
      BY <1>2, <2>2, CallStep
    <2>3. QED
      BY <2>1, <2>2
  <1>8. QED
    BY <1>4, <1>5, <1>6, <1>7 DEF OneOpener

\* The upstream task only moves forward, and an ended one does not move.
LEMMA UpForward ==
    ASSUME TypeOK, OneOpener, NoTaskYet, [Next]_vars
    PROVE  /\ up.stamp <= up'.stamp
           /\ up.status \in Ending => up' = up
           /\ up'.status = "none" => up' = up
           /\ up' # up => calls' > 0 \/ up.status # "none"
  <1>0. up \in UpType /\ calls \in Nat
    BY TypeParts
  <1>1. ASSUME NEW o \in Invocation, Call(o)
        PROVE  /\ \/ up' = up
                  \/ /\ up.status = "none" /\ up.stamp = 0
                     /\ up'.stamp = 1 /\ up'.status = "working"
               /\ calls' > 0
    <2>1. calls' > 0
      BY <1>0, <1>1 DEF Call
    <2>2. \/ up' = up
          \/ up' = [status |-> "working", stamp |-> 1] /\ up.status = "none"
      <3>1. CASE Replayable
        BY <1>1, <3>1 DEF Call
      <3>2. CASE ~ Replayable
        BY <1>0, <1>1, <3>2 DEF Call, NoTaskYet, OneOpener, MayOpen
      <3>3. QED
        BY <3>1, <3>2
    <2>3. CASE up' = [status |-> "working", stamp |-> 1] /\ up.status = "none"
      <3>1. up'.status = "working" /\ up'.stamp = 1
        BY <2>3
      <3>2. QED
        BY <2>1, <2>3, <3>1 DEF NoTaskYet
    <2>4. QED
      BY <2>1, <2>2, <2>3
  <1>2. ASSUME NEW status \in UpState, NEW stamp \in 0..MaxStamp, UpStep(status, stamp)
        PROVE  /\ up.stamp <= up'.stamp /\ up.status \notin Ending /\ up.status # "none"
               /\ up'.status # "none"
    <2>1. up.stamp \in Nat /\ up'.stamp \in {up.stamp, up.stamp + 1} /\ up'.status = status
      BY <1>0, <1>2 DEF UpStep, UpType
    <2>2. up.status \in {"working", "input_required"}
      BY <1>2 DEF UpStep
    <2>3. QED
      BY <2>1, <2>2, TaskAssumption DEF UpState
  <1>3. CASE up' = up
    BY <1>0, <1>3 DEF UpType
  <1>4. ASSUME NEW o \in Invocation, Call(o) PROVE up = up' \/ up.status \notin Ending
    BY <1>1, <1>4, TaskAssumption
  <1>5. CASE \E o \in Invocation : Call(o)
    BY <1>0, <1>1, <1>3, <1>4, <1>5
  <1>6. CASE \E status \in UpState, stamp \in 0..MaxStamp : UpStep(status, stamp)
    BY <1>2, <1>6
  <1>7. QED
    BY <1>3, <1>5, <1>6, AppliesFrame
     DEF Next, Work, ApplyStep, Applies, vars, upstream, Claim, Load, Queue, Start, Advance,
         Connect, Deferred, Refused, Lost, Attach, Record, Poll, Notify, FailClaim, Condemn,
         Leave, Release, Renew, Cancel, Crash, Lapse, DeliveryLapse, AwaitClaims, AwaitFrees

LEMMA NoTaskYetStep ==
    TypeOK /\ OneOpener /\ NoTaskYet /\ [Next]_vars => NoTaskYet'
  <1> SUFFICES ASSUME TypeOK, OneOpener, NoTaskYet, [Next]_vars PROVE NoTaskYet'
    OBVIOUS
  <1>1. calls \in Nat
    BY TypeParts
  <1>2. calls' = calls \/ calls' = calls + 1
    BY CallStep DEF Call
  <1>3. QED
    BY <1>1, <1>2, UpForward DEF NoTaskYet

\* Nobody forgets the task's handle.
LEMMA TaskStep ==
    ASSUME TypeOK, [Next]_vars, row.task PROVE row'.task
  <1>0. row \in RowType
    BY TypeParts
  <1>1. ASSUME NEW o \in Invocation,
               Queue(o) \/ Start(o) \/ Attach(o) \/ Record(o) \/ Condemn(o)
        PROVE  row'.task
    BY <1>0, <1>1 DEF Queue, Start, Advance, Attach, Record, Condemn, RowType
  <1>2. ASSUME NEW t \in Thread, Applies(t) PROVE row'.task
    BY <1>2, AppliesFrame
  <1>3. QED
    BY <1>1, <1>2
     DEF Next, Work, ApplyStep, Applies, vars, store, Claim, Load, Call, Poll, Notify,
         Connect, Deferred, Refused, Lost, FailClaim, UpStep,
         Leave, Release, Renew, Cancel, Crash, Lapse, DeliveryLapse, AwaitClaims, AwaitFrees

LEMMA HandleStoredStep ==
    TypeOK /\ HandleStored /\ [Next]_vars => HandleStored'
  <1> SUFFICES ASSUME TypeOK, HandleStored, [Next]_vars PROVE HandleStored'
    OBVIOUS
  <1> USE DEF Goto
  <1>0. /\ pc \in [Invocation -> Location] /\ run \in [Invocation -> RunType]
        /\ thr \in [Thread -> ThreadState] /\ row \in RowType
        /\ \A o \in Invocation :
              /\ pc[o] \in {"attached", "following"} \/ run[o].task => row.task
              /\ thr[Watcher(o)].at # "off" => row.task
        /\ \A t \in Thread : thr[t].at = "fetched" \/ thr[t].status # "none" => row.task
    BY TypeParts DEF HandleStored
  <1>1. ASSUME NEW o \in Invocation, pc'[o] \in {"attached", "following"} PROVE row'.task
    <2>1. ASSUME NEW p \in Invocation,
                 \/ Claim(p) \/ Load(p) \/ Queue(p) \/ Start(p) \/ Deferred(p) \/ Refused(p)
                 \/ Lost(p) \/ Poll(p) \/ FailClaim(p) \/ Condemn(p) \/ Leave(p)
                 \/ Call(p) \/ Release(p) \/ Renew(p) \/ Cancel(p) \/ Notify(p) \/ Crash(p)
          PROVE  pc[o] \in {"attached", "following"}
      BY <1>0, <1>1, <2>1
         DEF Claim, Load, Queue, Start, Advance, Deferred, Refused, Failing, Call, Lost, Poll,
             FailClaim, Condemn, Leave, Release, Renew, Cancel, Notify, Crash
    <2>2. ASSUME NEW p \in Invocation, Connect(p) \/ Record(p) PROVE row.task
      BY <1>0, <1>1, <2>2 DEF Connect, Record, Follow, Failing
    <2>3. ASSUME NEW p \in Invocation, Attach(p) PROVE row'.task
      BY <1>0, <2>3 DEF Attach, RowType
    <2>4. ASSUME NEW t \in Thread, Applies(t) PROVE pc[o] \in {"attached", "following"}
      BY <1>0, <1>1, <2>4, AppliesFrame, ThreadFacts
    <2>5. CASE UNCHANGED pc
      BY <1>0, <1>1, <2>5, TaskStep
    <2>6. QED
      BY <1>0, <2>1, <2>2, <2>3, <2>4, <2>5, TaskStep
         DEF Next, Work, ApplyStep, Applies, vars, Lapse, DeliveryLapse, AwaitClaims,
             AwaitFrees, UpStep
  <1>2. ASSUME NEW o \in Invocation, run'[o].task PROVE row'.task
    <2>1. ASSUME NEW p \in Invocation, Load(p) PROVE row.task
      <3>1. CASE p = o
        BY <1>0, <1>2, <2>1, <3>1 DEF Load, Fresh
      <3>2. CASE p # o
        BY <1>0, <1>2, <2>1, <3>2 DEF Load
      <3>3. QED
        BY <3>1, <3>2
    <2>2. ASSUME NEW p \in Invocation,
                 \/ Connect(p) \/ Refused(p) \/ Lost(p) \/ Record(p) \/ Leave(p) \/ Crash(p)
          PROVE  row.task
      BY <1>0, <1>2, <2>2
         DEF Connect, Refused, Lost, Record, Leave, Crash, Failing, Follow, Fresh, local, RunType
    <2>3. ASSUME UNCHANGED run PROVE row.task
      BY <1>0, <1>2, <2>3
    <2>4. QED
      BY <2>1, <2>2, <2>3, TaskStep, AppliesFrame
         DEF Next, Work, ApplyStep, Applies, vars, local, Lapse, DeliveryLapse, AwaitClaims,
             AwaitFrees, UpStep, Claim, Queue, Start, Advance, Deferred, Call, Attach, Poll,
             FailClaim, Condemn, Release, Renew, Cancel, Notify
  <1>3. ASSUME NEW o \in Invocation, thr'[Watcher(o)].at # "off" PROVE row'.task
    <2>1. Watcher(o) \in Thread /\ Watcher(o) # Poller(o)
      BY ThreadFacts
    <2>2. CASE thr[Watcher(o)].at # "off"
      BY <1>0, <2>2, TaskStep
    <2>3. CASE thr[Watcher(o)].at = "off"
      <3>1. ASSUME NEW p \in Invocation, Connect(p) \/ Record(p) PROVE row.task
        <4>1. Follow(p) => p = o
          BY <1>0, <1>3, <2>1, <2>3, ThreadFacts DEF Follow, Threads
        <4>2. QED
          BY <1>0, <1>3, <2>3, <3>1, <4>1 DEF Connect, Record, local
      <3>2. ASSUME NEW p \in Invocation,
                   \/ Leave(p) \/ Crash(p) \/ Call(p) \/ Poll(p) \/ Notify(p) \/ FailClaim(p)
                   \/ Condemn(p)
            PROVE  FALSE
        BY <1>0, <1>3, <2>1, <2>3, <3>2, ThreadFacts
           DEF Leave, Crash, Call, Poll, Notify, FailClaim, Condemn, Off, Idle
      <3>3. ASSUME NEW t \in Thread, Applies(t) PROVE FALSE
        BY <1>3, <2>1, <2>3, <3>3, AppliesFrame
      <3>4. CASE UNCHANGED thr
        BY <1>3, <2>3, <3>4
      <3>5. QED
        BY <3>1, <3>2, <3>3, <3>4, TaskStep
           DEF Next, Work, ApplyStep, Applies, vars, local, Lapse, DeliveryLapse, AwaitClaims,
               AwaitFrees, UpStep, Claim, Load, Queue, Start, Advance, Deferred, Attach,
               Refused, Lost, Release, Renew, Cancel
    <2>4. QED
      BY <2>2, <2>3
  <1>4. ASSUME NEW t \in Thread, thr'[t].at = "fetched" \/ thr'[t].status # "none"
        PROVE  row'.task
    <2>1. CASE thr'[t] = thr[t]
      BY <1>0, <1>4, <2>1, TaskStep
    <2>2. CASE thr'[t] = [thr[t] EXCEPT !.stamp = up'.stamp]
      BY <1>0, <1>4, <2>2, TaskStep DEF ThreadState
    <2>3. CASE /\ thr[t] = Idle
               /\ \/ t = Poller(t[1]) /\ pc[t[1]] = "following"
                  \/ t = Watcher(t[1])
      BY <1>0, <2>3, ThreadFacts, TaskStep DEF Idle
    <2>4. CASE Applies(t)
      BY <1>0, <1>4, <2>4, AppliesFrame
    <2>5. QED
      BY <1>4, <2>1, <2>2, <2>3, <2>4, ThreadStep
  <1>5. QED
    BY <1>1, <1>2, <1>3, <1>4 DEF HandleStored

LEMMA EndingIsFinalStep ==
    TypeOK /\ OneOpener /\ NoTaskYet /\ EndingIsFinal /\ [Next]_vars => EndingIsFinal'
  <1> SUFFICES ASSUME TypeOK, OneOpener, NoTaskYet, EndingIsFinal, [Next]_vars,
                      NEW t \in Thread, thr'[t].status \in Ending
               PROVE  up'.status = thr'[t].status
    BY DEF EndingIsFinal
  <1>0. thr \in [Thread -> ThreadState] /\ up \in UpType
    BY TypeParts
  <1>1. ASSUME thr'[t].status = thr[t].status PROVE up'.status = thr'[t].status
    BY <1>1, UpForward DEF EndingIsFinal
  <1>2. {"none", "foreign", "working", "running"} \cap Ending = {}
    BY TaskAssumption
  <1>3. CASE thr'[t] = [thr[t] EXCEPT !.stamp = up'.stamp]
    BY <1>0, <1>1, <1>3 DEF ThreadState
  <1>4. CASE thr'[t] = Snapshot /\ up' = up
    <2>1. thr'[t].status = Normalize(up.status)
      BY <1>4 DEF Snapshot, Idle
    <2>2. QED
      BY <1>2, <1>4, <2>1 DEF Normalize
  <1>5. CASE Applies(t)
    BY <1>1, <1>2, <1>5, AppliesFrame
  <1>6. QED
    BY <1>1, <1>2, <1>3, <1>4, <1>5, ThreadStep

-----------------------------------------------------------------------------
(* What follows without faults.                                            *)

\* Faults are only counted up.
LEMMA FaultsStep ==
    ASSUME TypeOK, [Next]_vars
    PROVE  /\ faults \in Nat /\ faults' \in Nat /\ faults <= faults'
           /\ Fault => faults' > 0
  <1>0. faults \in Nat
    BY TypeParts, TaskAssumption
  <1>1. faults' = faults \/ Fault
    BY DEF Next, Work, ApplyStep, vars, Claim, Load, Queue, Start, Advance, Connect, Deferred,
           Refused, Call, Lost, Attach, Record, Poll, Notify, FailClaim, Condemn, Leave,
           Release, Renew, Cancel, Crash, Begin, ClaimDelivery, Observe, Settle, Free, FreeLost,
           Abort, Foreign, Lapse, DeliveryLapse, AwaitClaims, AwaitFrees, UpStep
  <1>2. QED
    BY <1>0, <1>1 DEF Fault

\* An invocation moves by a step of its own, or because a goroutine of its
\* could not write.
LEMMA MoveStep ==
    ASSUME TypeOK, [Next]_vars, NEW o \in Invocation
    PROVE  \/ pc'[o] = pc[o] /\ run'[o] = run[o]
           \/ Claim(o) \/ Work(o) \/ Renew(o)
           \/ Fault /\ (Deferred(o) \/ Refused(o) \/ Lost(o) \/ Cancel(o) \/ Crash(o))
           \/ /\ pc'[o] = "leaving" /\ run'[o] = run[o]
              /\ \E t \in Thread : t[1] = o /\ thr[t].at # "off"
  <1>0. pc \in [Invocation -> Location] /\ run \in [Invocation -> RunType]
    BY TypeParts
  <1>1. ASSUME NEW p \in Invocation, p # o,
               \/ Claim(p) \/ Work(p) \/ Renew(p) \/ Deferred(p) \/ Refused(p)
               \/ Lost(p) \/ Cancel(p) \/ Crash(p)
        PROVE  pc'[o] = pc[o] /\ run'[o] = run[o]
    BY <1>0, <1>1
       DEF Work, Claim, Load, Queue, Start, Advance, Connect, Follow, Call, Attach, Record,
           Poll, FailClaim, Condemn, Leave, Release, Renew, Deferred, Refused, Failing, Lost,
           Cancel, Crash, Goto, local
  <1>2. ASSUME Deferred(o) \/ Refused(o) \/ Lost(o) \/ Cancel(o) \/ Crash(o)
        PROVE  Fault
    BY <1>2 DEF Deferred, Refused, Lost, Cancel, Crash
  <1>3. ASSUME NEW t \in Thread, Applies(t)
        PROVE  \/ pc'[o] = pc[o] /\ run'[o] = run[o]
               \/ /\ pc'[o] = "leaving" /\ run'[o] = run[o]
                  /\ \E u \in Thread : u[1] = o /\ thr[u].at # "off"
    <2>1. /\ run' = run /\ thr[t].at # "off" /\ t[1] \in Invocation
          /\ pc' = pc \/ pc' = [pc EXCEPT ![t[1]] = "leaving"]
      BY <1>3, AppliesFrame, ThreadFacts
    <2>2. QED
      BY <1>0, <2>1
  <1>4. CASE UNCHANGED <<pc, run>>
    BY <1>4
  <1>5. QED
    BY <1>1, <1>2, <1>3, <1>4
       DEF Next, ApplyStep, Applies, vars, local, Notify, Lapse, DeliveryLapse, AwaitClaims,
           AwaitFrees, UpStep

\* Without faults a lease is lost only by its release.
LEMMA KeptStep ==
    ASSUME TypeOK, [Next]_vars, faults' = 0, faults = 0,
           NEW o \in Invocation, pc[o] # "idle",
           \A p \in Invocation : pc[p] # "idle" => Live(lease, p)
    PROVE  Live(lease', o) \/ Release(o)
  <1> USE DEF Live
  <1>0. lease \in LeaseRow(Invocation) /\ lease.owner = o /\ lease.left > 0
    BY TypeParts
  <1>1. ASSUME NEW p \in Invocation, Claim(p) PROVE FALSE
    BY <1>0, <1>1, TaskAssumption DEF Claim, Claimable
  <1>2. ASSUME NEW p \in Invocation, Renew(p) PROVE Live(lease', o)
    BY <1>0, <1>2, TTLAssumption DEF Renew, RenewLease, LeaseRow
  <1>3. ASSUME NEW p \in Invocation, Release(p) PROVE Release(o)
    BY <1>0, <1>3 DEF Release
  <1>4. CASE Lapse
    <2>1. lease.left # 1
      BY <1>0, <1>4 DEF Lapse, Fault
    <2>2. QED
      BY <1>0, <1>4, <2>1 DEF Lapse, Elapse, LeaseRow
  <1>5. CASE UNCHANGED lease
    BY <1>0, <1>5
  <1>6. QED
    BY <1>1, <1>2, <1>3, <1>4, <1>5
       DEF Next, Work, ApplyStep, store, vars, Load, Queue, Start, Advance, Connect, Deferred,
           Refused, Call, Lost, Attach, Record, Poll, Notify, FailClaim, Condemn, Leave,
           Cancel, Crash, Begin, ClaimDelivery, Observe, Settle, Free, FreeLost, Abort,
           Foreign, DeliveryLapse, AwaitClaims, AwaitFrees, UpStep

LEMMA UndisturbedStep == IInv /\ [Next]_vars => Undisturbed'
  <1> SUFFICES ASSUME IInv, [Next]_vars, faults' = 0
               PROVE  /\ \A o \in Invocation : pc'[o] # "idle" => Live(lease', o)
                      /\ \A o \in Invocation :
                            /\ pc'[o] \in {"queueing", "starting"} => run'[o].first
                            /\ pc'[o] = "connecting" => run'[o].task \/ run'[o].first
                      /\ row'.status \in {"running", "input_required"} /\ ~ row'.task =>
                            \E o \in Invocation :
                               pc'[o] \in {"connecting", "opening", "called"}
    BY DEF Undisturbed
  <1> USE DEF Goto
  <1>0. /\ TypeOK /\ HandleStored /\ ThreadsOff /\ FaultsTold /\ row \in RowType
        /\ pc \in [Invocation -> Location] /\ run \in [Invocation -> RunType]
    BY TypeParts DEF IInv
  <1>1. faults = 0 /\ ~ Fault
    BY <1>0, FaultsStep
  <1>2. /\ \A o \in Invocation : pc[o] # "idle" => Live(lease, o)
        /\ \A o \in Invocation :
              /\ pc[o] \in {"queueing", "starting"} => run[o].first
              /\ pc[o] = "connecting" => run[o].task \/ run[o].first
        /\ row.status \in {"running", "input_required"} /\ ~ row.task =>
              \E o \in Invocation : pc[o] \in {"connecting", "opening", "called"}
    BY <1>1 DEF IInv, Undisturbed
  <1>3. ASSUME NEW o \in Invocation, Renew(o) PROVE pc' = pc
    BY <1>2, <1>3 DEF Renew, Renewable, Active, Live
  <1>4. ASSUME NEW o \in Invocation, pc'[o] # "idle" PROVE Live(lease', o)
    <2>1. CASE pc[o] # "idle"
      BY <1>0, <1>1, <1>2, <1>4, <2>1, KeptStep DEF Release
    <2>2. CASE pc[o] = "idle" /\ Claim(o)
      BY <2>2, TTLAssumption DEF Claim, ClaimLease, Live
    <2>3. ASSUME pc[o] = "idle" PROVE Claim(o)
      <3>1. ~ Renew(o) /\ ~ Work(o)
        BY <2>3
           DEF Work, Load, Queue, Start, Advance, Connect, Call, Attach, Record, Poll, FailClaim,
               Condemn, Leave, Release, Renew, Active
      <3>2. \A t \in Thread : t[1] = o => thr[t].at = "off"
        BY <1>0, <2>3, ThreadFacts DEF ThreadsOff
      <3>3. QED
        BY <1>0, <1>1, <1>4, <2>3, <3>1, <3>2, MoveStep
    <2>4. QED
      BY <2>1, <2>2, <2>3
  <1>5. ASSUME NEW o \in Invocation, pc'[o] \in {"queueing", "starting", "connecting"}
        PROVE  run'[o].first \/ (pc'[o] = "connecting" /\ run'[o].task)
    <2>1. CASE pc'[o] = pc[o] /\ run'[o] = run[o]
      BY <1>2, <1>5, <2>1
    <2>2. CASE Load(o)
      <3>1. /\ pc[o] = "claimed" /\ run'[o].task = row.task
            /\ run'[o].first = (row.status \in {"accepted", "queued"})
        BY <1>0, <2>2 DEF Load, Fresh
      <3>2. row.status \in {"accepted", "queued", "running", "input_required"}
        BY <1>0, <1>5, <2>2 DEF Load
      <3>3. CASE row.status \in {"accepted", "queued"}
        BY <3>1, <3>3
      <3>4. CASE row.status \in {"running", "input_required"}
        <4>1. ASSUME ~ row.task PROVE FALSE
          BY <1>2, <3>1, <3>4, <4>1, OneHolder
        <4>2. pc'[o] = "connecting"
          BY <1>0, <2>2, <3>4 DEF Load
        <4>3. QED
          BY <3>1, <4>1, <4>2
      <3>5. QED
        BY <3>2, <3>3, <3>4
    <2>3. CASE Queue(o) \/ Start(o)
      BY <1>0, <1>2, <1>5, <2>3 DEF Queue, Start, Advance, local
    <2>4. CASE Claim(o) \/ Connect(o) \/ Call(o) \/ Attach(o) \/ Record(o) \/ Poll(o)
               \/ FailClaim(o) \/ Condemn(o) \/ Leave(o) \/ Release(o)
      BY <1>0, <1>2, <1>5, <2>4
         DEF Claim, Connect, Call, Attach, Record, Follow, Failing, Poll, FailClaim, Condemn,
             Leave, Release, local
    <2>5. CASE Renew(o)
      BY <1>2, <1>3, <1>5, <2>5 DEF Renew, local
    <2>6. QED
      BY <1>0, <1>1, <1>5, <2>1, <2>2, <2>3, <2>4, <2>5, MoveStep DEF Work
  <1>6. ASSUME row'.status \in {"running", "input_required"}, ~ row'.task
        PROVE  \E o \in Invocation : pc'[o] \in {"connecting", "opening", "called"}
    <2>0. ~ row.task
      BY <1>0, <1>6, TaskStep
    <2>1. CASE row'.status = row.status
      <3>1. PICK o \in Invocation : pc[o] \in {"connecting", "opening", "called"}
        BY <1>2, <1>6, <2>0, <2>1
      <3>2. CASE pc'[o] = pc[o]
        BY <3>1, <3>2
      <3>3. CASE Connect(o)
        <4>1. ~ run[o].task
          BY <1>0, <2>0 DEF HandleStored
        <4>2. MayCall(o)
          BY <1>2, <3>3, <4>1 DEF Connect, MayCall
        <4>3. QED
          BY <1>0, <3>3, <4>1, <4>2 DEF Connect
      <3>4. CASE Call(o)
        BY <1>0, <3>4 DEF Call
      <3>5. CASE Attach(o)
        BY <1>0, <1>6, <3>5 DEF Attach, RowType
      <3>6. CASE Renew(o)
        BY <1>3, <3>1, <3>6
      <3>7. \A t \in Thread : t[1] = o => thr[t].at = "off"
        BY <1>0, <3>1, ThreadFacts DEF ThreadsOff
      <3>8. QED
        BY <1>0, <1>1, <3>1, <3>2, <3>3, <3>4, <3>5, <3>6, <3>7, MoveStep
           DEF Work, Claim, Load, Queue, Start, Advance, Record, Poll, FailClaim, Condemn, Leave,
               Release
    <2>2. CASE row'.status # row.status
      <3>1. PICK o \in Invocation :
                /\ MayMove(o, row'.status)
                /\ \/ Queue(o) /\ row'.status = "queued"
                   \/ Start(o) /\ row'.status = "running"
                   \/ Condemn(o) /\ row'.status = run[o].verdict
                   \/ \E t \in Thread : /\ t[1] = o /\ Settle(t)
                                        /\ row'.status = Settlement(thr[t].status)
        BY <1>0, <2>2, StatusStep
      <3>2. run[o].verdict \in {"none", "failed", "outcome_unknown"}
        BY <1>0 DEF RunType
      <3>3. CASE Start(o) /\ row'.status = "running"
        BY <1>0, <3>1, <3>3 DEF Start, Advance
      <3>4. ASSUME NEW t \in Thread, row'.status = Settlement(thr[t].status) PROVE FALSE
        <4>1. thr[t].status # "none"
          BY <1>6, <3>4 DEF Settlement
        <4>2. QED
          BY <1>0, <2>0, <4>1 DEF HandleStored
      <3>5. QED
        BY <1>6, <3>1, <3>2, <3>3, <3>4
    <2>3. QED
      BY <2>1, <2>2
  <1>7. QED
    BY <1>4, <1>5, <1>6

LEMMA FaultsToldStep == IInv /\ [Next]_vars => FaultsTold'
  <1> SUFFICES ASSUME IInv, [Next]_vars PROVE FaultsTold'
    OBVIOUS
  <1>0. /\ TypeOK /\ FaultsTold /\ up \in UpType
        /\ run \in [Invocation -> RunType] /\ thr \in [Thread -> ThreadState]
        /\ faults \in Nat /\ faults' \in Nat /\ faults <= faults'
        /\ Fault => faults' > 0
    BY TypeParts, FaultsStep DEF IInv
  <1>1. ASSUME NEW o \in Invocation, run'[o].verdict # "none" PROVE faults' > 0
    <2>1. CASE run'[o] = run[o]
      BY <1>0, <1>1, <2>1 DEF FaultsTold
    <2>2. CASE Connect(o)
      <3>1. CASE Follow(o)
        BY <1>0, <1>1, <3>1 DEF Follow, Fresh
      <3>2. CASE UNCHANGED local
        BY <1>0, <1>1, <3>2 DEF local, FaultsTold
      <3>3. CASE pc[o] = "connecting" /\ ~ run[o].task /\ ~ MayCall(o)
        BY <1>0, <3>3 DEF IInv, Undisturbed, MayCall
      <3>4. QED
        BY <2>2, <3>1, <3>2, <3>3 DEF Connect
    <2>3. CASE Record(o)
      <3>1. CASE Follow(o)
        BY <1>0, <1>1, <3>1 DEF Follow, Fresh
      <3>2. CASE UNCHANGED local
        BY <2>1, <3>2 DEF local
      <3>3. QED
        BY <2>3, <3>1, <3>2 DEF Record
    <2>4. CASE Load(o)
      <3>1. run'[o] = [Fresh EXCEPT !.first = row.status \in {"accepted", "queued"},
                                    !.task = row.task]
        BY <1>0, <2>4, Zenon DEF Load
      <3>2. run'[o].verdict = "none"
        BY <3>1 DEF Fresh
      <3>3. QED
        BY <1>1, <3>2
    <2>5. CASE Leave(o)
      BY <1>0, <1>1, <2>5 DEF Leave, Fresh
    <2>6. CASE \/ Claim(o) \/ Queue(o) \/ Start(o) \/ Call(o) \/ Attach(o) \/ Poll(o)
               \/ FailClaim(o) \/ Condemn(o) \/ Release(o) \/ Renew(o)
      BY <2>1, <2>6
         DEF Claim, Queue, Start, Advance, Call, Attach, Poll, FailClaim, Condemn, Release,
             Renew, local
    <2>7. QED
      BY <1>0, <2>1, <2>2, <2>3, <2>4, <2>5, <2>6, MoveStep DEF Work
  <1>2. ASSUME NEW t \in Thread, thr'[t].status = "foreign" PROVE faults' > 0
    <2>1. CASE thr'[t].status = thr[t].status
      BY <1>0, <1>2, <2>1 DEF FaultsTold
    <2>2. CASE thr'[t] = [thr[t] EXCEPT !.stamp = up'.stamp]
      BY <1>0, <2>1, <2>2 DEF ThreadState
    <2>3. CASE thr'[t] = Snapshot
      <3>1. thr'[t].status = Normalize(up.status)
        BY <2>3 DEF Snapshot, Idle
      <3>2. QED
        BY <1>0, <1>2, <3>1, TaskAssumption DEF Normalize, UpType, UpState
    <2>4. CASE Applies(t)
      BY <1>0, <1>2, <2>1, <2>4, AppliesFrame DEF Foreign
    <2>5. QED
      BY <1>0, <1>2, <2>1, <2>2, <2>3, <2>4, ThreadStep
  <1>3. QED
    BY <1>1, <1>2 DEF FaultsTold

LEMMA TruthfulOutcomeStep ==
    IInv /\ [Next]_vars => TruthfulOutcome'
  <1> SUFFICES ASSUME IInv, [Next]_vars PROVE TruthfulOutcome'
    OBVIOUS
  <1>0. /\ TypeOK /\ OneOpener /\ NoTaskYet /\ HandleStored /\ EndingIsFinal
        /\ FaultsTold /\ TruthfulOutcome
        /\ up \in UpType /\ row \in RowType /\ thr \in [Thread -> ThreadState]
        /\ run \in [Invocation -> RunType]
        /\ faults \in Nat /\ faults' \in Nat /\ faults <= faults'
    BY TypeParts, FaultsStep DEF IInv
  <1>1. CASE row'.status = row.status
    <2>1. up.status \in {"completed", "cancelled", "expired", "failed", "oversized"}
          => up.status \in Ending
      BY <1>0 DEF UpType, UpState
    <2>2. up.status \in {"completed", "cancelled", "expired", "failed", "oversized"}
          => up' = up
      BY <1>0, <2>1, UpForward
    <2>3. faults > 0 => faults' > 0
      BY <1>0
    <2>4. QED
      BY <1>0, <1>1, <2>2, <2>3, TaskStep DEF TruthfulOutcome
  <1>2. CASE row'.status # row.status
    <2>1. PICK o \in Invocation :
              /\ MayMove(o, row'.status)
              /\ \/ Queue(o) /\ row'.status = "queued"
                 \/ Start(o) /\ row'.status = "running"
                 \/ Condemn(o) /\ row'.status = run[o].verdict
                 \/ \E t \in Thread : /\ t[1] = o /\ Settle(t)
                                      /\ row'.status = Settlement(thr[t].status)
      BY <1>0, <1>2, StatusStep
    <2>2. CASE row'.status \in {"queued", "running"}
      BY <2>2 DEF TruthfulOutcome
    <2>3. CASE Condemn(o) /\ row'.status = run[o].verdict
      <3>1. run[o].verdict \in {"none", "failed", "outcome_unknown"}
        BY <1>0 DEF RunType
      <3>2. run[o].verdict # "none" => faults' > 0
        BY <1>0 DEF FaultsTold
      <3>3. QED
        BY <2>3, <3>1, <3>2 DEF TruthfulOutcome
    <2>4. ASSUME NEW t \in Thread, Settle(t), row'.status = Settlement(thr[t].status)
          PROVE  TruthfulOutcome'
      <3>1. thr[t].status \in SnapState
        BY <1>0 DEF ThreadState
      <3>2. up' = up /\ row'.task = row.task
        BY <1>0, <2>4, AppliesFrame DEF Applies
      <3>3. row'.status # "outcome_unknown"
        BY <2>4, <3>1, TaskAssumption DEF Settlement, SnapState
      <3>4. ASSUME row'.status \in {"completed", "cancelled", "expired"}
            PROVE  up.status = row'.status /\ row.task
        <4>1. thr[t].status = row'.status
          BY <2>4, <3>4 DEF Settlement
        <4>2. thr[t].status \in Ending /\ thr[t].status # "none"
          BY <3>1, <3>4, <4>1 DEF SnapState
        <4>3. QED
          BY <1>0, <4>1, <4>2 DEF EndingIsFinal, HandleStored
      <3>5. ASSUME row'.status = "failed"
            PROVE  up.status \in {"failed", "oversized"} \/ faults' > 0
        <4>1. thr[t].status \in {"foreign", "oversized", "failed"}
          BY <2>4, <3>5 DEF Settlement
        <4>2. CASE thr[t].status = "foreign"
          BY <1>0, <4>2 DEF FaultsTold
        <4>3. CASE thr[t].status \in {"oversized", "failed"}
          BY <1>0, <3>1, <4>3 DEF SnapState, EndingIsFinal
        <4>4. QED
          BY <4>1, <4>2, <4>3
      <3>6. QED
        BY <3>2, <3>3, <3>4, <3>5 DEF TruthfulOutcome
    <2>5. QED
      BY <2>1, <2>2, <2>3, <2>4
  <1>3. QED
    BY <1>1, <1>2

-----------------------------------------------------------------------------
(* Snapshots in the order of their stamps.                                 *)

\* The stamp of the row is written by two steps, of the live holder.
LEMMA StampStep ==
    ASSUME TypeOK, [Next]_vars, row'.stamp # row.stamp
    PROVE  \/ \E o \in Invocation : /\ Record(o) /\ MayObserve(o) /\ Follow(o)
                                    /\ row'.stamp = thr[Poller(o)].stamp
           \/ \E t \in Thread : /\ Observe(t) /\ MayObserve(t[1])
                                /\ row'.stamp = thr[t].stamp
  <1>0. row \in RowType
    BY TypeParts
  <1>1. ASSUME NEW o \in Invocation, Queue(o) \/ Start(o) \/ Attach(o) \/ Condemn(o)
        PROVE  FALSE
    BY <1>0, <1>1 DEF Queue, Start, Advance, Attach, Condemn, RowType
  <1>2. ASSUME NEW o \in Invocation, Record(o)
        PROVE  MayObserve(o) /\ Follow(o) /\ row'.stamp = thr[Poller(o)].stamp
    BY <1>0, <1>2 DEF Record, RowType
  <1>3. ASSUME NEW t \in Thread, Observe(t)
        PROVE  MayObserve(t[1]) /\ row'.stamp = thr[t].stamp
    BY <1>0, <1>3 DEF Observe, RowType
  <1>4. ASSUME NEW t \in Thread, Settle(t) PROVE FALSE
    BY <1>0, <1>4 DEF Settle, RowType
  <1>5. QED
    BY <1>1, <1>2, <1>3, <1>4
     DEF Next, Work, ApplyStep, vars, store, Claim, Load, Call, Poll, Notify,
         Connect, Deferred, Refused, Lost, FailClaim, UpStep, Begin, ClaimDelivery, Free,
         FreeLost, Abort, Foreign,
         Leave, Release, Renew, Cancel, Crash, Lapse, DeliveryLapse, AwaitClaims, AwaitFrees

LEMMA StampsBehindStep ==
    TypeOK /\ OneOpener /\ NoTaskYet /\ StampsBehind /\ [Next]_vars => StampsBehind'
  <1> SUFFICES ASSUME TypeOK, OneOpener, NoTaskYet, StampsBehind, [Next]_vars
               PROVE  StampsBehind'
    OBVIOUS
  <1>0. /\ thr \in [Thread -> ThreadState] /\ up \in UpType /\ row \in RowType
        /\ up' \in UpType /\ TypeOK'
    BY TypeParts, TypeOKStep DEF TypeOK, UpType
  <1>1. /\ row.stamp \in Nat /\ up.stamp \in Nat /\ up'.stamp \in Nat
        /\ \A t \in Thread : thr[t].stamp \in Nat
        /\ up.stamp <= up'.stamp /\ row.stamp <= up.stamp
        /\ \A t \in Thread : thr[t].stamp <= up.stamp
    BY <1>0, UpForward DEF RowType, UpType, ThreadState, StampsBehind
  <1>2. row'.stamp <= up'.stamp
    <2>1. row'.stamp = row.stamp \/ \E t \in Thread : row'.stamp = thr[t].stamp
      BY <1>0, StampStep, ThreadFacts
    <2>2. QED
      BY <1>1, <2>1
  <1>3. ASSUME NEW t \in Thread PROVE thr'[t].stamp <= up'.stamp
    <2>1. CASE thr'[t].stamp = thr[t].stamp
      BY <1>1, <2>1
    <2>2. CASE thr'[t].stamp = 0
      BY <1>1, <2>2
    <2>3. CASE thr'[t] = [thr[t] EXCEPT !.stamp = up'.stamp]
      <3>1. thr'[t].stamp = up'.stamp
        BY <1>0, <2>3 DEF ThreadState
      <3>2. QED
        BY <1>1, <3>1
    <2>4. CASE thr'[t] = Snapshot /\ up' = up
      <3>1. thr'[t].stamp = up'.stamp
        BY <2>4 DEF Snapshot, Idle
      <3>2. QED
        BY <1>1, <3>1
    <2>5. CASE Applies(t)
      BY <2>1, <2>2, <2>5, AppliesFrame
    <2>6. QED
      BY <2>1, <2>2, <2>3, <2>4, <2>5, ThreadStep
  <1>4. QED
    BY <1>2, <1>3 DEF StampsBehind

\* A snapshot is checked in Begin, and stays so until it is observed.
LEMMA CheckedStep ==
    ASSUME TypeOK, ThreadsOff, [Next]_vars, NEW t \in Thread, Checked(t)'
    PROVE  \/ Checked(t) /\ thr'[t].stamp = thr[t].stamp
           \/ Begin(t) /\ NewerObservation(thr[t].stamp) /\ thr'[t].stamp = thr[t].stamp
  <1> USE DEF Checked
  <1>0. thr \in [Thread -> ThreadState]
    BY TypeParts
  <1>1. CASE thr'[t] = thr[t]
    BY <1>1
  <1>2. CASE thr'[t].at \in {"off", "idle", "condemning", "freeing"}
    BY <1>2
  <1>3. CASE Call(t[1]) /\ t = Poller(t[1]) /\ thr'[t] = [thr[t] EXCEPT !.stamp = up'.stamp]
    <2>1. thr[t].at = "off"
      BY <1>3, ThreadFacts DEF ThreadsOff, Call
    <2>2. QED
      BY <1>0, <1>3, <2>1 DEF ThreadState
  <1>4. CASE thr'[t] = Snapshot
    BY <1>4 DEF Snapshot, Idle
  <1>5. CASE Begin(t)
    <2>1. CASE thr' = [thr EXCEPT ![t] = Idle] \/ thr' = [thr EXCEPT ![t] = Off]
      BY <1>0, <2>1 DEF Idle, Off
    <2>2. CASE /\ thr' = [thr EXCEPT ![t] =
                             [thr[t] EXCEPT !.at = "claiming", !.seen = row.status]]
               /\ thr[t].status = "foreign" \/ NewerObservation(thr[t].stamp)
      <3>1. thr'[t].stamp = thr[t].stamp /\ thr'[t].status = thr[t].status
            /\ thr'[t].at = "claiming"
        BY <1>0, <2>2 DEF ThreadState
      <3>2. QED
        BY <1>5, <2>2, <3>1
    <2>3. QED
      BY <1>5, <2>1, <2>2 DEF Begin
  <1>6. CASE ClaimDelivery(t)
    <2>1. CASE thr' = [thr EXCEPT ![t] = Idle] \/ thr' = [thr EXCEPT ![t] = Deciding(thr[t])]
      <3>1. thr'[t].at \in {"idle", "settling"}
        <4>1. CASE thr' = [thr EXCEPT ![t] = Idle]
          BY <1>0, <4>1 DEF Idle
        <4>2. CASE thr' = [thr EXCEPT ![t] = Deciding(thr[t])]
          BY <1>0, <4>2 DEF Deciding, ThreadState
        <4>3. QED
          BY <2>1, <4>1, <4>2
      <3>2. QED
        BY <3>1
    <2>2. CASE /\ thr' = [thr EXCEPT ![t] = [thr[t] EXCEPT !.at = "observing"]]
               /\ thr[t].status # "foreign"
      BY <1>0, <1>6, <2>2 DEF ThreadState, ClaimDelivery
    <2>3. QED
      BY <1>6, <2>1, <2>2 DEF ClaimDelivery
  <1>7. CASE Observe(t) \/ Settle(t)
    <2>1. thr'[t] = Ended \/ thr'[t] = Deciding(thr[t])
      BY <1>0, <1>7 DEF Observe, Settle
    <2>2. QED
      BY <1>0, <2>1 DEF Ended, Idle, Deciding, ThreadState
  <1>8. CASE Free(t) \/ FreeLost(t) \/ Abort(t)
    BY <1>0, <1>8 DEF Free, FreeLost, Abort, Idle
  <1>9. CASE Foreign(t)
    BY <1>0, <1>9 DEF Foreign, Idle
  <1>10. QED
    BY <1>1, <1>2, <1>3, <1>4, <1>5, <1>6, <1>7, <1>8, <1>9, ThreadStep DEF Applies

\* An invocation that has called and not yet followed was there before, with
\* the stamp of the handle it got, or calls just now.
LEMMA CalledStep ==
    ASSUME TypeOK, ThreadsOff, [Next]_vars, NEW o \in Invocation,
           pc'[o] \in {"called", "attached"}
    PROVE  \/ pc[o] \in {"called", "attached"} /\ thr'[Poller(o)] = thr[Poller(o)]
           \/ Call(o) /\ thr'[Poller(o)].stamp = up'.stamp /\ UNCHANGED row
  <1> USE DEF Goto
  <1>0. /\ pc \in [Invocation -> Location] /\ thr \in [Thread -> ThreadState]
        /\ Poller(o) \in Thread /\ Poller(o)[1] = o
    BY TypeParts, ThreadFacts
  <1>1. ASSUME NEW p \in Invocation, Call(p)
        PROVE  \/ pc[o] \in {"called", "attached"} /\ thr'[Poller(o)] = thr[Poller(o)]
               \/ Call(o) /\ thr'[Poller(o)].stamp = up'.stamp /\ UNCHANGED row
    <2>1. CASE p = o
      BY <1>0, <1>1, <2>1 DEF Call, store, ThreadState
    <2>2. CASE p # o
      BY <1>0, <1>1, <2>2, ThreadFacts DEF Call
    <2>3. QED
      BY <2>1, <2>2
  <1>2. ASSUME NEW t \in Thread, Applies(t)
        PROVE  pc[o] \in {"called", "attached"} /\ thr'[Poller(o)] = thr[Poller(o)]
    <2>1. pc[o] \in {"called", "attached"}
      BY <1>0, <1>2, AppliesFrame, ThreadFacts
    <2>2. thr[Poller(o)].at = "off"
      BY <2>1 DEF ThreadsOff
    <2>3. QED
      BY <1>0, <1>2, <2>1, <2>2, AppliesFrame
  <1>3. ASSUME NEW p \in Invocation,
               \/ Claim(p) \/ Load(p) \/ Queue(p) \/ Start(p) \/ Deferred(p) \/ Refused(p)
               \/ Lost(p) \/ Attach(p) \/ Release(p) \/ Renew(p) \/ Cancel(p)
        PROVE  pc[o] \in {"called", "attached"} /\ thr'[Poller(o)] = thr[Poller(o)]
    BY <1>0, <1>3
       DEF Claim, Load, Queue, Start, Advance, Deferred, Refused, Failing, Lost, Attach,
           Release, Renew, Cancel, local
  <1>4. ASSUME NEW p \in Invocation,
               \/ Connect(p) \/ Record(p) \/ Leave(p) \/ Crash(p) \/ Poll(p) \/ Notify(p)
               \/ FailClaim(p) \/ Condemn(p)
        PROVE  pc[o] \in {"called", "attached"} /\ thr'[Poller(o)] = thr[Poller(o)]
    <2>1. p # o
      BY <1>0, <1>4
         DEF Connect, Record, Follow, Failing, Leave, Crash, Poll, Notify, FailClaim, Condemn
    <2>2. Poller(o) \notin Threads(p)
      BY <2>1, ThreadFacts DEF Threads
    <2>3. QED
      BY <1>0, <1>4, <2>1, <2>2
         DEF Connect, Record, Follow, Failing, Leave, Crash, Poll, Notify, FailClaim, Condemn,
             local, Threads
  <1>5. CASE UNCHANGED <<pc, thr>>
    BY <1>5
  <1>6. QED
    BY <1>1, <1>2, <1>3, <1>4, <1>5
       DEF Next, Work, ApplyStep, Applies, vars, local, Lapse, DeliveryLapse, AwaitClaims,
           AwaitFrees, UpStep

LEMMA StampsAheadStep == IInv /\ [Next]_vars => StampsAhead'
  <1> SUFFICES ASSUME IInv, [Next]_vars, NEW o \in Invocation, Live(lease', o)
               PROVE  /\ pc'[o] \in {"called", "attached"} => row'.stamp <= thr'[Poller(o)].stamp
                      /\ \A t \in {Poller(o), Watcher(o)} :
                            Checked(t)' => row'.stamp <= thr'[t].stamp
    BY DEF StampsAhead, Checked
  <1>0. /\ TypeOK /\ OneOpener /\ NoTaskYet /\ ThreadsOff /\ OneInApply /\ StampsBehind
        /\ StampsAhead
        /\ row \in RowType /\ up \in UpType /\ pc \in [Invocation -> Location]
        /\ thr \in [Thread -> ThreadState]
        /\ Poller(o) \in Thread /\ Watcher(o) \in Thread /\ Poller(o) # Watcher(o)
    BY TypeParts, ThreadFacts DEF IInv
  <1>1. CASE Claim(o)
    <2>1. pc'[o] = "claimed" /\ thr' = thr
      BY <1>0, <1>1 DEF Claim, Goto, local
    <2>2. thr[Poller(o)].at = "off" /\ thr[Watcher(o)].at = "off"
      BY <1>0, <1>1 DEF Claim, ThreadsOff
    <2>3. QED
      BY <2>1, <2>2 DEF Checked
  <1>2. CASE Live(lease, o) /\ row'.stamp = row.stamp
    <2>1. ASSUME pc'[o] \in {"called", "attached"} PROVE row'.stamp <= thr'[Poller(o)].stamp
      <3>1. CASE Call(o) /\ thr'[Poller(o)].stamp = up'.stamp
        <4>1. row.stamp <= up.stamp /\ up.stamp <= up'.stamp
          BY <1>0, UpForward DEF StampsBehind
        <4>2. row.stamp \in Nat /\ up.stamp \in Nat /\ up'.stamp \in Nat
          <5>1. TypeOK'
            BY <1>0, TypeOKStep
          <5>2. QED
            BY <1>0, <5>1 DEF TypeOK, RowType, UpType
        <4>3. QED
          BY <1>2, <3>1, <4>1, <4>2
      <3>2. QED
        BY <1>0, <1>2, <2>1, <3>1, CalledStep DEF StampsAhead
    <2>2. ASSUME NEW t \in {Poller(o), Watcher(o)}, Checked(t)'
          PROVE  row'.stamp <= thr'[t].stamp
      <3>1. CASE Checked(t) /\ thr'[t].stamp = thr[t].stamp
        BY <1>0, <1>2, <3>1 DEF StampsAhead
      <3>2. CASE NewerObservation(thr[t].stamp) /\ thr'[t].stamp = thr[t].stamp
        BY <1>0, <1>2, <3>2 DEF NewerObservation, RowType, ThreadState
      <3>3. QED
        BY <1>0, <2>2, <3>1, <3>2, CheckedStep
    <2>3. QED
      BY <2>1, <2>2
  <1>3. CASE Live(lease, o) /\ row'.stamp # row.stamp
    <2>1. ASSUME NEW p \in Invocation, Record(p), MayObserve(p), Follow(p)
          PROVE  /\ pc'[o] \notin {"called", "attached"}
                 /\ ~ Checked(Poller(o))' /\ ~ Checked(Watcher(o))'
      <3>1. p = o
        BY <1>3, <2>1, OneHolder DEF MayObserve
      <3>2. QED
        BY <1>0, <2>1, <3>1 DEF Follow, Goto, Threads, Idle, Checked
    <2>2. ASSUME NEW t \in Thread, Observe(t), MayObserve(t[1])
          PROVE  /\ pc'[o] \notin {"called", "attached"}
                 /\ ~ Checked(Poller(o))' /\ ~ Checked(Watcher(o))'
      <3>1. t[1] = o
        BY <1>3, <2>2, OneHolder DEF MayObserve
      <3>2. t \in {Poller(o), Watcher(o)}
        BY <3>1, ThreadFacts
      <3>3. thr[t].at = "observing" /\ UNCHANGED pc
        BY <2>2 DEF Observe
      <3>4. pc[o] \notin {"called", "attached"}
        BY <1>0, <3>2, <3>3 DEF ThreadsOff
      <3>5. thr'[t] = Ended \/ thr'[t] = Deciding(thr[t])
        BY <1>0, <2>2 DEF Observe
      <3>6. ~ Checked(t)'
        BY <1>0, <3>5 DEF Ended, Deciding, Idle, Checked, ThreadState
      <3>7. \A u \in Thread : u # t => thr'[u] = thr[u]
        BY <1>0, <2>2, AppliesFrame DEF Applies
      <3>8. \A u \in {Poller(o), Watcher(o)} : u # t => thr[u].at \notin Locked
        BY <1>0, <3>2, <3>3 DEF OneInApply, Locked
      <3>9. QED
        BY <1>0, <3>2, <3>3, <3>4, <3>6, <3>7, <3>8 DEF Checked, Locked
    <2>3. QED
      BY <1>0, <1>3, <2>1, <2>2, StampStep
  <1>4. QED
    BY <1>0, <1>1, <1>2, <1>3, LiveStep

-----------------------------------------------------------------------------
(* The theorems.                                                           *)

LEMMA IInvInit == Init => IInv
  <1> SUFFICES ASSUME Init PROVE IInv
    OBVIOUS
  <1> USE DEF Init
  <1>1. TypeOK
    <2>1. "accepted" \in State /\ 0 \in 0..MaxStamp /\ 0 \in 0..MaxFaults
      BY TaskAssumption DEF State, Pending
    <2>2. Off \in ThreadState /\ Fresh \in RunType
      BY ThreadConstants DEF RunType, Fresh
    <2>3. NoLease \in LeaseRow(Invocation) /\ NoLease \in LeaseRow(DeliveryOwner)
      BY TTLAssumption DEF NoLease, LeaseRow
    <2>4. row \in RowType /\ up \in UpType
      BY <2>1 DEF RowType, UpType
    <2>5. QED
      BY <2>1, <2>2, <2>3, <2>4, TypeParts DEF Location
  <1>2. LoadedRow /\ OneOpener /\ NoTaskYet /\ Undisturbed /\ TruthfulOutcome
    BY DEF LoadedRow, OneOpener, MayOpen, NoTaskYet, Undisturbed, Fresh, TruthfulOutcome
  <1>3. /\ \A t \in Thread : thr[t] = Off
        /\ \A o \in Invocation : Poller(o) \in Thread /\ Watcher(o) \in Thread
    BY ThreadFacts
  <1>4. HandleStored /\ EndingIsFinal /\ FaultsTold /\ ThreadsOff /\ OneInApply
    BY <1>3, TaskAssumption
       DEF HandleStored, EndingIsFinal, FaultsTold, ThreadsOff, OneInApply, Off, Locked, Fresh
  <1>5. StampsBehind /\ StampsAhead
    BY <1>3 DEF StampsBehind, StampsAhead, Off, Checked
  <1>6. QED
    BY <1>1, <1>2, <1>4, <1>5 DEF IInv

LEMMA IInvStep == IInv /\ [Next]_vars => IInv'
  BY TypeOKStep, LoadedRowStep, OneOpenerStep, NoTaskYetStep, HandleStoredStep,
     EndingIsFinalStep, FaultsToldStep, UndisturbedStep, TruthfulOutcomeStep,
     ThreadsOffStep, OneInApplyStep, StampsBehindStep, StampsAheadStep DEF IInv

\* The inductive invariant holds in every reachable state.
THEOREM TaskRunnerInductive == Spec => []IInv
  BY IInvInit, IInvStep, PTL DEF Spec

\* Every reachable state of the App task runner is well typed.
THEOREM TaskRunnerTyped == Spec => []TypeOK
  <1>1. IInv => TypeOK
    BY DEF IInv
  <1>2. QED
    BY <1>1, TaskRunnerInductive, PTL

\* However many invocations race, stall, crash or lose answers, a call without
\* the proof of idempotency reaches upstream at most once (ensureTask and
\* openFailed in task_run.go).
THEOREM AtMostOneCall == Spec => []NoDuplicateCall
  <1>1. IInv => NoDuplicateCall
    BY DEF IInv, OneOpener, NoDuplicateCall
  <1>2. QED
    BY <1>1, TaskRunnerInductive, PTL

\* A result, a cancellation or an expiry the row reports is what the upstream
\* task ended with; a failure is the task's own or goes back to a fault, and so
\* does an unknown outcome, which says nothing of what happened upstream (apply
\* in task_observe.go, ensureTask, openFailed and fail in task_run.go).
THEOREM OutcomeIsTruthful == Spec => []TruthfulOutcome
  <1>1. IInv => TruthfulOutcome
    BY DEF IInv
  <1>2. QED
    BY <1>1, TaskRunnerInductive, PTL

\* Snapshots are applied in the order of their stamps, whichever goroutine of
\* whichever invocation brings them, stale ones included (newerObservation).
THEOREM SnapshotsInOrder == Spec => ObservationsInOrder
  <1>1. ASSUME IInv, [Next]_vars PROVE row'.stamp >= row.stamp
    <2>0. TypeOK /\ ThreadsOff /\ StampsAhead /\ row \in RowType
      BY <1>1, TypeParts DEF IInv
    <2>1. CASE row'.stamp = row.stamp
      BY <2>0, <2>1 DEF RowType
    <2>2. ASSUME NEW o \in Invocation, Record(o), MayObserve(o),
                 row'.stamp = thr[Poller(o)].stamp
          PROVE  row'.stamp >= row.stamp
      BY <2>0, <2>2 DEF Record, MayObserve, StampsAhead
    <2>3. ASSUME NEW t \in Thread, Observe(t), MayObserve(t[1]), row'.stamp = thr[t].stamp
          PROVE  row'.stamp >= row.stamp
      BY <2>0, <2>3, ThreadFacts DEF Observe, MayObserve, StampsAhead, Checked
    <2>4. QED
      BY <1>1, <2>0, <2>1, <2>2, <2>3, StampStep
  <1>2. QED
    BY <1>1, TaskRunnerInductive, PTL DEF Spec, ObservationsInOrder

\* Only the invocation that holds the live lease moves the row, and a terminal
\* row never moves (TransitionLeased, CompleteLeased and CaptureTerminalLeased).
THEOREM OnlyHolderSettles == Spec => SettledByLeaseHolder
  <1>1. ASSUME TypeOK, [Next]_vars, row'.status # row.status
        PROVE  /\ row.status \in Pending
               /\ lease.owner \in Invocation /\ lease.left > 0
               /\ \/ pc'[lease.owner] # pc[lease.owner]
                  \/ \E t \in Threads(lease.owner) : thr'[t] # thr[t]
    <2>0. pc \in [Invocation -> Location] /\ thr \in [Thread -> ThreadState]
      BY <1>1, TypeParts
    <2>1. PICK o \in Invocation :
              /\ MayMove(o, row'.status)
              /\ \/ Queue(o) \/ Start(o) \/ Condemn(o)
                 \/ \E t \in Thread : t[1] = o /\ Settle(t)
      BY <1>1, StatusStep
    <2>2. row.status \in Pending /\ lease.owner = o /\ lease.left > 0
      BY <2>1, AllowedTypes DEF MayMove, Live
    <2>3. CASE Queue(o) \/ Start(o) \/ Condemn(o)
      BY <2>0, <2>2, <2>3 DEF Queue, Start, Advance, Condemn, Goto
    <2>4. ASSUME NEW t \in Thread, t[1] = o, Settle(t)
          PROVE  t \in Threads(o) /\ thr'[t] # thr[t]
      <3>1. thr[t].at = "settling" /\ thr'[t] = Ended
        BY <2>0, <2>4 DEF Settle
      <3>2. QED
        BY <2>4, <3>1, ThreadFacts DEF Ended, Idle, Threads
    <2>5. QED
      BY <2>1, <2>2, <2>3, <2>4
  <1>2. QED
    BY <1>1, TaskRunnerTyped, PTL DEF Spec, SettledByLeaseHolder
=============================================================================
