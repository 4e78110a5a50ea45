------------------------- MODULE ReplayWorkerProofs -------------------------
(***************************************************************************)
(* Proofs about ReplayWorker, for any number of submissions, invocations   *)
(* and faults and any durations.                                           *)
(***************************************************************************)
EXTENDS ReplayWorker, TLAPS

\* Every statement of lease.go keeps a lease row a lease row.
LEMMA NoLeaseType == NoLease \in LeaseRow(Invocation)
  BY TTLAssumption DEF LeaseRow, NoLease

LEMMA LeaseRowTypes ==
    ASSUME NEW row \in LeaseRow(Invocation), NEW o \in Invocation
    PROVE  /\ ReleaseLease(row, o) \in LeaseRow(Invocation)
           /\ \A wait \in 0..TTL :
                 /\ ClaimLease(row, o, wait) \in LeaseRow(Invocation)
                 /\ RenewLease(row, wait) \in LeaseRow(Invocation)
  BY TTLAssumption, NoLeaseType
     DEF LeaseRow, ClaimLease, RenewLease, ReleaseLease

LEMMA ElapseType ==
    ASSUME NEW row \in LeaseRow(Invocation)
    PROVE  Elapse(row) \in LeaseRow(Invocation)
  BY TTLAssumption DEF LeaseRow, Elapse

\* Every row the store writes is a row.
LEMMA NewRowTypes == Absent \in Row /\ Accepted \in Row
  <1>1. Absent \in Row
    BY StoreAssumption DEF Row, Absent, ErrorCode
  <1>2. Accepted \in Row
    BY <1>1, StoreAssumption
       DEF Row, Absent, Accepted, State, Pending, ErrorCode
  <1>3. QED
    BY <1>1, <1>2

LEMMA TransitionType ==
    ASSUME NEW row \in Row, NEW to \in State
    PROVE  Transition(row, to) \in Row
  BY DEF Row, Transition

LEMMA FinishType ==
    ASSUME NEW row \in Row, NEW to \in State, NEW code \in ErrorCode,
           NEW result \in Invocation \union {NoOwner}
    PROVE  Finish(row, to, result, code) \in Row
  BY StoreAssumption DEF Row, Finish

LEMMA CollectedType ==
    ASSUME NEW row \in Row
    PROVE  Collected(row) \in Row
  <1>1. Tombstone(row) \in Row
    BY DEF Row, Tombstone, State, Terminal, ErrorCode
  <1>2. QED
    BY <1>1, NewRowTypes DEF Collected

LEMMA CountDownType ==
    ASSUME NEW row \in Row
    PROVE  [row EXCEPT !.payload = CountDown(@),
                       !.tombstone = CountDown(@)] \in Row
  <1>1. \A n \in Nat : \A m \in 0..n : CountDown(m) \in 0..n
    BY DEF CountDown
  <1>2. QED
    BY <1>1, StoreAssumption DEF Row

-----------------------------------------------------------------------------

\* The outcome of every execution settles on a legal terminal state.
LEMMA SettlementTypes ==
    ASSUME NEW result \in Result
    PROVE  /\ Settlement(result).to \in {"completed", "failed"}
           /\ Settlement(result).code \in ErrorCode
           /\ Settlement(result).to = "completed" <=> result = "result"
           /\ Settlement(result).to = "completed" <=>
                 Settlement(result).code = "none"
  BY DEF Settlement, ErrorCode, Result

\* The type invariant is inductive.
LEMMA TypeOKStep == TypeOK /\ [Next]_vars => TypeOK'
  <1> SUFFICES ASSUME TypeOK, [Next]_vars PROVE TypeOK'
    OBVIOUS
  <1> USE DEF TypeOK, StoreTypeOK
  <1> USE DEF Fault, Goto, Return
  <1>1. ASSUME NEW id \in Id, Submit(id) PROVE TypeOK'
    BY <1>1, NewRowTypes, NoLeaseType DEF Submit, runVars
  <1>2. ASSUME NEW o \in Invocation, NEW id \in Id, NEW wait \in 0..TTL,
               Claim(o, id, wait)
        PROVE TypeOK'
    <2>1. faults' \in 0..MaxFaults
      BY <1>2, WorkerAssumption DEF Claim, Waited
    <2>2. leases' \in [Id -> LeaseRow(Invocation)]
      BY <1>2, LeaseRowTypes DEF Claim
    <2>3. QED
      BY <1>2, <2>1, <2>2 DEF Claim, Location, Renewing, Preparing
  <1>3. ASSUME NEW o \in Invocation, NEW wait \in 0..TTL,
               Confirm(o, wait) \/ Renew(o, wait)
        PROVE TypeOK'
    <2>1. faults' \in 0..MaxFaults
      BY <1>3, WorkerAssumption DEF Confirm, Renew, Waited
    <2>2. target[o] \in Id
      BY <1>3 DEF Confirm, Renew, Renewing, Preparing
    <2>3. leases' \in [Id -> LeaseRow(Invocation)]
      <3>1. RenewLease(leases[target[o]], wait) \in LeaseRow(Invocation)
        BY <2>2, LeaseRowTypes
      <3>2. QED
        BY <1>3, <2>2, <3>1 DEF Confirm, Renew
    <2>4. QED
      BY <1>3, <2>1, <2>2, <2>3
         DEF Confirm, Renew, Location, Renewing, Preparing
  <1>4. ASSUME NEW o \in Invocation, Load(o) PROVE TypeOK'
    <2>1. pc' \in [Invocation -> Location]
      BY <1>4 DEF Load, Location, Renewing, Preparing
    <2>2. target[o] \in Id
      BY <1>4 DEF Load
    <2>3. QED
      BY <1>4, <2>1, <2>2 DEF Load, storeVars
  <1>5. ASSUME NEW o \in Invocation, Queue(o) \/ Start(o) PROVE TypeOK'
    <2>1. target[o] \in Id
      BY <1>5 DEF Queue, Start, Advance
    <2>2. submissions' \in [Id -> Row]
      BY <1>5, <2>1, TransitionType DEF Queue, Start, Advance, State, Pending
    <2>3. QED
      BY <1>5, <2>1, <2>2
         DEF Queue, Start, Advance, Location, Renewing, Preparing
  <1>6. ASSUME NEW o \in Invocation, NEW result \in Result \ {"none"},
               Execute(o, result)
        PROVE TypeOK'
    BY <1>6 DEF Execute, storeVars, Location, Renewing, Preparing, Result
  <1>7. ASSUME NEW o \in Invocation, Defer(o) \/ Cancel(o) \/ StoreBusy(o)
        PROVE TypeOK'
    BY <1>7, WorkerAssumption
       DEF Defer, Cancel, StoreBusy, storeVars, Location, Renewing, Preparing
  <1>8. ASSUME NEW o \in Invocation, Publish(o) PROVE TypeOK'
    <2>1. target[o] \in Id
      BY <1>8 DEF Publish
    <2>2. submissions' \in [Id -> Row]
      <3> DEFINE to == Settlement(outcome[o]).to
                 code == Settlement(outcome[o]).code
                 result == IF outcome[o] = "result" THEN o ELSE NoOwner
      <3>1. to \in State /\ code \in ErrorCode
        BY SettlementTypes DEF State, Terminal
      <3>2. result \in Invocation \union {NoOwner}
        OBVIOUS
      <3>3. Finish(submissions[target[o]], to, result, code) \in Row
        BY <2>1, <3>1, <3>2, FinishType
      <3>4. QED
        BY <1>8, <2>1, <3>3 DEF Publish
    <2>3. QED
      BY <1>8, <2>1, <2>2 DEF Publish, Location, Renewing, Preparing
  <1>9. ASSUME NEW o \in Invocation, Unwind(o) PROVE TypeOK'
    BY <1>9 DEF Unwind, storeVars, Location, Renewing, Preparing
  <1>10. ASSUME NEW o \in Invocation, Release(o) PROVE TypeOK'
    <2>1. target[o] \in Id
      BY <1>10 DEF Release
    <2>2. leases' \in [Id -> LeaseRow(Invocation)]
      BY <1>10, <2>1, LeaseRowTypes DEF Release
    <2>3. QED
      BY <1>10, <2>2 DEF Release, Location, Result
  <1>11. ASSUME NEW o \in Invocation, Crash(o) PROVE TypeOK'
    BY <1>11, WorkerAssumption DEF Crash, storeVars, Location, Result
  <1>12. CASE Tick
    <2>1. faults' \in 0..MaxFaults
      BY <1>12, WorkerAssumption DEF Tick
    <2>2. leases' \in [Id -> LeaseRow(Invocation)]
      BY <1>12, ElapseType DEF Tick, StoreElapse
    <2>3. submissions' \in [Id -> Row]
      BY <1>12, CountDownType DEF Tick, StoreElapse
    <2>4. QED
      BY <1>12, <2>1, <2>2, <2>3 DEF Tick, runVars
  <1>13. CASE Collect
    BY <1>13, CollectedType DEF Collect, GC, runVars
  <1>14. CASE UNCHANGED vars
    BY <1>14 DEF vars
  <1>15. QED
    BY <1>1, <1>2, <1>3, <1>4, <1>5, <1>6, <1>7, <1>8, <1>9, <1>10, <1>11,
       <1>12, <1>13, <1>14 DEF Next, Step

\* The type invariant holds of every behaviour.
THEOREM TypeCorrect == Spec => []TypeOK
  <1>1. Init => TypeOK
    BY NewRowTypes, NoLeaseType, WorkerAssumption
       DEF Init, TypeOK, StoreTypeOK, StoreInit, Location, Result
  <1>2. QED
    BY <1>1, TypeOKStep, PTL DEF Spec

-----------------------------------------------------------------------------

\* The inductive invariant.  A lease row names the invocation that took it
\* last; whoever got past prepare has seen its row leave the queue.
LeaseNamesLatest ==
    \A id \in Id : leases[id].owner # NoOwner => leases[id].owner = latest[id]

PastQueue ==
    \A o \in Invocation :
        pc[o] \in {"confirming", "executing", "publishing"}
        => submissions[target[o]].status \notin {"accepted", "queued"}

IInv == TypeOK /\ LeaseNamesLatest /\ PastQueue /\ CapturedWhole

LEMMA LeaseNamesLatestStep ==
    TypeOK /\ LeaseNamesLatest /\ [Next]_vars => LeaseNamesLatest'
  <1> SUFFICES ASSUME TypeOK, LeaseNamesLatest, [Next]_vars,
                      NEW id \in Id, leases'[id].owner # NoOwner
               PROVE  leases'[id].owner = latest'[id]
    BY DEF LeaseNamesLatest
  <1> USE DEF TypeOK, StoreTypeOK, LeaseNamesLatest
  <1>1. ASSUME NEW j \in Id, Submit(j) PROVE leases'[id].owner = latest'[id]
    BY <1>1 DEF Submit, NoLease
  <1>2. ASSUME NEW o \in Invocation, NEW j \in Id, NEW wait \in 0..TTL,
               Claim(o, j, wait)
        PROVE  leases'[id].owner = latest'[id]
    BY <1>2 DEF Claim, ClaimLease
  <1>3. ASSUME NEW o \in Invocation, NEW wait \in 0..TTL,
               Confirm(o, wait) \/ Renew(o, wait)
        PROVE  leases'[id].owner = latest'[id]
    <2>1. leases'[id].owner = leases[id].owner
      BY <1>3 DEF Confirm, Renew, RenewLease, LeaseRow
    <2>2. latest' = latest
      BY <1>3 DEF Confirm, Renew
    <2>3. QED
      BY <2>1, <2>2
  <1>4. ASSUME NEW o \in Invocation, Release(o)
        PROVE  leases'[id].owner = latest'[id]
    BY <1>4 DEF Release, ReleaseLease, NoLease
  <1>5. CASE Tick
    <2>1. leases'[id].owner = leases[id].owner
      BY <1>5 DEF Tick, StoreElapse, Elapse, LeaseRow
    <2>2. QED
      BY <1>5, <2>1 DEF Tick
  <1>6. CASE UNCHANGED <<leases, latest>>
    BY <1>6
  <1>7. QED
    BY <1>1, <1>2, <1>3, <1>4, <1>5, <1>6
       DEF Next, Step, vars, storeVars, Load, Queue, Start, Advance, Execute,
           Defer, Cancel, StoreBusy, Publish, Unwind, Crash, Collect, GC

LEMMA PastQueueStep ==
    TypeOK /\ PastQueue /\ [Next]_vars => PastQueue'
  <1> SUFFICES ASSUME TypeOK, PastQueue, [Next]_vars,
                      NEW p \in Invocation,
                      pc'[p] \in {"confirming", "executing", "publishing"}
               PROVE  submissions'[target'[p]].status \notin {"accepted", "queued"}
    BY DEF PastQueue
  <1> USE DEF TypeOK, StoreTypeOK, PastQueue, Goto, Return
  <1>1. ASSUME NEW j \in Id, Submit(j)
        PROVE  submissions'[target'[p]].status \notin {"accepted", "queued"}
    BY <1>1 DEF Submit, runVars
  <1>2. ASSUME NEW o \in Invocation, NEW j \in Id, NEW wait \in 0..TTL,
               Claim(o, j, wait)
        PROVE  submissions'[target'[p]].status \notin {"accepted", "queued"}
    BY <1>2 DEF Claim
  <1>3. ASSUME NEW o \in Invocation, NEW wait \in 0..TTL,
               Confirm(o, wait) \/ Renew(o, wait)
        PROVE  submissions'[target'[p]].status \notin {"accepted", "queued"}
    BY <1>3 DEF Confirm, Renew
  <1>4. ASSUME NEW o \in Invocation, Load(o)
        PROVE  submissions'[target'[p]].status \notin {"accepted", "queued"}
    BY <1>4 DEF Load, storeVars
  <1>5. ASSUME NEW o \in Invocation, Queue(o)
        PROVE  submissions'[target'[p]].status \notin {"accepted", "queued"}
    <2>1. target[o] \in Id /\ target[p] \in Id /\ target' = target
      BY <1>5 DEF Queue, Advance
    <2>2. CASE MayMove(target[o], o, "queued")
      <3>1. submissions[target[o]].status = "accepted"
        BY <2>2 DEF MayMove, Allowed, Terminal
      <3>2. target[p] # target[o]
        BY <1>5, <3>1 DEF Queue, Advance
      <3>3. QED
        BY <1>5, <2>1, <3>2 DEF Queue, Advance
    <2>3. CASE ~ MayMove(target[o], o, "queued")
      BY <1>5, <2>3 DEF Queue, Advance
    <2>4. QED
      BY <2>2, <2>3
  <1>6. ASSUME NEW o \in Invocation, Start(o)
        PROVE  submissions'[target'[p]].status \notin {"accepted", "queued"}
    <2>1. target[o] \in Id /\ target' = target
      BY <1>6 DEF Start, Advance
    <2>2. CASE MayMove(target[o], o, "running")
      BY <1>6, <2>1, <2>2 DEF Start, Advance, Transition, Row
    <2>3. CASE ~ MayMove(target[o], o, "running")
      BY <1>6, <2>3 DEF Start, Advance
    <2>4. QED
      BY <2>2, <2>3
  <1>7. ASSUME NEW o \in Invocation, Publish(o)
        PROVE  submissions'[target'[p]].status \notin {"accepted", "queued"}
    <2>1. target[o] \in Id /\ target' = target /\ outcome[o] \in Result
      BY <1>7 DEF Publish
    <2>2. Settlement(outcome[o]).to \notin {"accepted", "queued"}
      BY <2>1, SettlementTypes
    <2>3. QED
      BY <1>7, <2>1, <2>2 DEF Publish, Finish
  <1>8. ASSUME NEW o \in Invocation, Release(o) \/ Crash(o)
        PROVE  submissions'[target'[p]].status \notin {"accepted", "queued"}
    BY <1>8 DEF Release, Crash, storeVars
  <1>9. ASSUME NEW o \in Invocation, NEW result \in Result \ {"none"},
               \/ Execute(o, result) \/ Defer(o) \/ Cancel(o)
               \/ StoreBusy(o) \/ Unwind(o)
        PROVE  submissions'[target'[p]].status \notin {"accepted", "queued"}
    BY <1>9 DEF Execute, Defer, Cancel, StoreBusy, Unwind, storeVars
  <1>10. CASE Tick
    <2>1. target' = target /\ pc' = pc /\ target[p] \in Id
      BY <1>10 DEF Tick, runVars
    <2>2. submissions'[target[p]].status = submissions[target[p]].status
      BY ZenonT(40), <1>10, <2>1 DEF Tick, StoreElapse, Row
    <2>3. QED
      BY <2>1, <2>2
  <1>11. CASE Collect
    <2>1. target' = target /\ pc' = pc /\ target[p] \in Id
      BY <1>11 DEF Collect, runVars
    <2>2. submissions'[target[p]].status
             \in {submissions[target[p]].status, "absent", "expired"}
      BY <1>11, <2>1 DEF Collect, GC, Collected, Tombstone, Absent
    <2>3. QED
      BY <2>1, <2>2
  <1>12. CASE UNCHANGED vars
    BY <1>12 DEF vars
  <1>13. "result" \in Result \ {"none"}
    BY DEF Result
  <1>14. QED
    BY <1>1, <1>2, <1>3, <1>4, <1>5, <1>6, <1>7, <1>8, <1>9, <1>10, <1>11,
       <1>12, <1>13 DEF Next, Step

\* What one row may look like (CapturedWhole says it of every row).
Whole(row) ==
    /\ row.status \in Pending =>
          row.args /\ row.result = NoOwner /\ row.error = "none"
    /\ row.status = "completed" => row.result # NoOwner /\ row.error = "none"
    /\ row.status = "failed" => row.result = NoOwner /\ row.error # "none"
    /\ row.status = "expired" =>
          ~ row.args /\ row.result = NoOwner /\ row.error = "none"

LEMMA CapturedWholeStep ==
    TypeOK /\ CapturedWhole /\ [Next]_vars => CapturedWhole'
  <1> SUFFICES ASSUME TypeOK, [Next]_vars, NEW id \in Id,
                      Whole(submissions[id])
               PROVE  Whole(submissions'[id])
    BY DEF CapturedWhole, Whole
  <1> USE DEF TypeOK, StoreTypeOK
  <1>1. ASSUME NEW j \in Id, Submit(j) PROVE Whole(submissions'[id])
    BY <1>1 DEF Submit, Accepted, Absent, Whole, Pending
  <1>2. ASSUME NEW o \in Invocation, NEW from, NEW to \in {"queued", "running"},
               NEW next, Advance(o, from, to, next), pc[o] # "idle"
        PROVE  Whole(submissions'[id])
    <2>1. target[o] \in Id
      BY <1>2
    <2>2. CASE MayMove(target[o], o, to) /\ target[o] = id
      <3>1. submissions[id].status \in Pending
        BY <2>2 DEF MayMove, Allowed, Pending, Terminal
      <3>2. /\ submissions'[id].status \in Pending
            /\ submissions'[id].args = submissions[id].args
            /\ submissions'[id].result = submissions[id].result
            /\ submissions'[id].error = submissions[id].error
        BY <1>2, <2>1, <2>2 DEF Advance, Transition, Row, Pending
      <3>3. QED
        BY <3>1, <3>2 DEF Whole, Pending
    <2>3. CASE ~ (MayMove(target[o], o, to) /\ target[o] = id)
      BY <1>2, <2>1, <2>3 DEF Advance
    <2>4. QED
      BY <2>2, <2>3
  <1>3. ASSUME NEW o \in Invocation, Queue(o) \/ Start(o)
        PROVE  Whole(submissions'[id])
    BY <1>2, <1>3 DEF Queue, Start, Advance
  <1>4. ASSUME NEW o \in Invocation, Publish(o)
        PROVE  Whole(submissions'[id])
    <2>1. target[o] \in Id /\ outcome[o] \in Result
      BY <1>4 DEF Publish
    <2> DEFINE to == Settlement(outcome[o]).to
               code == Settlement(outcome[o]).code
               result == IF outcome[o] = "result" THEN o ELSE NoOwner
    <2>2. /\ to \in {"completed", "failed"}
          /\ to = "completed" <=> outcome[o] = "result"
          /\ to = "completed" <=> code = "none"
      BY <2>1, SettlementTypes
    <2>3. Whole(Finish(submissions[id], to, result, code))
      BY <2>2, StoreAssumption DEF Whole, Finish, Pending
    <2>4. QED
      BY <1>4, <2>1, <2>3 DEF Publish
  <1>5. CASE Tick
    <2>1. /\ submissions'[id].status = submissions[id].status
          /\ submissions'[id].args = submissions[id].args
          /\ submissions'[id].result = submissions[id].result
          /\ submissions'[id].error = submissions[id].error
      BY <1>5 DEF Tick, StoreElapse, Row
    <2>2. QED
      BY <2>1 DEF Whole
  <1>6. CASE Collect
    BY <1>6 DEF Collect, GC, Collected, Tombstone, Absent, Whole, Pending
  <1>7. CASE UNCHANGED submissions
    BY <1>7
  <1>8. QED
    BY <1>1, <1>3, <1>4, <1>5, <1>6, <1>7
       DEF Next, Step, vars, storeVars, Claim, Load, Confirm, Renew, Execute,
           Defer, Cancel, StoreBusy, Unwind, Release, Crash

-----------------------------------------------------------------------------

\* The inductive invariant holds of every behaviour.
THEOREM Inductive == Spec => []IInv
  <1>1. Init => IInv
    <2>1. Init => TypeOK
      BY NewRowTypes, NoLeaseType, WorkerAssumption
         DEF Init, TypeOK, StoreTypeOK, StoreInit, Location, Result
    <2>2. Init => LeaseNamesLatest /\ PastQueue /\ CapturedWhole
      BY DEF Init, StoreInit, LeaseNamesLatest, PastQueue, CapturedWhole,
             NoLease, Absent, Pending
    <2>3. QED
      BY <2>1, <2>2 DEF IInv
  <1>2. IInv /\ [Next]_vars => IInv'
    BY TypeOKStep, LeaseNamesLatestStep, PastQueueStep, CapturedWholeStep
       DEF IInv
  <1>3. QED
    BY <1>1, <1>2, PTL DEF Spec

\* No upstream call is under way for a row that still says accepted or queued
\* (runner.go, prepare before Execute).
THEOREM WriteAhead == Spec => []RunningBeforeExecute
  <1>1. IInv => RunningBeforeExecute
    BY DEF IInv, PastQueue, RunningBeforeExecute
  <1>2. QED
    BY <1>1, Inductive, PTL

\* A terminal state is stored whole (transition.go, finish; gc.go).
THEOREM AtomicCapture == Spec => []CapturedWhole
  <1>1. IInv => CapturedWhole
    BY DEF IInv
  <1>2. QED
    BY <1>1, Inductive, PTL

\* A stale invocation never settles a submission (CompleteLeased, FailLeased).
THEOREM Fencing == Spec => NoStalePublish
  <1> DEFINE Settles(id) ==
        /\ submissions[id].status \in Pending
        /\ submissions'[id].status \in Terminal
  <1> DEFINE ByLatest(id) ==
        /\ latest[id] \in Invocation
        /\ pc[latest[id]] = "publishing"
        /\ target[latest[id]] = id
        /\ submissions'[id].result \in {latest[id], NoOwner}
  <1>1. ASSUME IInv, [Next]_vars, NEW id \in Id, Settles(id)
        PROVE  ByLatest(id)
    <2> USE DEF TypeOK, StoreTypeOK
    <2>0. TypeOK /\ LeaseNamesLatest
      BY <1>1 DEF IInv
    <2>1. ASSUME NEW o \in Invocation, Publish(o) PROVE ByLatest(id)
      <3>1. target[o] \in Id
        BY <2>0, <2>1 DEF Publish
      <3>2. target[o] = id /\ MayMove(id, o, Settlement(outcome[o]).to)
        BY <1>1, <2>0, <2>1, <3>1 DEF Publish, Pending, Terminal
      <3>3. latest[id] = o
        BY <2>0, <3>2, StoreAssumption DEF MayMove, Live, LeaseNamesLatest
      <3>4. submissions'[id].result \in {o, NoOwner}
        BY <2>0, <2>1, <3>1, <3>2 DEF Publish, Finish
      <3>5. QED
        BY <2>1, <3>2, <3>3, <3>4 DEF Publish
    <2>2. CASE submissions'[id].status = submissions[id].status
      BY <1>1, <2>2 DEF Pending, Terminal
    <2>3. ASSUME NEW o \in Invocation, Queue(o) \/ Start(o) PROVE ByLatest(id)
      <3>1. target[o] \in Id
        BY <2>0, <2>3 DEF Queue, Start, Advance
      <3>2. submissions'[id].status
               \in {submissions[id].status, "queued", "running"}
        BY <2>0, <2>3, <3>1 DEF Queue, Start, Advance, Transition, Row
      <3>3. QED
        BY <1>1, <3>2 DEF Pending, Terminal
    <2>4. CASE Collect
      BY <1>1, <2>0, <2>4
         DEF Collect, GC, Collected, PayloadLapsed, TombstoneLapsed, Pending,
             Terminal
    <2>5. CASE Tick
      BY <2>0, <2>2, <2>5 DEF Tick, StoreElapse, Row
    <2>6. ASSUME NEW j \in Id, Submit(j) PROVE ByLatest(id)
      BY <1>1, <2>0, <2>6 DEF Submit, Accepted, Absent, Pending, Terminal
    <2>7. CASE UNCHANGED submissions
      BY <2>2, <2>7
    <2>8. QED
      BY <1>1, <2>1, <2>3, <2>4, <2>5, <2>6, <2>7
         DEF Next, Step, vars, storeVars, Claim, Load, Confirm, Renew, Execute,
             Defer, Cancel, StoreBusy, Unwind, Release, Crash
  <1>2. ASSUME IInv, [Next]_vars
        PROVE  [\A id \in Id :
                  submissions[id].status \in Pending
                    /\ submissions'[id].status \in Terminal
                  => /\ latest[id] \in Invocation
                     /\ pc[latest[id]] = "publishing"
                     /\ target[latest[id]] = id
                     /\ submissions'[id].result \in {latest[id], NoOwner}]_vars
    BY <1>1, <1>2
  <1>3. QED
    BY <1>2, Inductive, PTL DEF Spec, NoStalePublish

-----------------------------------------------------------------------------

\* Every view of a row is one the contract knows.
LEMMA ViewType ==
  ASSUME NEW row \in Row
  PROVE  ClientView(row) \in Contract!View
  BY DEF ClientView, Row, State, Pending, Terminal, Contract!View,
         Contract!Settled, Contract!Absent, Contract!Pending, Contract!Gone,
         Contract!NoOutcome

\* A row that keeps its status, payload columns and error shows the same.
LEMMA ViewKept ==
  ASSUME NEW row, NEW new,
         new.status = row.status, new.args = row.args,
         new.result = row.result, new.error = row.error
  PROVE  ClientView(new) = ClientView(row)
  BY DEF ClientView

\* A status write between pending states shows the client nothing.
LEMMA PendingView ==
  ASSUME NEW row, row.status \in Pending
  PROVE  ClientView(row) = Contract!Pending
  BY DEF ClientView, Pending, Contract!Pending, Contract!NoOutcome

\* What the sweep makes of one row, the contract's Sweep allows.
LEMMA CollectedView ==
  ASSUME NEW row \in Row
  PROVE  LET new == Collected(row) IN
         \/ ClientView(new) = ClientView(row)
         \/ /\ ClientView(row).phase = "settled"
            /\ ClientView(new) \in {Contract!Gone, Contract!Absent}
         \/ /\ ClientView(row) = Contract!Gone
            /\ ClientView(new) = Contract!Absent
  <1>1. CASE TombstoneLapsed(row)
    <2>1. ClientView(Collected(row)) = Contract!Absent
      BY <1>1 DEF Collected, Absent, ClientView, Contract!Absent,
                  Contract!NoOutcome
    <2>2. ClientView(row).phase = "settled" \/ ClientView(row) = Contract!Gone
      BY <1>1 DEF TombstoneLapsed, ClientView, Terminal, Pending,
                  Contract!Gone, Contract!NoOutcome
    <2>3. QED
      BY <2>1, <2>2
  <1>2. CASE ~ TombstoneLapsed(row) /\ PayloadLapsed(row)
    <2>1. ClientView(Collected(row)) = Contract!Gone
      BY <1>2 DEF Collected, Tombstone, ClientView, Pending, Contract!Gone,
                  Contract!NoOutcome
    <2>2. ClientView(row).phase = "settled" \/ ClientView(row) = Contract!Gone
      BY <1>2 DEF PayloadLapsed, ClientView, Terminal, Pending,
                  Contract!Gone, Contract!NoOutcome
    <2>3. QED
      BY <2>1, <2>2
  <1>3. CASE ~ TombstoneLapsed(row) /\ ~ PayloadLapsed(row)
    BY <1>3 DEF Collected
  <1>4. QED
    BY <1>1, <1>2, <1>3

\* The worker pool implements SubmissionContract: a submission is accepted by
\* Submit, settled by a Publish that is not refused, swept by Collect, and no
\* other step shows the client anything.
THEOREM Refinement == Spec => KeepsContract
  <1> USE DEF TypeOK, StoreTypeOK
  <1>1. Init => Contract!Init
    BY DEF Init, StoreInit, Contract!Init, Contract!Absent, Contract!NoOutcome,
           clientView, ClientView, Absent
  <1>2. ASSUME IInv, [Next]_vars
        PROVE  [Contract!Next]_clientView
    <2>0. TypeOK /\ CapturedWhole
      BY <1>2 DEF IInv
    <2>1. ASSUME NEW id \in Id, Submit(id) PROVE Contract!Accept(id)
      <3>1. ClientView(Absent) = Contract!Absent
        BY DEF ClientView, Absent, Contract!Absent, Contract!NoOutcome
      <3>2. ClientView(Accepted) = Contract!Pending
        <4>1. Accepted.status \in Pending
          BY DEF Accepted, Absent, Pending
        <4>2. QED
          BY <4>1, PendingView
      <3>3. QED
        BY <2>0, <2>1, <3>1, <3>2 DEF Submit, Contract!Accept, clientView
    <2>2. ASSUME NEW o \in Invocation, Publish(o)
          PROVE  \/ UNCHANGED clientView
                 \/ \E id \in Id,
                       out \in Terminal \X (Invocation \union {NoOwner})
                                       \X ErrorCode :
                       Contract!Settle(id, out)
      <3> DEFINE id == target[o]
                 to == Settlement(outcome[o]).to
                 result == IF outcome[o] = "result" THEN o ELSE NoOwner
                 code == Settlement(outcome[o]).code
                 out == <<to, result, code>>
      <3>1. id \in Id
        BY <2>0, <2>2 DEF Publish
      <3>2. CASE UNCHANGED submissions
        BY <3>2 DEF clientView
      <3>3. CASE /\ MayMove(id, o, to)
                 /\ submissions' =
                      [submissions EXCEPT ![id] = Finish(@, to, result, code)]
        <4>1. submissions[id].status \in Pending /\ to \in Terminal
          BY <3>3 DEF MayMove, Allowed, Pending, Terminal, Settlement
        <4>2. submissions[id].args
          BY <2>0, <3>1, <4>1 DEF CapturedWhole
        <4>3. code \in ErrorCode /\ result \in Invocation \union {NoOwner}
          BY DEF Settlement, ErrorCode
        <4>4. ClientView(Finish(submissions[id], to, result, code))
                = Contract!Settled(out)
          BY <4>1, <4>2
             DEF Finish, ClientView, Contract!Settled, Pending, Terminal
        <4>5. ClientView(submissions[id]) = Contract!Pending
          BY <4>1, PendingView
        <4>6. Contract!Settle(id, out)
          BY <2>0, <3>1, <3>3, <4>4, <4>5 DEF Contract!Settle, clientView
        <4>7. QED
          BY <3>1, <4>1, <4>3, <4>6
      <3>4. QED
        BY <2>2, <3>2, <3>3 DEF Publish
    <2>3. ASSUME NEW o \in Invocation, Queue(o) \/ Start(o)
          PROVE  UNCHANGED clientView
      <3>1. ASSUME NEW id \in Id
            PROVE  ClientView(submissions'[id]) = ClientView(submissions[id])
        <4>1. submissions'[id] = submissions[id]
                \/ /\ submissions[id].status \in Pending
                   /\ submissions'[id].status \in Pending
          BY <2>0, <2>3
             DEF Queue, Start, Advance, MayMove, Allowed, Transition, Row,
                 Pending
        <4>2. QED
          BY <4>1, PendingView
      <3>2. QED
        BY <3>1 DEF clientView
    <2>4. CASE Collect
      <3>1. clientView' = [id \in Id |-> ClientView(Collected(submissions[id]))]
        BY <2>4 DEF Collect, GC, clientView
      <3>2. clientView' \in [Id -> Contract!View]
        <4>1. \A id \in Id : Collected(submissions[id]) \in Row
          BY <2>0, CollectedType
        <4>2. QED
          BY <3>1, <4>1, ViewType
      <3>3. Contract!Sweep
        BY <2>0, <3>1, <3>2, CollectedView DEF Contract!Sweep, clientView
      <3>4. QED
        BY <3>3 DEF Contract!Next
    <2>5. CASE Tick
      <3>1. ASSUME NEW id \in Id
            PROVE  ClientView(submissions'[id]) = ClientView(submissions[id])
        <4>1. /\ submissions'[id].status = submissions[id].status
              /\ submissions'[id].args = submissions[id].args
              /\ submissions'[id].result = submissions[id].result
              /\ submissions'[id].error = submissions[id].error
          BY <2>0, <2>5 DEF Tick, StoreElapse, Row
        <4>2. QED
          BY <4>1, ViewKept
      <3>2. QED
        BY <3>1 DEF clientView
    <2>6. CASE UNCHANGED submissions
      BY <2>6 DEF clientView
    <2>7. QED
      BY <1>2, <2>1, <2>2, <2>3, <2>4, <2>5, <2>6
         DEF Next, Step, vars, storeVars, Claim, Load, Confirm, Renew, Execute,
             Defer, Cancel, StoreBusy, Unwind, Release, Crash, Contract!Next
  <1>3. QED
    BY <1>1, <1>2, Inductive, PTL DEF Spec, KeepsContract, Contract!Spec
=============================================================================
