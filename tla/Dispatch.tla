------------------------------ MODULE Dispatch ------------------------------
(***************************************************************************)
(* internal/worker/service.go: the dispatch pipeline of one process.  A    *)
(* bounded prompt-start queue, a loop that takes from it and sweeps the    *)
(* store, a pool of slots, a parking set for executors that wait for one,  *)
(* and the in-flight marks that absorb duplicates.                         *)
(* internal/application/task_service.go repeats the same pipeline for App  *)
(* tasks.                                                                  *)
(*                                                                         *)
(* The loop, the executors, the startup sweep and the submit handlers      *)
(* interleave between any two statements on a channel, on the in-flight    *)
(* map or on the store.  Run is one step here: it settles the row or       *)
(* leaves it (lease held elsewhere, deferred, failed); ReplayWorker is its *)
(* inside.                                                                 *)
(***************************************************************************)
EXTENDS Naturals, Sequences, FiniteSets, SequencesExt

CONSTANTS Id,           \* submission IDs
          NoId,         \* what an idle goroutine works on
          Goroutine,    \* executor goroutines: one more than IDs is enough
          QueueDepth,   \* capacity of the prompt-start queue
          MaxInFlight   \* capacity of the pool, and of the parking set

ASSUME DispatchAssumption ==
    NoId \notin Id /\ QueueDepth \in Nat \ {0} /\ MaxInFlight \in Nat \ {0}

VARIABLES created,    \* durable: the IDs accepted, in creation order
          settled,    \* durable: those of them in a terminal state
          handlers,   \* submit handlers that still have to dispatch
          queue,      \* the channel of IDs
          sweep,      \* each sweep: due, under way (with its list) or over
          loop,       \* where the loop is, and the ID in its hand
          exec,       \* the executor goroutines
          slots,      \* tokens in the slots channel
          parked,     \* tokens in the parked channel
          inFlight,   \* the in-flight map
          wg,         \* the wait group
          phase       \* up, stopping, stopped

store == <<created, settled>>
marks == <<inFlight, wg>>
pool  == <<slots, parked, inFlight, wg>>
vars  == <<store, handlers, queue, sweep, loop, exec, pool, phase>>

\* Start's sweep in the caller of Start, and the loop's on its ticker.
Sweeper == {"start", "ticker"}

\* waiting: parked, without a slot.  ending: Run has returned.  unparking and
\* unmarking: the deferred releases still to come, in their order.
ExecAt == {"none", "waiting", "running", "ending", "unparking", "unmarking"}

NoExec   == [at |-> "none", id |-> NoId, wasParked |-> FALSE]
AtSelect == [at |-> "select", id |-> NoId]

TypeOK ==
    /\ created \in Seq(Id) /\ settled \subseteq Id /\ handlers \subseteq Id
    /\ queue \in Seq(Id) /\ Len(queue) <= QueueDepth
    /\ sweep \in [Sweeper -> [at : {"due", "offering", "over"}, ids : Seq(Id)]]
    /\ loop \in [at : {"select", "marked", "full", "sweeping", "returned"},
                 id : Id \union {NoId}]
    /\ exec \in [Goroutine -> [at : ExecAt, id : Id \union {NoId},
                               wasParked : BOOLEAN]]
    /\ slots \in 0..MaxInFlight /\ parked \in 0..MaxInFlight
    /\ inFlight \subseteq Id /\ wg \in Nat
    /\ phase \in {"up", "stopping", "stopped"}

\* A fresh process: NewService has started the loop, Start is still to come.
\* The store holds whatever an earlier process, stopped or crashed anywhere,
\* has left there.
Init ==
    /\ created \in UNION {[1..n -> Id] : n \in 0..Cardinality(Id)}
    /\ IsInjective(created)
    /\ settled \in SUBSET ToSet(created)
    /\ handlers = {} /\ queue = <<>>
    /\ sweep = [s \in Sweeper |-> [at |-> "due", ids |-> <<>>]]
    /\ loop = AtSelect
    /\ exec = [g \in Goroutine |-> NoExec]
    /\ slots = 0 /\ parked = 0 /\ inFlight = {} /\ wg = 0 /\ phase = "up"

-----------------------------------------------------------------------------

\* Mutated forms of the operators below, of OnCancel and of Joined: no duplicate
\* check; the mark, or the wait group's count, of a dropped ID is kept; the
\* slot's release is deferred before it is taken; Stop does not wait for the
\* loop.
NeverADuplicate(id) == FALSE
DropKeepingMark     == wg' = wg - 1 /\ UNCHANGED inFlight
DropKeepingWait     == inFlight' = inFlight \ {loop.id} /\ UNCHANGED wg
OnCancelWithSlot    == "ending"
ExecutorsJoined     == wg = 0

\* A non-blocking send on the queue: dropped when it is full.
Offer(id) == queue' = IF Len(queue) < QueueDepth THEN Append(queue, id) ELSE queue

\* ListRunnable: what is pending, oldest first.
Runnable ==
    LET pending[i \in 0..Len(created)] ==
          IF i = 0 THEN <<>>
          ELSE IF created[i] \notin settled THEN Append(pending[i - 1], created[i])
          ELSE pending[i - 1]
    IN  pending[Len(created)]

\* LoadOrStore finds the mark of an ID that is executing or parked.
Duplicate(id) == id \in inFlight

\* The loop gives up the ID in its hand: unmarked, left to the sweep.
Drop == inFlight' = inFlight \ {loop.id} /\ wg' = wg - 1

-----------------------------------------------------------------------------

\* submit stores the row, and only then dispatches it.
Submit(id) ==
    /\ phase = "up"
    /\ id \notin ToSet(created)
    /\ created' = Append(created, id)
    /\ handlers' = handlers \union {id}
    /\ UNCHANGED <<settled, queue, sweep, loop, exec, pool, phase>>

Dispatch(id) ==
    /\ id \in handlers
    /\ handlers' = handlers \ {id}
    /\ Offer(id)
    /\ UNCHANGED <<store, sweep, loop, exec, pool, phase>>

\* Another process runs the submission to its end.
SettleElsewhere(id) ==
    /\ id \in ToSet(created) \ settled
    /\ settled' = settled \union {id}
    /\ UNCHANGED <<created, handlers, queue, sweep, loop, exec, pool, phase>>

\* sweepRunnable reads the list once (the store may refuse) ...
BeginSweep(s) ==
    /\ sweep[s].at = "due"
    /\ s = "ticker" => loop.at = "select" /\ Runnable # <<>>
    /\ \/ sweep' = [sweep EXCEPT ![s] = [at |-> "offering", ids |-> Runnable]]
       \/ s = "start" /\ sweep' = [sweep EXCEPT ![s].at = "over"]
    /\ loop' = IF s = "ticker" THEN [loop EXCEPT !.at = "sweeping"] ELSE loop
    /\ UNCHANGED <<store, handlers, queue, exec, pool, phase>>

\* ... and offers it one by one, without what is marked.
SweepOne(s) ==
    /\ sweep[s].ids # <<>>
    /\ LET id == Head(sweep[s].ids) IN
       IF id \in inFlight THEN UNCHANGED queue ELSE Offer(id)
    /\ sweep' = [sweep EXCEPT ![s].ids = Tail(@)]
    /\ UNCHANGED <<store, handlers, loop, exec, pool, phase>>

EndSweep(s) ==
    /\ sweep[s] = [at |-> "offering", ids |-> <<>>]
    /\ sweep' = [sweep EXCEPT ![s].at = IF s = "ticker" THEN "due" ELSE "over"]
    /\ loop' = IF s = "ticker" THEN AtSelect ELSE loop
    /\ UNCHANGED <<store, handlers, queue, exec, pool, phase>>

-----------------------------------------------------------------------------

\* The loop's select receives an ID and marks it, or absorbs a duplicate.
Take ==
    /\ loop.at = "select"
    /\ queue # <<>>
    /\ queue' = Tail(queue)
    /\ IF Duplicate(Head(queue))
       THEN UNCHANGED <<loop, marks>>
       ELSE /\ inFlight' = inFlight \union {Head(queue)}
            /\ wg' = wg + 1
            /\ loop' = [at |-> "marked", id |-> Head(queue)]
    /\ UNCHANGED <<store, handlers, sweep, exec, slots, parked, phase>>

\* The loop starts an executor goroutine on the ID in its hand.
Spawn(at, wasParked) ==
    /\ LET idle == {g \in Goroutine : exec[g].at = "none"} IN
       /\ idle # {}
       /\ exec' = [exec EXCEPT ![CHOOSE g \in idle : TRUE] =
                     [at |-> at, id |-> loop.id, wasParked |-> wasParked]]
    /\ loop' = AtSelect

\* A free slot goes to the new executor.
TakeSlot ==
    /\ loop.at = "marked"
    /\ IF slots < MaxInFlight
       THEN slots' = slots + 1 /\ Spawn("running", FALSE)
       ELSE loop' = [loop EXCEPT !.at = "full"] /\ UNCHANGED <<slots, exec>>
    /\ UNCHANGED <<store, handlers, queue, sweep, parked, marks, phase>>

\* With no slot free the executor waits in the parking set, if it has room.
Park ==
    /\ loop.at = "full"
    /\ IF parked < MaxInFlight
       THEN parked' = parked + 1 /\ Spawn("waiting", TRUE) /\ UNCHANGED marks
       ELSE Drop /\ loop' = AtSelect /\ UNCHANGED <<parked, exec>>
    /\ UNCHANGED <<store, handlers, queue, sweep, slots, phase>>

\* ctx.Done in the loop's select; done is closed.
LoopReturns ==
    /\ loop.at = "select"
    /\ phase = "stopping"
    /\ loop' = [loop EXCEPT !.at = "returned"]
    /\ UNCHANGED <<store, handlers, queue, sweep, exec, pool, phase>>

-----------------------------------------------------------------------------

GoTo(g, where) == exec' = [exec EXCEPT ![g].at = where]

\* What a waiter releases first when it is cancelled: it has no slot.
OnCancel == "unparking"

\* A parked executor gets a slot, and keeps its parking place while it runs.
GetSlot(g) ==
    /\ exec[g].at = "waiting"
    /\ slots < MaxInFlight
    /\ slots' = slots + 1
    /\ GoTo(g, "running")
    /\ UNCHANGED <<store, handlers, queue, sweep, loop, parked, marks, phase>>

\* ctx.Done while it waits.
GiveUp(g) ==
    /\ exec[g].at = "waiting"
    /\ phase = "stopping"
    /\ GoTo(g, OnCancel)
    /\ UNCHANGED <<store, handlers, queue, sweep, loop, pool, phase>>

\* Run returns, having settled the row ...
RunSettles(g) ==
    /\ exec[g].at = "running"
    /\ settled' = settled \union {exec[g].id}
    /\ GoTo(g, "ending")
    /\ UNCHANGED <<created, handlers, queue, sweep, loop, pool, phase>>

\* ... or without: the lease is held, the work is deferred, the context is
\* cancelled or the store is busy.
RunLeaves(g) ==
    /\ exec[g].at = "running"
    /\ GoTo(g, "ending")
    /\ UNCHANGED <<store, handlers, queue, sweep, loop, pool, phase>>

\* The deferred calls of execute, in their order: the slot, the parking place
\* if it has one, the mark (and wg.Done, which only Stop looks at).
FreeSlot(g) ==
    /\ exec[g].at = "ending"
    /\ slots' = slots - 1
    /\ GoTo(g, IF exec[g].wasParked THEN "unparking" ELSE "unmarking")
    /\ UNCHANGED <<store, handlers, queue, sweep, loop, parked, marks, phase>>

Unpark(g) ==
    /\ exec[g].at = "unparking"
    /\ parked' = parked - 1
    /\ GoTo(g, "unmarking")
    /\ UNCHANGED <<store, handlers, queue, sweep, loop, slots, marks, phase>>

Unmark(g) ==
    /\ exec[g].at = "unmarking"
    /\ inFlight' = inFlight \ {exec[g].id}
    /\ wg' = wg - 1
    /\ exec' = [exec EXCEPT ![g] = NoExec]
    /\ UNCHANGED <<store, handlers, queue, sweep, loop, slots, parked, phase>>

-----------------------------------------------------------------------------

Stop ==
    /\ phase = "up"
    /\ phase' = "stopping"
    /\ UNCHANGED <<store, handlers, queue, sweep, loop, exec, pool>>

\* <-s.done, then s.wg.Wait().
Joined == loop.at = "returned" /\ wg = 0

StopReturns ==
    /\ phase = "stopping"
    /\ Joined
    /\ phase' = "stopped"
    /\ UNCHANGED <<store, handlers, queue, sweep, loop, exec, pool>>

LoopStep ==
    \/ BeginSweep("ticker") \/ SweepOne("ticker") \/ EndSweep("ticker")
    \/ Take \/ TakeSlot \/ Park \/ LoopReturns

ExecStep(g) ==
    \/ GetSlot(g) \/ GiveUp(g) \/ RunSettles(g) \/ RunLeaves(g)
    \/ FreeSlot(g) \/ Unpark(g) \/ Unmark(g)

Next ==
    \/ \E id \in Id : Submit(id) \/ Dispatch(id) \/ SettleElsewhere(id)
    \/ BeginSweep("start") \/ SweepOne("start") \/ EndSweep("start")
    \/ LoopStep
    \/ \E g \in Goroutine : ExecStep(g)
    \/ Stop \/ StopReturns

Spec == Init /\ [][Next]_vars

\* Run on a pending row settles it if it is tried often enough: a lease held
\* elsewhere expires or its owner settles the row.
RunSettlesRow(id) == \E g \in Goroutine : exec[g].id = id /\ RunSettles(g)

\* Every goroutine is scheduled, and select picks every case that is ready
\* again and again.
Fairness ==
    /\ WF_vars(LoopStep) /\ SF_vars(Take) /\ SF_vars(BeginSweep("ticker"))
    /\ \A g \in Goroutine : WF_vars(ExecStep(g))
    /\ \A id \in Id : SF_vars(RunSettlesRow(id))

FairSpec == Spec /\ Fairness

-----------------------------------------------------------------------------

Executors(where) == {g \in Goroutine : exec[g].at \in where}

\* service.go: "A submission is never executed concurrently twice in one
\* process."  Duplicates reach the loop from a dispatch, from either sweep and
\* from a sweep that listed the row before it was marked.
NeverTwiceInProcess ==
    \A g, h \in Executors({"waiting", "running"}) :
        exec[g].id = exec[h].id => g = h

\* service.go: "At most Config.MaxInFlight submissions execute concurrently;
\* at most MaxInFlight more wait for a slot in the bounded parking set."  The
\* channel tokens are exactly those of the goroutines that hold them, and a mark
\* and a count of the wait group are held exactly while the loop or an executor
\* works on an ID: nothing is given back twice and nothing is lost by any way out
\* of execute.  A mark left behind would hide the submission from every later
\* sweep of the process, a count left behind would hang Stop.
AllAccountedFor ==
    /\ slots = Cardinality(Executors({"running", "ending"}))
    /\ parked = Cardinality({g \in Executors(ExecAt \ {"none", "unmarking"}) :
                               exec[g].wasParked})
    /\ inFlight = {exec[g].id : g \in Executors(ExecAt \ {"none"})}
                  \union (IF loop.at \in {"marked", "full"} THEN {loop.id} ELSE {})
    /\ wg = Cardinality(inFlight)

\* service.go: "Stop cancels the loop and in-flight execution and waits for
\* shutdown."  Nothing of the service runs once Stop has returned.
StopJoinsAll ==
    phase = "stopped" =>
        /\ loop.at = "returned"
        /\ Executors(ExecAt \ {"none"}) = {}
        /\ slots = 0 /\ parked = 0 /\ inFlight = {}

\* service.go: "a saturated queue never loses work": a submission accepted
\* while the service stays up settles, although its dispatch may be dropped by
\* a full queue, or a full pool and parking set, any number of times.
NoWorkIsLost ==
    \A id \in Id :
        id \in ToSet(created) ~> (id \in settled \/ phase # "up")
=============================================================================
