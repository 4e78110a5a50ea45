---------------------------- MODULE InputDelivery ----------------------------
(***************************************************************************)
(* internal/application/task_input.go over internal/store/input.go: awaits, *)
(* in any number of processes, that answer the input requests of one       *)
(* upstream task.  An await takes the delivery lease, records its answers, *)
(* sends the ones that are not delivered yet with one tasks/update, and    *)
(* marks them.  The runner of the task (TaskRunner, here one poll loop)    *)
(* replaces the outstanding set under the same lease.                      *)
(*                                                                         *)
(* An await that does not get the lease within its deadline returns        *)
(* without having changed anything, so it is not part of the model until   *)
(* it has it.  Its owner name is fresh; a name no lease row carries any    *)
(* more may be used again.                                                 *)
(***************************************************************************)
EXTENDS LeaseTable, FiniteSetsExt

CONSTANTS Await,     \* awaits that deliver, by their lease owner
          Runner,    \* the lease owner of the runner's snapshot writes
          Request,   \* input-request IDs; the code handles them in order
          Value,     \* canonical answers
          NoValue,   \* no answer
          Input,     \* what an await may bring: an answer or none per request
          MaxFaults  \* bound on the faults of a behaviour

ASSUME InputAssumption ==
    /\ NoOwner \notin Await \union {Runner} /\ Runner \notin Await
    /\ Request \subseteq Nat /\ NoValue \notin Value /\ MaxFaults \in Nat
    /\ Input \subseteq [Request -> Value \union {NoValue}]

VARIABLES row,        \* the submission: its state and outstanding requests
          responses,  \* the input_responses table: the recorded answers ...
          sent,       \* ... and which of them have a sent_at
          delivery,   \* the lease "input-delivery/<id>"
          up,         \* the upstream task: what it asks, what it was given
          call,       \* each await
          runner,     \* the runner, with the snapshot in hand
          stalled,    \* history: a lease expired under a holder at work
          faults

vars == <<row, responses, sent, delivery, up, call, runner, stalled, faults>>

\* Where an await is while its renewal goroutine runs.
Working == {"loading", "reading", "recording", "checking", "rereading",
            "rechecking", "gating", "sending", "sent", "committing", "marking"}

Idle == [at |-> "idle", input |-> [r \in Request |-> NoValue], live |-> {},
         todo |-> {}, pending |-> {}, gen |-> 0, lost |-> FALSE]

RunnerIdle == [at |-> "idle", status |-> "running", asks |-> {}]

Status == {"running", "input_required", "ended"}

TypeOK ==
    /\ row \in [status : Status, outstanding : SUBSET Request]
    /\ responses \in [Request -> Value \union {NoValue}]
    /\ sent \subseteq Request
    /\ delivery \in LeaseRow(Await \union {Runner})
    /\ up \in [status : Status, asks : SUBSET Request, asked : SUBSET Request,
               got : [Request -> SUBSET Value]]
    /\ call \in [Await -> [at : Working \union {"idle", "releasing"},
                           input : [Request -> Value \union {NoValue}],
                           live : SUBSET Request, todo : SUBSET Request,
                           pending : SUBSET Request, gen : Nat, lost : BOOLEAN]]
    /\ runner \in [at : {"idle", "fetched", "observing", "settling", "freeing"},
                   status : Status, asks : SUBSET Request]
    /\ stalled \in BOOLEAN /\ faults \in 0..MaxFaults

Init ==
    /\ row = [status |-> "running", outstanding |-> {}]
    /\ responses = [r \in Request |-> NoValue] /\ sent = {}
    /\ delivery = NoLease
    /\ up = [status |-> "running", asks |-> {}, asked |-> {},
             got |-> [r \in Request |-> {}]]
    /\ call = [a \in Await |-> Idle]
    /\ runner = RunnerIdle
    /\ stalled = FALSE /\ faults = 0

Fault == faults < MaxFaults /\ faults' = faults + 1

table == <<responses, sent>>
rest  == <<stalled, faults>>

Answered(input) == {r \in Request : input[r] # NoValue}

\* The await moves on, with what it has learned.
Go(a, next) == call' = [call EXCEPT ![a] = next]

Done == [Idle EXCEPT !.at = "releasing"]

\* What is still needed of the answers.
Keep(input, needed) == [r \in Request |-> IF r \in needed THEN input[r] ELSE NoValue]

\* After one request of the loop: the next one, or what follows the loop.
Onward(c, pending) ==
    LET todo == c.todo \ {Min(c.todo)} IN
    IF todo \union pending = {} THEN Done
    ELSE [c EXCEPT !.at = IF todo = {} THEN "rereading" ELSE "reading",
                   !.input = Keep(@, todo \union pending), !.live = @ \cap todo,
                   !.todo = todo, !.pending = pending]

-----------------------------------------------------------------------------
\* applyInputResponses and deliverInput

\* claimInputDelivery
Claim(a, input) ==
    /\ call[a].at = "idle" /\ delivery.owner # a
    /\ Answered(input) # {}
    /\ Claimable(delivery, a)
    /\ delivery' = ClaimLease(delivery, a, 0)
    /\ Go(a, [Idle EXCEPT !.at = "loading", !.input = input, !.todo = Answered(input)])
    /\ UNCHANGED <<row, table, up, runner, rest>>

\* GetSubmission: which requests are live.
Load(a) ==
    /\ call[a].at = "loading"
    /\ Go(a, [call[a] EXCEPT !.at = "reading",
                !.live = IF row.status = "input_required" THEN row.outstanding ELSE {}])
    /\ UNCHANGED <<row, table, delivery, up, runner, rest>>

\* Mutated forms: a recorded answer is not sent again; the value of a lost race
\* is taken for one's own; the answer of a failed update is marked.
SendOnlyFresh(c, r, live)  == FALSE
RecordUnseen(c, r)         == "checking"
AfterLossMarking           == "committing"

\* Whether an answer that is already recorded may still have to be sent.
MayResend(c, r, live) == live

\* GetInputResponse: another answer is a conflict; an answer that is neither
\* recorded nor asked for is refused.
Read(a) ==
    /\ call[a].at = "reading"
    /\ LET c == call[a]
           r == Min(c.todo)
           live == r \in c.live
       IN Go(a, IF responses[r] = NoValue
                THEN IF live THEN [c EXCEPT !.at = "recording"] ELSE Done
                ELSE IF responses[r] # c.input[r] THEN Done
                ELSE IF MayResend(c, r, live) THEN [c EXCEPT !.at = "checking"]
                ELSE Onward(c, c.pending))
    /\ UNCHANGED <<row, table, delivery, up, runner, rest>>

\* What SetInputResponse answers when the row exists already.
RecordedBefore(c, r) == IF responses[r] = c.input[r] THEN "checking" ELSE "conflict"

\* SetInputResponse: the first answer wins.
Record(a) ==
    /\ call[a].at = "recording"
    /\ LET c == call[a]
           r == Min(c.todo)
       IN IF responses[r] = NoValue
          THEN /\ responses' = [responses EXCEPT ![r] = c.input[r]]
               /\ Go(a, [c EXCEPT !.at = "checking"])
          ELSE /\ UNCHANGED responses
               /\ Go(a, IF RecordedBefore(c, r) = "conflict" THEN Done
                        ELSE [c EXCEPT !.at = "checking"])
    /\ UNCHANGED <<row, sent, delivery, up, runner, rest>>

\* InputResponsePending
Check(a) ==
    /\ call[a].at = "checking"
    /\ LET c == call[a]
           r == Min(c.todo)
       IN Go(a, Onward(c, IF r \in sent THEN c.pending ELSE c.pending \union {r}))
    /\ UNCHANGED <<row, table, delivery, up, runner, rest>>

\* pendingOutstanding reads the row again, and then the marks.
Reread(a) ==
    /\ call[a].at = "rereading"
    /\ Go(a, IF row.status = "input_required"
             THEN [call[a] EXCEPT !.at = "rechecking", !.pending = @ \cap row.outstanding]
             ELSE Done)
    /\ UNCHANGED <<row, table, delivery, up, runner, rest>>

Recheck(a) ==
    /\ call[a].at = "rechecking"
    /\ LET left == call[a].pending \ sent IN
       Go(a, IF left = {} THEN Done
             ELSE [call[a] EXCEPT !.at = "gating", !.pending = left])
    /\ UNCHANGED <<row, table, delivery, up, runner, rest>>

\* LeaseGeneration
Gate(a) ==
    /\ call[a].at = "gating"
    /\ Go(a, IF Live(delivery, a)
             THEN [call[a] EXCEPT !.at = "sending", !.gen = delivery.gen]
             ELSE Done)
    /\ UNCHANGED <<row, table, delivery, up, runner, rest>>

\* tasks/update reaches upstream, which takes what it has asked for; a task
\* that is over refuses.
Send(a) ==
    /\ call[a].at = "sending"
    /\ LET given == call[a].pending
           asks == up.asks \ given
       IN IF up.status = "ended"
          THEN Go(a, Done) /\ UNCHANGED up
          ELSE /\ Go(a, [call[a] EXCEPT !.at = "sent", !.input = Keep(@, {})])
               /\ up' = [up EXCEPT
                    !.asks = asks,
                    !.status = IF asks = {} THEN "running" ELSE @,
                    !.got = [r \in Request |-> IF r \in given
                               THEN @[r] \union {call[a].input[r]} ELSE @[r]]]
    /\ UNCHANGED <<row, table, delivery, runner, rest>>

\* The acknowledgement arrives.
Acknowledged(a) ==
    /\ call[a].at = "sent"
    /\ Go(a, [call[a] EXCEPT !.at = "committing"])
    /\ UNCHANGED <<row, table, delivery, up, runner, rest>>

\* Where an update that was not acknowledged leads.
AfterLoss == "releasing"

\* No connection, or the request or its answer is lost.
Lose(a) ==
    /\ call[a].at \in {"sending", "sent"}
    /\ Fault
    /\ Go(a, IF AfterLoss = "releasing" THEN Done
             ELSE [call[a] EXCEPT !.at = AfterLoss])
    /\ UNCHANGED <<row, table, delivery, up, runner, stalled>>

\* The renewal goroutine has given up: it cancels the update.
CancelUpdate(a) ==
    /\ call[a].at \in {"sending", "sent"} /\ call[a].lost
    /\ Go(a, Done)
    /\ UNCHANGED <<row, table, delivery, up, runner, rest>>

\* recordDeliveredInput: the gate, then one update per answer.
Commit(a) ==
    /\ call[a].at = "committing"
    /\ \E wait \in {0, 1} :
         Go(a, IF CommitLease(delivery, a, call[a].gen, wait)
               THEN [call[a] EXCEPT !.at = "marking"] ELSE Done)
    /\ UNCHANGED <<row, table, delivery, up, runner, rest>>

Mark(a) ==
    /\ call[a].at = "marking"
    /\ LET r == Min(call[a].pending) IN
       /\ sent' = sent \union {r}
       /\ Go(a, IF call[a].pending = {r} THEN Done
                ELSE [call[a] EXCEPT !.pending = @ \ {r}])
    /\ UNCHANGED <<row, responses, delivery, up, runner, rest>>

Release(a) ==
    /\ call[a].at = "releasing"
    /\ delivery' = ReleaseLease(delivery, a)
    /\ Go(a, Idle)
    /\ UNCHANGED <<row, table, up, runner, rest>>

\* renewInputDelivery ends at the first renewal that is refused ...
Renew(a) ==
    /\ call[a].at \in Working /\ ~ call[a].lost
    /\ \/ Renewable(delivery, a, 0) /\ delivery' = RenewLease(delivery, 0) /\ UNCHANGED call
       \/ /\ ~ Renewable(delivery, a, 0)
          /\ Go(a, [call[a] EXCEPT !.lost = TRUE])
          /\ UNCHANGED delivery
    /\ UNCHANGED <<row, table, up, runner, rest>>

\* ... or fails; any other store call that fails ends the await.
StoreBusy(a) ==
    /\ call[a].at \in Working
    /\ Fault
    /\ \/ call[a].at \notin {"sending", "sent"} /\ Go(a, Done)
       \/ ~ call[a].lost /\ Go(a, [call[a] EXCEPT !.lost = TRUE])
    /\ UNCHANGED <<row, table, delivery, up, runner, stalled>>

\* The process dies, or the release fails: the lease row stays.
Crash(a) ==
    /\ call[a].at # "idle"
    /\ Fault
    /\ Go(a, Idle)
    /\ UNCHANGED <<row, table, delivery, up, runner, stalled>>

-----------------------------------------------------------------------------
\* The runner's snapshots (apply), one at a time and in order

Fetch ==
    /\ runner.at = "idle" /\ row.status # "ended"
    /\ runner' = [at |-> "fetched", status |-> up.status, asks |-> up.asks]
    /\ UNCHANGED <<row, table, delivery, up, call, rest>>

\* Mutated form: a snapshot does not wait for the delivery.
SnapshotAnyway == TRUE

\* claimInputDeliveryOnce, with a fresh owner: an await's delivery, or a row
\* that a crash left behind, defers the snapshot.
SnapshotMay == delivery.owner = NoOwner \/ delivery.left = 0

ClaimSnapshot ==
    /\ runner.at = "fetched"
    /\ \/ /\ SnapshotMay
          /\ delivery' = IF Claimable(delivery, Runner)
                         THEN ClaimLease(delivery, Runner, 0) ELSE delivery
          /\ runner' = [runner EXCEPT !.at = "observing"]
       \/ ~ SnapshotMay /\ runner' = RunnerIdle /\ UNCHANGED delivery
    /\ UNCHANGED <<row, table, up, call, rest>>

\* SaveTaskRecordLeased replaces the outstanding set; the state follows in a
\* transaction of its own.
Observe ==
    /\ runner.at = "observing"
    /\ row' = [row EXCEPT !.outstanding = runner.asks]
    /\ runner' = [runner EXCEPT !.at = "settling"]
    /\ UNCHANGED <<table, delivery, up, call, rest>>

Settle ==
    /\ runner.at = "settling"
    /\ row' = [row EXCEPT !.status = runner.status]
    /\ runner' = [RunnerIdle EXCEPT !.at = "freeing"]
    /\ UNCHANGED <<table, delivery, up, call, rest>>

Free ==
    /\ runner.at = "freeing"
    /\ delivery' = ReleaseLease(delivery, Runner)
    /\ runner' = RunnerIdle
    /\ UNCHANGED <<row, table, up, call, rest>>

RunnerCrash ==
    /\ runner.at # "idle"
    /\ Fault
    /\ runner' = RunnerIdle
    /\ UNCHANGED <<row, table, delivery, up, call, stalled>>

-----------------------------------------------------------------------------
\* Time and the upstream task

AtWork(owner) ==
    IF owner = Runner THEN runner.at \in {"observing", "settling", "freeing"}
    ELSE owner \in Await /\ call[owner].at # "idle"

Lapse ==
    /\ delivery.left > 0
    /\ delivery' = Elapse(delivery)
    /\ IF delivery.left = 1 /\ AtWork(delivery.owner)
       THEN Fault /\ stalled' = TRUE ELSE UNCHANGED rest
    /\ UNCHANGED <<row, table, up, call, runner>>

\* A request ID is asked once.
Ask(asks) ==
    /\ up.status # "ended"
    /\ asks # {} /\ asks \cap up.asked = {}
    /\ up' = [up EXCEPT !.status = "input_required", !.asks = @ \union asks,
                        !.asked = @ \union asks]
    /\ UNCHANGED <<row, table, delivery, call, runner, rest>>

End ==
    /\ up.status # "ended"
    /\ up' = [up EXCEPT !.status = "ended", !.asks = {}]
    /\ UNCHANGED <<row, table, delivery, call, runner, rest>>

-----------------------------------------------------------------------------

Work(a) ==
    \/ Load(a) \/ Read(a) \/ Record(a) \/ Check(a) \/ Reread(a) \/ Recheck(a)
    \/ Gate(a) \/ Send(a) \/ Acknowledged(a) \/ Commit(a) \/ Mark(a) \/ Release(a)

RunnerStep == Fetch \/ ClaimSnapshot \/ Observe \/ Settle \/ Free

Awaits == \E a \in Await, input \in Input : Claim(a, input)

Next ==
    \/ Awaits
    \/ \E a \in Await :
          Work(a) \/ Renew(a) \/ Lose(a) \/ CancelUpdate(a) \/ StoreBusy(a) \/ Crash(a)
    \/ RunnerStep \/ RunnerCrash \/ Lapse \/ End
    \/ \E asks \in SUBSET Request : Ask(asks)

Spec == Init /\ [][Next]_vars

\* The client answers a request it is shown, and repeats the recorded answer
\* until an await has delivered it.
Retry(r) ==
    /\ row.status = "input_required" /\ r \in row.outstanding \ sent
    /\ \E a \in Await, input \in Input :
          /\ Answered(input) = {r}
          /\ responses[r] \in {input[r], NoValue}
          /\ Claim(a, input)

\* Every goroutine is scheduled, an abandoned lease expires, and the client
\* keeps answering what it is asked.  It answers what it is not asked only
\* finitely often: such awaits could keep the runner from the lease.
FairSpec ==
    /\ Spec
    /\ \A a \in Await : WF_vars(Work(a)) /\ WF_vars(Renew(a))
    /\ WF_vars(RunnerStep)
    /\ WF_vars(Lapse /\ UNCHANGED faults)
    /\ \A r \in Request : SF_vars(Retry(r))
    /\ <>[][Awaits => \E r \in Request : Retry(r)]_vars

-----------------------------------------------------------------------------

\* store/input.go: "the loser can reconcile against the durable winner instead
\* of silently assuming its value won".  Whatever races, whatever is upstream's
\* answer to a request is the recorded one, and there is only one.
AnswersAgree == \A r \in Request : up.got[r] \subseteq {responses[r]}

\* An answer is marked as sent only if upstream has it: a lost update is never
\* taken for a delivered one.
MarkedWasDelivered == \A r \in sent : up.got[r] # {}

\* task_input.go: "Only still-pending outstanding IDs are sent", "The caller
\* holds the delivery lease, so a task snapshot cannot replace that set until
\* the update finishes".  As long as no holder of the delivery lease has
\* stalled past it, an update carries only answers that the row still asks for
\* and that no other await has delivered.
SendsOutstandingOnly ==
    [][\A a \in Await :
          Send(a) /\ ~ stalled =>
              /\ row.status = "input_required"
              /\ call[a].pending \subseteq row.outstanding \ sent]_vars

\* A request for input is answered in the end, although an await may record an
\* answer and die, or lose the update, before anything is delivered.
NothingUnanswered ==
    \A r \in Request : r \in up.asks ~> r \notin up.asks
=============================================================================
