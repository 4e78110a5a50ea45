# A TLA+ model of Tama Link

Tama Link is a local proxy that offers two MCP tools, `submit` and `await`, in
front of a Tama server. `submit` accepts an operation durably and returns; the
work is done in the background by the process that accepted it or by any other
process of the same profile; `await` reports on it. Several processes share
one profile: a SQLite database (submissions, idempotency index, leases, input
responses, credential fence) and slots in the operating system's keyring.

There is no coordinator. Everything that has to be exclusive is made so by
rows of the `leases` table with deadlines, everything that has to be atomic by
a SQLite transaction begun IMMEDIATE, and everything that was lost is found
again by a sweep. Those are the decisions this project checks.

## Inventory

| Part | State | Operations | Interacts with |
|---|---|---|---|
| `internal/submission` | none | the legal moves of a submission | every writer of the store |
| `internal/store/lease*.go` | `leases` rows: owner, deadline, generation | claim, renew, read generation, commit gate, release | worker, task runner, input delivery, OAuth, repair |
| `internal/store` submissions | `submissions` rows | create, leased transition, leased capture, task record, list, two retention sweeps | submit, await, both runners, `serve`'s ticker |
| `internal/store` idempotency | `idempotency` rows | claim a key with the row, reconcile, delete with the row | submit, retention |
| `internal/worker/runner.go` | one invocation: its lease nonce and position | claim, prepare, renew, execute, publish, release | store; the upstream server |
| `internal/worker/service.go` | queue, pool, parking set, in-flight marks, wait group | dispatch, sweep, loop, execute, stop | submit, runner, store |
| `internal/application/submit.go` | one call | look up, check, create, reconcile, dispatch | store, dispatch pipeline |
| `internal/application/task_*.go` | one invocation, its poll loop and its watcher | open, attach, observe, apply, fail, renew | store, upstream tasks, awaits (delivery lease) |
| `internal/application/task_input.go`, `store/input.go` | `input_responses` rows, delivery lease | record, send, mark | task runner, upstream |
| `internal/application/await.go`, `store/event.go` | event log and sequence | long poll, cursor, append | both runners |
| `internal/oauth`, `store/fence.go` | keyring slots, fence pointer, retirement list, client record | refresh, register, log in, log out, retire | every process of the profile |
| `internal/login` | the login lease, a loopback listener, one attempt | claim, discover, bind, register, hand off, wait, exchange | OAuth, the user's browser |
| `internal/bootstrap`, `internal/profile` | journal, published profile file, database file and its lease | create, finish, publish, recover, discard | login, OAuth, the state database |
| `internal/repair`, `credential/secretservice` | items of the keyring's collections | read identity, plan, recheck, copy, verify | OAuth writers (credential lease), the state database |
| `internal/catalog`, `internal/adapter`, `internal/upstream` | none that is durable | discovery, schemas, HTTP | runners |
| `internal/credential` | keyring | get, set, delete, state key | OAuth, bootstrap, opening the store |
| `internal/store` opening | database file, write lock, `meta`, state key | pin, initialize or validate, read key, seal, close | keyring, every process |

What is hard here, and what each part must guarantee:

- *Time.* A lease expires under an owner that stalls; the store reads the clock
  before it waits for the write lock. A lease must be exclusive while it lives,
  and whoever lost one must not write.
- *Crashes.* A process dies between any two transactions, and in the middle of
  an upstream call. Recovery must tell work that was not sent from work that may
  have been, must never repeat a call that may not be repeated, and must finish
  the rest.
- *Several writers of one row.* Two goroutines of one run, a stale run, a new
  run, an await and the retention sweep all write the same submission. Late
  answers must not overwrite newer ones; a captured outcome must be whole and
  must not change.
- *Limits.* A full queue, pool or parking set drops work from memory. It must
  not be lost, executed twice, or keep Stop from returning.
- *Two stores that do not commit together.* Keyring, database and files of the
  profile are written one after the other. Whatever comes between two writes, a
  secret must stay findable, a grant must belong to the stored client, a profile
  must have its key and its credential, and what the user removed must stay gone.
- *Retries.* A client repeats a request, in another process, under a profile
  whose bindings have changed, while the first is being deleted. It must be told
  about its own submission and no other.

`PROJECT.json` lists the hazards at their lines, with the properties that cover
them.

## Modules

```
Lifecycle     LeaseTable
    \        /    |    \
 SubmissionStore  |   Leases
       |          |
 ReplayWorker     +--- TaskRunner --- TaskRunnerProofs
    |     \       +--- InputDelivery --- InputDeliveryProofs
    |      \      +--- CredentialFence --- CredentialFenceProofs
    |       \     +--- Bootstrap --- BootstrapProofs
    |        \    +--- Repair
    |         \   +--- Login
    |      SubmissionContract (refinement mapping)
 ReplayWorkerProofs

 Dispatch --- DispatchProofs    Idempotency --- IdempotencyProofs
 Progress    StateOpen

 MCParts: Leases | Repair | Login | Progress | StateOpen --- PartsProofs
```

**Lifecycle** is `internal/submission`: states and legal moves.

**LeaseTable** is one row of the `leases` table and the statements of
`store/lease.go`. A deadline is kept as the time left. Claim and renewal take
`wait`, the time between reading the clock and getting the write lock, because
the new deadline is that old when it is written; the CommitLease gate takes it
too, and so may pass a row that expired while it waited, if nobody claimed it. The
fence's commit reads the clock under the lock (`HoldsEpoch`). Release deletes the
row, and with it the generation.

**Leases** is the protocol of a lease client as `internal/oauth` follows it
(claim, read the generation, renew, pass the gate, write, release), with stalls
and crashes anywhere. Gate and write are two steps, with the clock, renewals and
other owners' claims in between; a lease found lost in that window ends the
operation, or leaves it `adrift`, to write all the same, where the write takes no
context. `overtaken` and `age` are history variables: another owner was granted a
claim since this operation did, and how long ago it read the clock for its last
claim or renewal.

**SubmissionStore** is the two tables a worker writes. Every operation of the
store is one transaction and so one step; an operator here is its guard or its
new row. Retention deadlines count down like leases.

**SubmissionContract** is what a client is promised: a submission is pending
until it settles on one outcome, which stays until retention makes a tombstone
of it, which stays until it is gone.

**ReplayWorker** is `worker/runner.go` over SubmissionStore. An invocation is
one call of Run with its own nonce; which process it belongs to does not matter
to the store. `prepare` is four actions (Load, Queue, Start, Confirm) because
it makes four store calls; the renewal goroutine interleaves with all of them.
A statement that waits for the lock, a stall past a lease, a crash, a cancelled
context, a failing release and a deferred execution are counted in `faults`.
`latest` is a history variable: who took the lease last.

**Dispatch** is `worker/service.go`: the loop, the executors, the two sweeps,
the submit handlers and Stop interleave between any two operations on a
channel, on the in-flight map or on the store. Run is one step here, which
settles the row or leaves it. It starts from any store an earlier process may
have left. `application/task_service.go` repeats the same pipeline for App tasks,
so the module stands for both files and the map names the one or the other.

**Idempotency** is `Submit` over the index. The thread ID of a request is part
of its recorded identity only if the accepting profile maps it, which is chosen
per acceptance: the processes may have different profiles. Validation is one
nondeterministic rejection, which is what matters to the key.

**TaskRunner** is `application/task_*.go` for one submission. An invocation has
a position in Run and two goroutines with a snapshot in hand. `apply` is split
at its store calls (Begin, ClaimDelivery, Observe, Settle, Free) and runs under
the mutex of its invocation. The upstream task is external: it works, asks for
input and ends; its stamps have a precision of a second, so a change may keep
the stamp. The task of a call that is proven idempotent is the same task when
the call is repeated; one that is not gets a second one. A snapshot without a
result or without a failure cannot reach `apply` (the adapter refuses it), so
those branches are left out. An await is reduced to holding the delivery lease.

**InputDelivery** is `application/task_input.go` over `store/input.go` for one
upstream task. An await is a goroutine of any process: it enters the model when
it gets the delivery lease, and each of its store calls and both ends of its
`tasks/update` are actions, with the renewal goroutine that cancels the update
interleaved. An answer is recorded, then sent, then marked, and any await may
stop after each. The runner is one loop of TaskRunner that fetches a snapshot,
defers it to a delivery in progress, and replaces the outstanding set and the
state in two steps. Its own submission lease is not modelled here: there is one
runner. Upstream asks an ID once, takes what it is given and may end at any time.
`stalled` is a history variable: a delivery lease expired under a holder at work.

**CredentialFence** is `internal/oauth` over `store/fence.go`. A process has one
call at a time (`refreshMu`): a refresh, a login (register, then exchange a
code) or a logout, each split at its keyring, database and network operations.
Slot 0 of a kind is the label of credentials older than the fence. Grants are
numbers; upstream remembers the client a valid one was issued to, and a refresh
spends one grant and gets the next. Labels, grants and clients that nothing
refers to are used again, so the bounds limit what is in use at once and not the
length of a behaviour. `stalled`, `leaked` and `adopted` are history variables;
`adopted` says that after a stall a refresh replaced the legacy grant.

**Bootstrap** is `internal/bootstrap` with `profile/publish.go`: logins that
create, resume or discard one profile. The database file has an identity, as a
session goes on using the file it opened when the path is removed. Authorization
is one step, which leaves a credential in the file; its protocol is
CredentialFence. What is done under the publication lock excludes the others;
saving the journal is not, and may fail. `overrun` is a history variable: a process
without its lease saved its journal, or went on to remove database and journal.

**Repair** is `internal/repair` with the migration of
`credential/secretservice`. A key of the default collection holds a sequence of
items, because a copy never replaces one. The OAuth writer is CredentialFence
reduced to what it does to the collection and to the fence; it starts when the
state key can be read, since no process opens the profile before. The plan, which
takes one D-Bus read per item, is one step: it is read before the lease, and what
it misses is what `Recheck` finds later.

**Login** is `internal/login`: attempts of several processes, the listener, the
requests being served and the browser's tabs, which answer at any time, any
number of times, where their redirect points. The port of a stored registration
is bound again, which is what lets an old tab reach a new attempt.

**Progress** is `store/event.go` and `application/await.go` for one submission:
runners that append with the sequence number they last read, trimming at both
bounds, the retention sweep, and a client that passes on its cursor. Events
carry their size and their author.

**StateOpen** is `store.Open`: pinning or creating the file, the initialization
under SQLite's write lock, the state key in the keyring, and stores that seal
with it. SQLite may lose its last commits in a power loss (`synchronous=NORMAL`),
the keyring keeps what it was given.

**MCParts** checks five components that share no state in one run: a behaviour
is one of a single component, and a property speaks of its own.

The mutated forms in the modules (`ClaimableOneEarly`, `DropKeepingMark`, ...)
are not part of the model: each is a plausible mistake in the operator that
follows it, and shows that the property named for it in `PROJECT.json` can fail.

## Runs

| Run | Instance | Shows |
|---|---|---|
| `replay` | 1 submission, 2 invocations, TTL 2, 3 faults | `RunningBeforeExecute`, `CapturedWhole`, `NoStalePublish`, `KeepsContract`, `EventuallySettles` |
| `replay_overlap` | the same, 2 faults | a violation of `NeverExecutedTwiceAtOnce` |
| `dispatch` | 2 submissions, queue, pool and parking set of 1, one row left behind by an earlier process | `NeverTwiceInProcess`, `AllAccountedFor`, `StopJoinsAll`, `NoWorkIsLost` |
| `idempotency` | 2 calls, 2 keys, 2 argument values, 2 thread IDs, 2 submission IDs, symmetry | `IndexMatchesRows`, `ReportsOwnSubmission`, `ExactRetryNeverConflicts` |
| `task` | 2 invocations, call not repeatable, two ways to end (a result, one too large to keep), stamps to 2, 1 fault, symmetry | `NoDuplicateCall`, `TruthfulOutcome`, `SettledByLeaseHolder`, `ObservationsInOrder` |
| `task_live` | 1 invocation at a time, call repeatable, two ways to end, 2 faults | `EndsHere`, `InputIsRequested` |
| `input` | 3 awaits, 1 request with 2 possible answers, TTL 1, 1 fault | `AnswersAgree`, `MarkedWasDelivered`, `SendsOutstandingOnly`, `NothingUnanswered` |
| `credential` | 2 processes, 3 slots, 3 grants and 2 clients in use at once, fence generations to 2, 1 fault, symmetry | `GrantMatchesClient`, `NothingStranded`, `LogoutLeavesNothing`, `NoSpentGrant`, `SingleRegistration`, `NoResurrection` |
| `bootstrap` | 3 processes, 4 journals and 4 database files in use at once, 1 fault, symmetry | `PublishedHasCredential`, `Recoverable`, `DiscardIsFinal` |
| `bootstrap_cleanup` | 2 processes, 2 journals, 2 database files, TTL 1, 1 fault | a violation of `CleanupSparesOthers` |
| `parts`, leases | 3 owners, TTL 3, generations to 4 | `NoStaleCommit`, `OvertakenOutlivedLease` |
| `parts`, repair | 2 repairs, 1 writer, 3 slots, 1 fault | `KeyLast`, `NoSecondCopy`, `FailsForCause` |
| `parts`, login | 2 processes, 2 ports, 2 attempts, 2 requests at once, 1 fault | `OneOwnCode`, `RegistrationServes` |
| `parts`, progress | 2 runners, log of 2 events and 6 bytes, sizes below, at and above the limits, 4 sequence numbers | `FollowsTheLog` |
| `parts`, open | 2 openers, 2 files, 3 keys, 3 faults | `OneKey` |
| `task_unknown` | 2 invocations, call not repeatable, 1 fault | a violation of `UnknownOnlyIfCalled` |

The type invariants of the modules (`TypeOK`) document their state and are part
of the inductive invariants below; they are in no run.

`CHECK_DEADLOCK FALSE` stands where the modelled system may rest: a stopped
service, a bootstrap that is done, the bounded attempts, sequence numbers and
faults of `parts`.

### Why these bounds are enough for the cases of interest

Every property about leases needs a holder, a successor and, for a generation
that starts again after a release, a third owner: three owners and generations
to 4 contain a release, a new claim and a take-over. With TTL 3 a statement
waits for part of, almost all of, or all of a lease. `NoStaleCommit` is claimed of
the gate only: what it lets through may be overtaken before it writes, which the
fence commit (`HoldsEpoch`) and the checks under the publication lock
(`DiscardIsFinal`) are for. In `replay` two invocations
and three faults let the first stall, the second take over and crash, and the
first come back; `PayloadRetention` 1 and `TombstoneRetention` 2 let a row be
tombstoned, deleted and its ID used anew. In `dispatch` one slot and one parking
place are full with two submissions. In `idempotency` two calls race on one
key, or hold two. In `task` one fault is a stall past the lease, which is what a
second invocation needs to take over; stamps 1 and 2 give an older, an equal and
a newer snapshot. In `input` three awaits are the one that stalls, its successor
and one that comes too late, and their answers differ; one fault is a stall that
lets several be at work, a crash, a lost update or a busy store. The safety
properties, which are proved for any requests, also held with two of them, answered
alone or together, and two awaits (1.4 million states).

In `credential` two processes suffice for a holder of the lease and whoever takes
it over; three slots are the live one, the one being written and one awaiting
removal; one fault is a crash, a stall, a lost response or one failing operation
at any point. With two faults and three clients the same properties held (5.5
million states, too long for a regular run). In `bootstrap` three processes are
the one that stalls, the one that discards and the one that starts anew; two
faults were explored too (4.4 million states). In `parts` two repairs and a
writer are every pair the credential lease has to separate; two login attempts
are an old tab and a new listener (three attempts: 1.6 million states); a log of
two events overflows by number and by size; three openers with four faults also
keep `OneKey` (2.1 million states).

### Fairness

- `ReplayWorker!FairSpec`: weak fairness of each invocation's own steps (the Go
  scheduler, and the request timeout that makes an upstream call return); strong
  fairness of the sweep taking a runnable row (its ticker never stops) and of
  time. Faults are bounded: nothing is promised to a submission whose processes
  crash for ever.
- `Dispatch!FairSpec`: weak fairness of the loop and of each executor; strong
  fairness of the loop receiving from the queue and of its ticker case, because
  `select` chooses at random among the ready cases; strong fairness of Run
  settling a row it is given again and again, which is what `replay` shows.
- `TaskRunner!FairSpec`: weak fairness of each goroutine and of the renewal;
  strong fairness of the sweep; an abandoned lease expires; an await lets go of
  the delivery lease (it renews only while it works) and a client answers
  finitely often. Nothing is assumed of notifications: they are an optimization.

- `InputDelivery!FairSpec`: weak fairness of each await, of its renewal and of the
  runner; an abandoned lease expires; strong fairness of the client, which is
  told to repeat its await, answering a request it is shown and repeating the
  recorded answer until it is delivered. Answers to what is not asked come only
  finitely often, since such awaits could keep a snapshot from the lease.

### Findings

`replay_overlap`: the comment on `worker.Service` says that the lease keeps a
submission from being executed twice at once across processes. It keeps a second
*result* from being recorded; an owner that stalls past its lease is still
executing when the next one starts. For replayable operations this is harmless.

`task_unknown`: the specification reserves `outcome_unknown` for the ambiguous
result of a mutation. A task runner writes `running` before it connects, so one
failed connection leaves the row as a lost call would; the next invocation
records `outcome_unknown` for a call that was never made.

`bootstrap_cleanup`: the comment on `withPublicationLock` says that the lock keeps
cleanup from deleting state another process is starting to use. A login that
stalls past its lease is succeeded by another one, which resumes the same journal;
the first one's authorization then fails because its lease is lost, and
`afterAuthorizeFailure` takes the lock and removes the database and the journal,
without asking whose they are by now.

Further observations, which no run states as a violation:

- The delivery lease is checked before `tasks/update` and again after it, so two
  awaits send at once if the first stalls in between. `SendsOutstandingOnly`
  therefore speaks of holders that have not stalled; `AnswersAgree` shows that
  what the stalled one sends is the recorded answer all the same.
- `store/fence.go:11-14` says that a writer that loses its lease epoch can
  neither install nor remove another writer's object. A logout that stalls
  between reading the fence and deleting the slot it names (`token.go:236-240`)
  removes a slot that is still live for others, its epoch being over.
- `refreshLocked` reads the client record before it claims the lease and the
  grant after (`refresh.go:36`, `refresh.go:56`), and `ClearRefreshCredentialInvalidation`
  is not gated on the epoch. Three processes and two faults make a pair of them
  that does not match: a refresh commits and stalls before it clears the marker;
  a logout fails before it deletes the legacy grant; a login finds no readable
  grant and registers a new client; the stalled process clears the marker, so
  the legacy grant is readable again; and a refresh that looked up the old client
  before the logout exchanges that grant and commits its successor beside the new
  client. Proving `GrantMatchesClient` brought this out; the property excepts it
  by `adopted`, and the legacy grant itself after a stall.
- Discard does not compare the journal's ID any more than cleanup does, and
  `journal.save` takes no lock, so a process that lost its lease may bring back a
  journal that was discarded. The properties of `Bootstrap` except what it saves
  or cleans up (`overrun`); `bootstrap_cleanup` shows the cleanup.
- A repair reads the fence and its plan before it has the lease and never again:
  a stale plan may bring back a rotated slot or, after a logout, the labels of
  old credentials; an equal duplicate left by a stalled repair makes later ones
  fail with `ErrDuplicateItem`.
- A login may show the accept page although `Wait` then returns a timeout, since
  its `select` picks either; a lost login lease is noticed at the next renewal,
  so an attempt may still exchange its code.
- The notes that announce a terminal state are appended after the row is
  terminal, and so always refused; a note with a stale sequence number is
  dropped without a trace, and so is one within two bytes of the log's size.

## Proofs

The provers show, for every value of the constants:

- **ReplayWorkerProofs**: `TypeOK`, `LeaseNamesLatest` (the owner of a lease row
  is the invocation that took it last), `PastQueue` (an invocation beyond
  `starting` works on a row that is past `queued`) and `CapturedWhole` are
  inductive. `WriteAhead`, `AtomicCapture` and `Fencing` follow, and `Refinement`
  shows that every step of the worker pool, the retention sweep included, is a
  step or a stutter of SubmissionContract.
- **IdempotencyProofs**: `IndexMatchesRows` needs what each call has in hand
  (`InHand`) and that it is its own while retained (`OwnInHand`), since a call
  uses in a later step what it read in an earlier one. `OneSubmissionPerKey`,
  `NoForeignSubmission` and `RetrySafety` follow; the last two rest on the lemma
  that the recorded forms of two requests are equal only if the requests mean
  the same.

- **TaskRunnerProofs**: `NoDuplicateCall` is about a counter and says nothing of
  who may still raise it. The invariant adds that an unrepeatable call is made
  only by the invocation that moved the row to `running`, that there is at most
  one such (`OneOpener`), and that the row a lease holder loaded is as it loaded
  it (`LoadedRow`), which is where the lease comes in. `TruthfulOutcome` needs
  that a snapshot of an ended task stays true (`EndingIsFinal`) and that the
  handle is stored before it is followed (`HandleStored`), and, for a failure or an
  unknown outcome without a cause upstream, that the verdict an invocation brings goes
  back to a fault (`FaultsTold`), since without one it keeps its lease to the end and
  nobody else finds the row between its call and its handle (`Undisturbed`). `SnapshotsInOrder`
  needs that between the `newerObservation` check and the write nobody else
  writes a stamp: a stale invocation fails the gate, and the other goroutine of
  the same one is outside the mutex (`OneInApply`, `StampsAhead`).
- **DispatchProofs**: the counters of `AllAccountedFor` are cardinalities of sets
  of goroutines; the invariant adds that those sets are finite and that a mark
  has one owner (`OneOwner`), without which taking a mark off would count twice.
  `PoolIsBounded` is the limit that `service.go` states, from the channel
  capacities. A second invariant, `AcceptedInv`, follows the IDs from the row
  through queue, sweep, loop and executor: `OnlyAccepted` says that none of them
  ever has an ID without a row, since a submit handler dispatches after it has
  stored, and with the first one it gives the types (`DispatchTyped`). It rests on
  `RunnableFacts`: the list a sweep goes through is that of the pending rows.
- **InputDeliveryProofs**: what an await has in hand is a recorded answer
  (`AwaitsSound`), also after its lease expired, which gives `AnswersAgree` and
  `MarkedWasDelivered` without any assumption on stalls. `SendsOutstandingOnly`
  is about the lease: unless somebody stalled, whoever is at work holds it
  (`HoldsLease`), so what it read still holds (`ReadHolds`).
- **CredentialFenceProofs** proves all six properties of the component, for any
  number of processes and faults. `Core` holds whatever stalls: the lease row
  names a process only with the generation of its own claim (`Epochs`), so a
  holder is alone in moving a fence and may rely on what it read of it
  (`HolderView`); a call without the lease may rely on what is its own: the slot
  it wrote, its grant, and that a deleted legacy secret stays deleted (`Private`,
  `OwnSlot`). `NothingStranded`, `LogoutLeavesNothing` and `SingleRegistration`
  follow. The others need what holds while nobody stalled: whoever is at work
  holds the lease (`Serial`), the marker covers the legacy grant from before the
  fence is cleared until that grant is gone (`Masked`), and the grant on its way
  to the commit goes with the registered client (`HolderPaired`, with
  `ClientKnown`); and for `NoSpentGrant` what holds while nothing fails
  (`Undisturbed`). `Shape` is `TypeOK` without the bound on generations, which
  rests on counting the calls under way, and without the types of `leaked`.

- **BootstrapProofs**: the three properties speak of the profile, the path and the
  journal, and say nothing of the sessions that are about to write them. `InHand`
  says what an invocation has at each place, `Locking` that one at a time is in a
  section under the publication lock, `RowsAreOpen` that a lease row names a process
  only for the session it has open. `Fenced` holds until somebody without its lease
  cleans up or saves (`overrun`): a holder's file is the one at the path, a file is
  only removed while its row is the remover's or gone, and not once the profile is
  there, which gives `ProfileKeepsCredential`; and whoever is about to publish works
  for a journal that was not discarded, which gives `DiscardHolds`, about a step,
  from the same invariant. `Unlapsed` holds until somebody outlives its lease: who
  works in a session holds it, so no credential is cut off from the path and the
  journal (`CrashIsRecoverable`).
- **PartsProofs** has one section for each component of MCParts.
  *Leases*: an overtaken owner is not the row's owner (`OvertakenLost`), so the gate,
  which asks for the owner, fences (`GateFences`). Until a whole TTL has passed since
  its last claim or renewal the row is the operation's, and what is left of it covers
  the rest of that TTL (`Covered`); so nobody is overtaken sooner
  (`LeaseLastsItsTTL`), and nobody else's release can delete the row.
  *StateOpen*: an opener between BEGIN and COMMIT has the write lock, so the file it
  found empty still is when it commits the key it stored (`Opening`); until then the
  stored key is in no database, which is why `OneKey` alone is not inductive.
  *Login*: what an attempt keeps as its terminal callback answers its own request,
  and it has shown the accept page exactly if it is decided (`Attempting`); what the
  browser has was made by an attempt (`Browser`). `OneOwnCode` is about attempts
  that have ended, `RegistrationServes` about requests that were handed off.
  *Repair*: until the state key is there nobody but repairs writes and the fence
  stands still, so what was copied stays (`Copying`), whatever stalls; this is what
  the order of the copies in `MigrateLegacyKeyring` is for, and gives `KeyLast`.
  Without a stall, what a repair found missing under the lease still is when it
  writes it, which gives `NoSecondCopy`; both together leave its checks nothing but
  a damaged keyring or a moved fence to refuse (`FailsForCause`).
  *Progress*: log, snapshot and answers are in order (`Ordered`), and a reader that
  has got to a number has, of what the log still holds up to it, everything
  (`Covers`), since the log loses only old events and gains only newer ones. The
  snapshot of an await and the cursor are two such readers; `FollowsTheLog` states
  it of the cursor only, which is why it is not inductive: the next cursor is as
  good as the snapshot it is taken from.

Two operators are recursive functions over a sequence: `NewEvents` of Progress and
`Runnable` of Dispatch. The lemmas about them (`FilterFacts`, `TrimFacts`,
`RunnableFacts`) are proved for sequences of every length by taking the least index
at which the claim fails (`LeastNumber`), which the library's theorems about
well-founded relations give without an operator as a parameter.

The assumptions are those named in the modules: lease duration and payload
retention are positive, the tombstone outlives the payload (`limits.go` enforces
it), the capacities of a pool are positive, the requests of a task are ordered,
and the "nobody" values are nobody's. `PartsAssumption` says that the state key, the
old label and the slots of the keyring are different names, that two of the slots
are the ones in use before a repair starts, and that the owners of the credential
lease are different processes. Bounds (`MaxGen`, `MaxFaults`, `MaxFile`, ...) are
natural numbers, positive where there has to be one of the thing; the theorems hold
whatever they are. The leases of Repair and Login are the instances of MCParts, which
last one tick, so a lease either lasts or lapses: how long it is matters to how
often it lapses, which both components leave open.

Only model-checked: all liveness under fairness, which is beyond the provers
(`EventuallySettles`, `NoWorkIsLost`, `EndsHere`, `InputIsRequested`,
`NothingUnanswered`), and the three findings. Every safety invariant and every action
property a passing run checks is proved. Of the type invariants, that of
CredentialFence is proved without the bound on generations and the types of
`leaked` (see `Shape` above).

## Not modelled

Simplified where no property tells the difference: `OpenTask` also refuses a handle
whose task is not `working`, which TaskRunner counts among the refusals; a claim whose
`LeaseGeneration` fails leaves the row unreleased, as a crash does, and is one step
with it in CredentialFence.

HTTP and JSON handling (`internal/upstream`, `internal/adapter`), the schema
algorithms of `internal/catalog` and the parsing of `internal/profile`: pure or
sequential code without state of its own, whose verdicts the models choose
freely. The D-Bus protocol of the keyring, prompts, permission checks, the
Windows variants of the file operations, command-line flags, logging and test
tooling are I/O. The cipher is modelled as the key a blob is sealed under.
`ReplaceTaskIDLeased` and the unleased transitions of the store have no caller.

## Plan

All planned components are modelled, and every safety property that a run checks is
proved for all values of the constants. What could follow:

1. Refinements where only invariants are proved so far: TaskRunner as an
   implementation of SubmissionContract, and the leases of Repair, Login and
   CredentialFence as instances of one abstract lock.
2. Repair and Login over leases of any length, as in Leases.
3. The parts listed under "Not modelled" that have an order of steps: the
   negotiation in `internal/adapter` and the subscription in
   `internal/upstream/subscribe.go`, which TaskRunner takes as its environment.
