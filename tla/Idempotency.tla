----------------------------- MODULE Idempotency -----------------------------
(***************************************************************************)
(* Submit (internal/application/submit.go) over the idempotency index of   *)
(* the store (internal/store/submission.go): concurrent submit calls, in   *)
(* any number of processes whose profiles may bind the client's thread ID  *)
(* differently, with retries, crashes and the retention sweep in between.  *)
(*                                                                         *)
(* A request is its tool with its arguments (`args`) and the thread ID of  *)
(* its client context.  The hash of an identity is the identity.           *)
(***************************************************************************)
CONSTANTS Call,      \* submit calls under way
          Key,       \* client_request_id values
          Args,      \* tool and canonical arguments
          Thread,    \* thread IDs
          NoThread,  \* the request carries no thread ID
          Id,        \* submission IDs
          NoId

\* A thread ID is recorded as a quoted JSON string: never null, never nothing.
ASSUME IdempotencyAssumption ==
    /\ NoId \notin Id
    /\ NoThread \notin Thread
    /\ "omitted" \notin Thread /\ "null" \notin Thread

VARIABLES index,  \* the idempotency table
          rows,   \* the submissions table
          at,     \* where each call is in Submit
          key,    \* its client_request_id
          req,    \* its request
          found,  \* the submission it reports, or is about to
          reply   \* what it answered

vars == <<index, rows, at, key, req, found, reply>>

Request == [args : Args, thread : Thread \union {NoThread}]

\* The thread field of an identity: left out, JSON null, or a thread ID.
Identity == [args : Args, thread : Thread \union {"omitted", "null"}]

Entry   == [id : Id, identity : Identity]
NoEntry == [id |-> NoId]

Row   == [status : {"pending", "terminal"}, key : Key, req : Request,
          mapped : BOOLEAN]
NoRow == [status |-> "absent"]

TypeOK ==
    /\ index \in [Key -> Entry \union {NoEntry}]
    /\ rows \in [Id -> Row \union {NoRow}]
    /\ at \in [Call -> {"idle", "lookup", "checking", "reconciling", "loading",
                        "dispatching", "replied"}]
    /\ key \in [Call -> Key]
    /\ req \in [Call -> Request]
    /\ found \in [Call -> Id \union {NoId}]
    /\ reply \in [Call -> {"none", "accepted", "conflict", "rejected",
                           "unavailable"}]

Init ==
    /\ index = [k \in Key |-> NoEntry]
    /\ rows = [i \in Id |-> NoRow]
    /\ at = [c \in Call |-> "idle"]
    /\ key \in [Call -> Key] /\ req \in [Call -> Request]
    /\ found = [c \in Call |-> NoId]
    /\ reply = [c \in Call |-> "none"]

Kept(id) == rows[id] # NoRow

-----------------------------------------------------------------------------

\* requestIdentity: how an operation that does, or does not, map the thread ID
\* records a request.
RequestIdentity(r, mapped) ==
    [ args   |-> r.args,
      thread |-> IF ~ mapped THEN "omitted"
                 ELSE IF r.thread = NoThread THEN "null"
                 ELSE r.thread ]

\* Mutated forms: a retry knows only the binding set of its own process; the
\* thread ID is not compared; GC leaves the index entry behind.
CurrentIdentities(r) == {RequestIdentity(r, TRUE)}
WildcardIdentities(r) ==
    {RequestIdentity([r EXCEPT !.thread = t], mapped) :
        t \in Thread \union {r.thread}, mapped \in BOOLEAN}
IndexAfterLostDelete(id) == index

\* retryIdentities: what the accepted request of an exact retry may have been
\* recorded as.
RetryIdentities(r) == {RequestIdentity(r, TRUE), RequestIdentity(r, FALSE)}

\* deleteLapsedTombstones removes the entry of the row's key.
IndexAfterDelete(id) == [index EXCEPT ![rows[id].key] = NoEntry]

Goto(c, where) == at' = [at EXCEPT ![c] = where] /\ UNCHANGED reply

Answer(c, what) ==
    /\ at' = [at EXCEPT ![c] = "replied"]
    /\ reply' = [reply EXCEPT ![c] = what]

-----------------------------------------------------------------------------

\* A client submits; a call ends when its answer is read, or its process dies.
Begin(c, k, r) ==
    /\ at[c] = "idle"
    /\ key' = [key EXCEPT ![c] = k]
    /\ req' = [req EXCEPT ![c] = r]
    /\ Goto(c, "lookup")
    /\ UNCHANGED <<index, rows, found>>

End(c) ==
    /\ at[c] # "idle"
    /\ at' = [at EXCEPT ![c] = "idle"]
    /\ found' = [found EXCEPT ![c] = NoId]
    /\ reply' = [reply EXCEPT ![c] = "none"]
    /\ UNCHANGED <<index, rows, key, req>>

\* The index is read: a recorded identity of this request leads to its row,
\* another is a conflict.
ReadIndex(c, missing) ==
    /\ LET entry == index[key[c]] IN
       IF entry = NoEntry
       THEN missing /\ UNCHANGED found
       ELSE IF entry.identity \in RetryIdentities(req[c])
       THEN found' = [found EXCEPT ![c] = entry.id] /\ Goto(c, "loading")
       ELSE Answer(c, "conflict") /\ UNCHANGED found
    /\ UNCHANGED <<index, rows, key, req>>

\* ReconcileIdempotentSubmission, before any check of new work.
Lookup(c) == at[c] = "lookup" /\ ReadIndex(c, Goto(c, "checking"))

\* GetSubmission in a statement of its own: the row may be gone by now.
LoadRow(c) ==
    /\ at[c] = "loading"
    /\ Answer(c, IF Kept(found[c]) THEN "accepted" ELSE "unavailable")
    /\ UNCHANGED <<index, rows, key, req, found>>

\* The catalog, a schema, a binding, the credentials, the strategy gate, the
\* argument limits or the store refuses: nothing is written.
Reject(c) ==
    /\ at[c] = "checking"
    /\ Answer(c, "rejected")
    /\ UNCHANGED <<index, rows, key, req, found>>

\* CreateSubmission: the index claims the key and the row is inserted in one
\* transaction; a key claimed meanwhile is reconciled after a rollback.
Create(c, id, mapped) ==
    /\ at[c] = "checking"
    /\ ~ Kept(id)
    /\ \A d \in Call : found[d] # id
    /\ IF index[key[c]] = NoEntry
       THEN /\ index' = [index EXCEPT ![key[c]] =
                  [id |-> id, identity |-> RequestIdentity(req[c], mapped)]]
            /\ rows' = [rows EXCEPT ![id] =
                  [status |-> "pending", key |-> key[c], req |-> req[c],
                   mapped |-> mapped]]
            /\ found' = [found EXCEPT ![c] = id]
            /\ Goto(c, "dispatching")
       ELSE Goto(c, "reconciling") /\ UNCHANGED <<index, rows, found>>
    /\ UNCHANGED <<key, req>>

\* reconcileIdempotentSubmission: the entry may be gone again.
Reconcile(c) ==
    at[c] = "reconciling" /\ ReadIndex(c, Answer(c, "unavailable"))

\* The accepted event and the dispatch follow a fresh acceptance only.  A
\* profile of the other kind has no pipeline for the operation: the call is
\* refused although its submission is durable.
Dispatch(c) ==
    /\ at[c] = "dispatching"
    /\ Answer(c, "accepted") \/ Answer(c, "rejected")
    /\ UNCHANGED <<index, rows, key, req, found>>

\* A worker settles the row.
Settle(id) ==
    /\ Kept(id) /\ rows[id].status = "pending"
    /\ rows' = [rows EXCEPT ![id].status = "terminal"]
    /\ UNCHANGED <<index, at, key, req, found, reply>>

\* GC deletes a lapsed tombstone with its index entry.
Delete(id) ==
    /\ Kept(id) /\ rows[id].status = "terminal"
    /\ rows' = [rows EXCEPT ![id] = NoRow]
    /\ index' = IndexAfterDelete(id)
    /\ UNCHANGED <<at, key, req, found, reply>>

CallStep(c) ==
    \/ \E k \in Key, r \in Request : Begin(c, k, r)
    \/ \E id \in Id, mapped \in BOOLEAN : Create(c, id, mapped)
    \/ Lookup(c) \/ LoadRow(c) \/ Reject(c) \/ Reconcile(c) \/ Dispatch(c)
    \/ End(c)

Next ==
    \/ \E c \in Call : CallStep(c)
    \/ \E id \in Id : Settle(id) \/ Delete(id)

Spec == Init /\ [][Next]_vars

-----------------------------------------------------------------------------

\* The index and the submissions agree: a retained row is the one its key
\* names and was recorded as its request was, and every entry names a retained
\* row.  So a client_request_id has at most one submission at a time.
IndexMatchesRows ==
    /\ \A id \in Id : Kept(id) =>
          index[rows[id].key] =
            [id |-> id,
             identity |-> RequestIdentity(rows[id].req, rows[id].mapped)]
    /\ \A k \in Key : index[k] # NoEntry =>
          Kept(index[k].id) /\ rows[index[k].id].key = k

\* submit.go: "an exact retry reconciles no matter what reconciliation did to
\* the tool since": a call is told conflict only if the request its key was
\* accepted for is another one.
ExactRetryNeverConflicts ==
    [][\A c \in Call :
          reply[c] # "conflict" /\ reply'[c] = "conflict"
          => rows[index[key[c]].id].req # req[c]]_vars

\* A submission is reported only to a request that means the same: same tool
\* and arguments, and the same thread ID, present or absent, if the accepted
\* operation could map one.  ("Adding a thread ID after the accepted request
\* omitted one from a mappable source conflicts.")
ReportsOwnSubmission ==
    \A c \in Call :
        reply[c] = "accepted" /\ Kept(found[c]) =>
            LET row == rows[found[c]] IN
            /\ row.key = key[c]
            /\ row.req.args = req[c].args
            /\ row.mapped => row.req.thread = req[c].thread
=============================================================================
