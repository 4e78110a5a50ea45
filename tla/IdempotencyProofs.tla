-------------------------- MODULE IdempotencyProofs --------------------------
(***************************************************************************)
(* Proofs about Idempotency, for any number of calls, keys, requests and   *)
(* submission IDs.                                                         *)
(***************************************************************************)
EXTENDS Idempotency, TLAPS

\* Every recorded form of a request is an identity.
LEMMA IdentityType ==
  ASSUME NEW r \in Request, NEW mapped \in BOOLEAN
  PROVE  RequestIdentity(r, mapped) \in Identity
  BY DEF RequestIdentity, Request, Identity

\* A request is recognised, however the process that accepted it recorded it.
LEMMA OwnIdentity ==
  ASSUME NEW r \in Request, NEW mapped \in BOOLEAN
  PROVE  RequestIdentity(r, mapped) \in RetryIdentities(r)
  BY DEF RetryIdentities

\* What an accepted request q and a later request r that is recognised as its
\* retry have in common.
Same(q, mapped, r) ==
    q.args = r.args /\ (mapped => q.thread = r.thread)

\* A request that matches the recorded form of another means the same.
LEMMA IdentitySound ==
  ASSUME NEW r \in Request, NEW q \in Request, NEW mapped \in BOOLEAN,
         RequestIdentity(q, mapped) \in RetryIdentities(r)
  PROVE  Same(q, mapped, r)
  <1>1. CASE mapped = FALSE
    BY <1>1 DEF RequestIdentity, RetryIdentities, Same, Request
  <1>2. CASE mapped = TRUE
    BY <1>2, IdempotencyAssumption
       DEF RequestIdentity, RetryIdentities, Same, Request
  <1>3. QED
    BY <1>1, <1>2

-----------------------------------------------------------------------------

\* Where a call stands decides whether it has a submission in hand.
InHand ==
    \A c \in Call :
        /\ at[c] \in {"idle", "lookup", "checking", "reconciling"}
             => found[c] = NoId
        /\ at[c] \in {"loading", "dispatching"} => found[c] \in Id
        /\ reply[c] = "accepted" => found[c] \in Id
        /\ at[c] # "replied" => reply[c] = "none"

\* A submission in hand is the call's own as long as it is retained.
OwnInHand ==
    \A c \in Call :
        found[c] \in Id /\ Kept(found[c]) =>
            LET row == rows[found[c]] IN
            row.key = key[c] /\ Same(row.req, row.mapped, req[c])

IInv == TypeOK /\ IndexMatchesRows /\ InHand /\ OwnInHand

\* The fields of a retained row's entry.
LEMMA EntryFields ==
  ASSUME IndexMatchesRows, NEW i \in Id, Kept(i)
  PROVE  /\ index[rows[i].key].id = i
         /\ index[rows[i].key].identity
              = RequestIdentity(rows[i].req, rows[i].mapped)
  <1>1. index[rows[i].key] =
          [id |-> i, identity |-> RequestIdentity(rows[i].req, rows[i].mapped)]
    BY DEF IndexMatchesRows
  <1>2. QED
    BY <1>1

\* What reading the index can do.
LEMMA ReadIndexCases ==
  ASSUME TypeOK, NEW c \in Call, NEW missing, ReadIndex(c, missing)
  PROVE  /\ UNCHANGED <<index, rows, key, req>>
         /\ \/ index[key[c]] = NoEntry /\ missing /\ UNCHANGED found
            \/ /\ index[key[c]] \in Entry
               /\ index[key[c]].identity \in RetryIdentities(req[c])
               /\ found' = [found EXCEPT ![c] = index[key[c]].id]
               /\ Goto(c, "loading")
            \/ /\ index[key[c]] \in Entry
               /\ index[key[c]].identity \notin RetryIdentities(req[c])
               /\ Answer(c, "conflict")
               /\ UNCHANGED found
  BY DEF ReadIndex, TypeOK

\* Every step keeps the types.
LEMMA TypeOKStep == TypeOK /\ [Next]_vars => TypeOK'
  <1> SUFFICES ASSUME TypeOK, [Next]_vars PROVE TypeOK'
    OBVIOUS
  <1> USE DEF TypeOK
  <1>1. ASSUME NEW c \in Call, NEW k \in Key, NEW r \in Request, Begin(c, k, r)
        PROVE  TypeOK'
    BY <1>1 DEF Begin, Goto
  <1>2. ASSUME NEW c \in Call, End(c) PROVE TypeOK'
    BY <1>2 DEF End
  <1>3. ASSUME NEW c \in Call, Lookup(c) PROVE TypeOK'
    BY ZenonT(40), <1>3, ReadIndexCases DEF Lookup, Goto, Answer, Entry
  <1>4. ASSUME NEW c \in Call, Reconcile(c) PROVE TypeOK'
    BY <1>4, ReadIndexCases DEF Reconcile, Goto, Answer, Entry
  <1>5. ASSUME NEW c \in Call, LoadRow(c) \/ Reject(c) \/ Dispatch(c)
        PROVE  TypeOK'
    BY <1>5 DEF LoadRow, Reject, Dispatch, Answer
  <1>6. ASSUME NEW c \in Call, NEW id \in Id, NEW mapped \in BOOLEAN,
               Create(c, id, mapped)
        PROVE  TypeOK'
    <2>1. [id |-> id, identity |-> RequestIdentity(req[c], mapped)] \in Entry
      BY IdentityType DEF Entry
    <2>2. [status |-> "pending", key |-> key[c], req |-> req[c],
           mapped |-> mapped] \in Row
      BY DEF Row
    <2>3. QED
      BY <1>6, <2>1, <2>2 DEF Create, Goto
  <1>7. ASSUME NEW id \in Id, Settle(id) PROVE TypeOK'
    <2>1. rows[id] \in Row
      BY <1>7 DEF Settle, Kept
    <2>2. [rows[id] EXCEPT !.status = "terminal"] \in Row
      BY <2>1 DEF Row
    <2>3. QED
      BY <1>7, <2>2 DEF Settle
  <1>8. ASSUME NEW id \in Id, Delete(id) PROVE TypeOK'
    BY <1>8 DEF Delete, IndexAfterDelete
  <1>9. CASE UNCHANGED vars
    BY <1>9 DEF vars
  <1>10. QED
    BY <1>1, <1>2, <1>3, <1>4, <1>5, <1>6, <1>7, <1>8, <1>9 DEF Next, CallStep

\* Every step keeps the index and the rows in agreement: only Create and
\* Delete write them, and each writes both.
LEMMA IndexStep == IInv /\ [Next]_vars => IndexMatchesRows'
  <1> SUFFICES ASSUME IInv, [Next]_vars PROVE IndexMatchesRows'
    OBVIOUS
  <1> USE DEF IInv, TypeOK, IndexMatchesRows, Kept
  <1>1. ASSUME NEW c \in Call, NEW id \in Id, NEW mapped \in BOOLEAN,
               Create(c, id, mapped)
        PROVE  IndexMatchesRows'
    <2>1. CASE UNCHANGED <<index, rows>>
      BY <2>1
    <2> DEFINE row == [status |-> "pending", key |-> key[c], req |-> req[c],
                       mapped |-> mapped]
               entry == [id |-> id, identity |-> RequestIdentity(req[c], mapped)]
    <2>2. CASE /\ index[key[c]] = NoEntry
               /\ index' = [index EXCEPT ![key[c]] = entry]
               /\ rows' = [rows EXCEPT ![id] = row]
      <3>1. row # NoRow /\ entry # NoEntry /\ entry.id = id /\ row.key = key[c]
        BY IdempotencyAssumption DEF NoRow, NoEntry
      <3>2. ASSUME NEW i \in Id, rows'[i] # NoRow
            PROVE  index'[rows'[i].key] =
                     [id |-> i,
                      identity |-> RequestIdentity(rows'[i].req, rows'[i].mapped)]
        <4>1. CASE i = id
          BY <2>2, <3>1, <4>1
        <4>2. CASE i # id
          <5>1. rows'[i] = rows[i] /\ rows[i] # NoRow
            BY <2>2, <3>2, <4>2
          <5>2. rows[i].key \in Key
            BY <5>1 DEF Row
          <5>3. index[rows[i].key] =
                  [id |-> i,
                   identity |-> RequestIdentity(rows[i].req, rows[i].mapped)]
            BY <5>1
          <5>4. rows[i].key # key[c]
            BY <2>2, <5>3, IdempotencyAssumption DEF NoEntry
          <5>5. QED
            BY <2>2, <5>1, <5>2, <5>3, <5>4
        <4>3. QED
          BY <4>1, <4>2
      <3>3. ASSUME NEW k \in Key, index'[k] # NoEntry
            PROVE  rows'[index'[k].id] # NoRow /\ rows'[index'[k].id].key = k
        <4>1. CASE k = key[c]
          BY <2>2, <3>1, <4>1
        <4>2. CASE k # key[c]
          <5>1. index'[k] = index[k] /\ index[k] # NoEntry
            BY <2>2, <3>3, <4>2
          <5>2. index[k].id \in Id
            BY <5>1 DEF Entry
          <5>3. index[k].id # id
            BY <1>1, <5>1 DEF Create
          <5>4. QED
            BY <2>2, <5>1, <5>2, <5>3
        <4>3. QED
          BY <4>1, <4>2
      <3>4. QED
        BY <3>2, <3>3
    <2>3. QED
      BY <1>1, <2>1, <2>2 DEF Create
  <1>2. ASSUME NEW id \in Id, Delete(id) PROVE IndexMatchesRows'
    <2>1. rows[id] \in Row /\ rows[id].key \in Key /\ index[rows[id].key].id = id
      <3>1. rows[id] \in Row
        BY <1>2 DEF Delete
      <3>2. rows[id].key \in Key
        BY <3>1 DEF Row
      <3>3. index[rows[id].key].id = id
        BY <1>2, EntryFields DEF Delete
      <3>4. QED
        BY <3>1, <3>2, <3>3
    <2>2. ASSUME NEW i \in Id, rows'[i] # NoRow
          PROVE  index'[rows'[i].key] =
                   [id |-> i,
                    identity |-> RequestIdentity(rows'[i].req, rows'[i].mapped)]
      <3>1. i # id /\ rows'[i] = rows[i]
        BY <1>2, <2>2 DEF Delete
      <3>2. index[rows[i].key] =
              [id |-> i,
               identity |-> RequestIdentity(rows[i].req, rows[i].mapped)]
        BY <2>2, <3>1
      <3>3. rows[i].key # rows[id].key
        BY <2>1, <3>1, <3>2
      <3>4. QED
        BY <1>2, <2>1, <2>2, <3>1, <3>2, <3>3
           DEF Delete, IndexAfterDelete, Row
    <2>3. ASSUME NEW k \in Key, index'[k] # NoEntry
          PROVE  rows'[index'[k].id] # NoRow /\ rows'[index'[k].id].key = k
      <3>1. index'[k] = index[k] /\ k # rows[id].key
        BY <1>2, <2>1, <2>3 DEF Delete, IndexAfterDelete
      <3>2. index[k].id \in Id /\ rows[index[k].id] # NoRow
              /\ rows[index[k].id].key = k
        BY <2>3, <3>1 DEF Entry
      <3>3. QED
        BY <1>2, <3>1, <3>2 DEF Delete
    <2>4. QED
      BY <2>2, <2>3
  <1>3. ASSUME NEW id \in Id, Settle(id) PROVE IndexMatchesRows'
    <2>1. \A i \in Id :
            /\ rows'[i] = NoRow <=> rows[i] = NoRow
            /\ rows[i] # NoRow => /\ rows'[i].key = rows[i].key
                                  /\ rows'[i].req = rows[i].req
                                  /\ rows'[i].mapped = rows[i].mapped
      BY <1>3 DEF Settle, Row, NoRow
    <2>2. \A k \in Key : index[k] # NoEntry => index[k].id \in Id
      BY DEF Entry
    <2>3. QED
      BY <1>3, <2>1, <2>2 DEF Settle
  <1>4. CASE UNCHANGED <<index, rows>>
    BY <1>4
  <1>5. QED
    BY <1>1, <1>2, <1>3, <1>4
       DEF Next, CallStep, vars, Begin, End, Lookup, Reconcile, ReadIndex,
           LoadRow, Reject, Dispatch

\* Every step keeps InHand.
LEMMA InHandStep == IInv /\ [Next]_vars => InHand'
  <1> SUFFICES ASSUME IInv, [Next]_vars PROVE InHand'
    OBVIOUS
  <1> USE DEF IInv, TypeOK, InHand
  <1>1. ASSUME NEW c \in Call, NEW k \in Key, NEW r \in Request, Begin(c, k, r)
        PROVE  InHand'
    BY <1>1 DEF Begin, Goto
  <1>2. ASSUME NEW c \in Call, End(c) PROVE InHand'
    BY <1>2 DEF End
  <1>3. ASSUME NEW c \in Call, Lookup(c) PROVE InHand'
    <2>1. ReadIndex(c, Goto(c, "checking")) /\ found[c] = NoId /\ reply[c] = "none"
      BY <1>3 DEF Lookup
    <2>2. CASE Goto(c, "checking") /\ UNCHANGED found
      BY <2>1, <2>2 DEF Goto, Answer
    <2>3. CASE /\ index[key[c]] \in Entry
               /\ found' = [found EXCEPT ![c] = index[key[c]].id]
               /\ Goto(c, "loading")
      <3>1. index[key[c]].id \in Id
        BY <2>3 DEF Entry
      <3>2. QED
        BY <2>1, <2>3, <3>1, IdempotencyAssumption DEF Goto
    <2>4. CASE Answer(c, "conflict") /\ UNCHANGED found
      BY <2>1, <2>4 DEF Answer
    <2>5. QED
      BY <2>1, <2>2, <2>3, <2>4, ReadIndexCases
  <1>4. ASSUME NEW c \in Call, Reconcile(c) PROVE InHand'
    <2>1. ReadIndex(c, Answer(c, "unavailable")) /\ found[c] = NoId /\ reply[c] = "none"
      BY <1>4 DEF Reconcile
    <2>2. CASE Answer(c, "unavailable") /\ UNCHANGED found
      BY <2>1, <2>2 DEF Goto, Answer
    <2>3. CASE /\ index[key[c]] \in Entry
               /\ found' = [found EXCEPT ![c] = index[key[c]].id]
               /\ Goto(c, "loading")
      <3>1. index[key[c]].id \in Id
        BY <2>3 DEF Entry
      <3>2. QED
        BY <2>1, <2>3, <3>1, IdempotencyAssumption DEF Goto
    <2>4. CASE Answer(c, "conflict") /\ UNCHANGED found
      BY <2>1, <2>4 DEF Answer
    <2>5. QED
      BY <2>1, <2>2, <2>3, <2>4, ReadIndexCases
  <1>5. ASSUME NEW c \in Call, LoadRow(c) \/ Reject(c) \/ Dispatch(c)
        PROVE  InHand'
    BY <1>5 DEF LoadRow, Reject, Dispatch, Answer
  <1>6. ASSUME NEW c \in Call, NEW id \in Id, NEW mapped \in BOOLEAN,
               Create(c, id, mapped)
        PROVE  InHand'
    BY <1>6 DEF Create, Goto
  <1>7. CASE UNCHANGED <<at, found, reply>>
    BY <1>7
  <1>8. QED
    BY <1>1, <1>2, <1>3, <1>4, <1>5, <1>6, <1>7
       DEF Next, CallStep, vars, Settle, Delete

\* Every step keeps OwnInHand: a submission is taken in hand after a match, and
\* an ID in somebody's hand is never given to a new row.
LEMMA OwnInHandStep == IInv /\ [Next]_vars => OwnInHand'
  <1> SUFFICES ASSUME IInv, [Next]_vars,
                      NEW d \in Call, found'[d] \in Id, rows'[found'[d]] # NoRow
               PROVE  /\ rows'[found'[d]].key = key'[d]
                      /\ Same(rows'[found'[d]].req, rows'[found'[d]].mapped,
                              req'[d])
    BY DEF OwnInHand, Kept
  <1> USE DEF IInv, TypeOK, OwnInHand, InHand, Kept
  <1>1. ASSUME found'[d] = found[d], rows' = rows,
               key'[d] = key[d], req'[d] = req[d]
        PROVE  /\ rows'[found'[d]].key = key'[d]
               /\ Same(rows'[found'[d]].req, rows'[found'[d]].mapped, req'[d])
    BY <1>1
  <1>2. ASSUME NEW c \in Call, NEW k \in Key, NEW r \in Request, Begin(c, k, r)
        PROVE  /\ rows'[found'[d]].key = key'[d]
               /\ Same(rows'[found'[d]].req, rows'[found'[d]].mapped, req'[d])
    BY <1>1, <1>2, IdempotencyAssumption DEF Begin
  <1>3. ASSUME NEW c \in Call, End(c)
        PROVE  /\ rows'[found'[d]].key = key'[d]
               /\ Same(rows'[found'[d]].req, rows'[found'[d]].mapped, req'[d])
    BY <1>1, <1>3, IdempotencyAssumption DEF End
  <1>4. ASSUME NEW c \in Call, NEW missing, ReadIndex(c, missing)
        PROVE  /\ rows'[found'[d]].key = key'[d]
               /\ Same(rows'[found'[d]].req, rows'[found'[d]].mapped, req'[d])
    <2>1. CASE found'[d] = found[d]
      BY <1>1, <1>4, <2>1 DEF ReadIndex
    <2>2. CASE found'[d] # found[d]
      <3> DEFINE row == rows[index[key[d]].id]
      <3>1. /\ d = c
            /\ index[key[d]] \in Entry
            /\ index[key[d]].identity \in RetryIdentities(req[d])
            /\ found'[d] = index[key[d]].id
            /\ UNCHANGED <<rows, key, req>>
        BY <1>4, <2>2, ReadIndexCases
      <3>2. index[key[d]] # NoEntry /\ index[key[d]].id \in Id
        BY <3>1, IdempotencyAssumption DEF Entry, NoEntry
      <3>3. row # NoRow /\ row.key = key[d]
        BY <3>2 DEF IndexMatchesRows
      <3>4. row \in Row
        BY <3>2, <3>3
      <3>5. index[key[d]].identity = RequestIdentity(row.req, row.mapped)
        BY <3>2, <3>3, EntryFields
      <3>6. row.req \in Request /\ row.mapped \in BOOLEAN
        BY <3>4 DEF Row
      <3>7. Same(row.req, row.mapped, req[d])
        BY <3>1, <3>5, <3>6, IdentitySound
      <3>8. QED
        BY <3>1, <3>3, <3>7
    <2>3. QED
      BY <2>1, <2>2
  <1>5. ASSUME NEW c \in Call, NEW id \in Id, NEW mapped \in BOOLEAN,
               Create(c, id, mapped)
        PROVE  /\ rows'[found'[d]].key = key'[d]
               /\ Same(rows'[found'[d]].req, rows'[found'[d]].mapped, req'[d])
    <2>1. CASE UNCHANGED <<rows, found>>
      BY <1>1, <1>5, <2>1 DEF Create
    <2>2. CASE /\ rows' = [rows EXCEPT ![id] =
                             [status |-> "pending", key |-> key[c],
                              req |-> req[c], mapped |-> mapped]]
               /\ found' = [found EXCEPT ![c] = id]
      <3>1. CASE d = c
        BY <1>5, <2>2, <3>1 DEF Create, Same
      <3>2. CASE d # c
        <4>1. found'[d] = found[d] /\ found[d] # id
          BY <1>5, <2>2, <3>2 DEF Create
        <4>2. rows'[found[d]] = rows[found[d]] /\ UNCHANGED <<key, req>>
          BY <1>5, <2>2, <4>1 DEF Create
        <4>3. QED
          BY <4>1, <4>2
      <3>3. QED
        BY <3>1, <3>2
    <2>3. QED
      BY <1>5, <2>1, <2>2 DEF Create
  <1>6. ASSUME NEW id \in Id, Settle(id)
        PROVE  /\ rows'[found'[d]].key = key'[d]
               /\ Same(rows'[found'[d]].req, rows'[found'[d]].mapped, req'[d])
    <2>1. \A i \in Id :
            /\ rows'[i] = NoRow <=> rows[i] = NoRow
            /\ rows[i] # NoRow => /\ rows'[i].key = rows[i].key
                                  /\ rows'[i].req = rows[i].req
                                  /\ rows'[i].mapped = rows[i].mapped
      BY <1>6 DEF Settle, Row, NoRow
    <2>2. UNCHANGED <<key, req, found>>
      BY <1>6 DEF Settle
    <2>3. QED
      BY <2>1, <2>2
  <1>7. ASSUME NEW id \in Id, Delete(id)
        PROVE  /\ rows'[found'[d]].key = key'[d]
               /\ Same(rows'[found'[d]].req, rows'[found'[d]].mapped, req'[d])
    BY <1>7 DEF Delete
  <1>8. QED
    BY <1>1, <1>2, <1>3, <1>4, <1>5, <1>6, <1>7
       DEF Next, CallStep, vars, Lookup, Reconcile, LoadRow, Reject, Dispatch

-----------------------------------------------------------------------------

\* The inductive invariant holds of every behaviour.
THEOREM Inductive == Spec => []IInv
  <1>1. Init => IInv
    BY IdempotencyAssumption
       DEF Init, IInv, TypeOK, IndexMatchesRows, InHand, OwnInHand, Kept
  <1>2. IInv /\ [Next]_vars => IInv'
    BY TypeOKStep, IndexStep, InHandStep, OwnInHandStep DEF IInv
  <1>3. QED
    BY <1>1, <1>2, PTL DEF Spec

\* A key has at most one retained submission, and the index names it.
THEOREM OneSubmissionPerKey == Spec => []IndexMatchesRows
  <1>1. IInv => IndexMatchesRows
    BY DEF IInv
  <1>2. QED
    BY <1>1, Inductive, PTL

\* A call reports a submission only to a request that means the same.
THEOREM NoForeignSubmission == Spec => []ReportsOwnSubmission
  <1>1. IInv => ReportsOwnSubmission
    BY DEF IInv, InHand, OwnInHand, ReportsOwnSubmission, Same
  <1>2. QED
    BY <1>1, Inductive, PTL

\* An exact retry is never told that its key was used for something else, even
\* when the processes involved bind the thread ID differently.
THEOREM RetrySafety == Spec => ExactRetryNeverConflicts
  <1>1. ASSUME IInv, [Next]_vars
        PROVE  [\A c \in Call :
                  reply[c] # "conflict" /\ reply'[c] = "conflict"
                  => rows[index[key[c]].id].req # req[c]]_vars
    <2> SUFFICES ASSUME NEW c \in Call,
                        reply[c] # "conflict", reply'[c] = "conflict"
                 PROVE  rows[index[key[c]].id].req # req[c]
      OBVIOUS
    <2> USE DEF IInv, TypeOK
    <2>1. ASSUME NEW d \in Call, NEW missing, ReadIndex(d, missing),
                 d = c /\ ~ missing
          PROVE  rows[index[key[c]].id].req # req[c]
      <3> DEFINE row == rows[index[key[c]].id]
      <3>1. /\ index[key[c]] \in Entry
            /\ index[key[c]].identity \notin RetryIdentities(req[c])
        BY <1>1, <2>1, ReadIndexCases DEF Goto
      <3>2. index[key[c]] # NoEntry /\ index[key[c]].id \in Id
        BY <3>1, IdempotencyAssumption DEF Entry, NoEntry
      <3>3. row # NoRow /\ row.key = key[c]
        BY <1>1, <3>2 DEF IndexMatchesRows, Kept
      <3>4. row \in Row
        BY <1>1, <3>2, <3>3
      <3>5. index[key[c]].identity = RequestIdentity(row.req, row.mapped)
        BY <1>1, <3>2, <3>3, EntryFields DEF Kept
      <3>6. row.mapped \in BOOLEAN
        BY <3>4 DEF Row
      <3>7. QED
        BY <1>1, <3>1, <3>5, <3>6, OwnIdentity
    <2>2. ASSUME NEW d \in Call, Lookup(d)
          PROVE  rows[index[key[c]].id].req # req[c]
      <3>1. d = c /\ ~ Goto(d, "checking")
        BY <1>1, <2>2 DEF Lookup, ReadIndex, Goto, Answer
      <3>2. QED
        BY <2>1, <2>2, <3>1 DEF Lookup
    <2>3. ASSUME NEW d \in Call, Reconcile(d)
          PROVE  rows[index[key[c]].id].req # req[c]
      <3>1. d = c /\ ~ Answer(d, "unavailable")
        BY <1>1, <2>3 DEF Reconcile, ReadIndex, Goto, Answer
      <3>2. QED
        BY <2>1, <2>3, <3>1 DEF Reconcile
    <2>4. ASSUME NEW d \in Call, LoadRow(d) \/ Reject(d) \/ Dispatch(d) \/ End(d)
          PROVE  FALSE
      BY <1>1, <2>4 DEF LoadRow, Reject, Dispatch, End, Answer
    <2>5. CASE UNCHANGED reply
      BY <2>5
    <2>6. QED
      BY <1>1, <2>2, <2>3, <2>4, <2>5
         DEF Next, CallStep, vars, Begin, Create, Settle, Delete, Goto
  <1>2. QED
    BY <1>1, Inductive, PTL DEF Spec, ExactRetryNeverConflicts
=============================================================================
