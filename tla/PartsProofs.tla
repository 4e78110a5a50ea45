----------------------------- MODULE PartsProofs -----------------------------
(***************************************************************************)
(* Proofs about the components MCParts puts together, for every set of     *)
(* processes, every bound and, for Leases, every lease duration.           *)
(***************************************************************************)
EXTENDS MCParts, Sequences, SequenceTheorems, WellFoundedInduction, TLAPS

-----------------------------------------------------------------------------
(* Leases.                                                                 *)


\* The statements of lease.go keep the row well typed.
LEMMA RowTypes ==
  ASSUME NEW r \in LeaseRow(Owner), NEW o \in Owner, NEW wait \in 0..TTL
  PROVE  /\ NoLease \in LeaseRow(Owner)
         /\ ClaimLease(r, o, wait) \in LeaseRow(Owner)
         /\ RenewLease(r, wait) \in LeaseRow(Owner)
         /\ ReleaseLease(r, o) \in LeaseRow(Owner)
  BY TTLAssumption
     DEF NoLease, LeaseRow, ClaimLease, RenewLease, ReleaseLease

\* Time passing keeps the row well typed, and its owner.
LEMMA ElapsedType ==
  ASSUME NEW r \in LeaseRow(Owner)
  PROVE  Elapse(r) \in LeaseRow(Owner) /\ Elapse(r).owner = r.owner
  BY TTLAssumption DEF LeaseRow, Elapse

-----------------------------------------------------------------------------

\* Once another owner has claimed, the row names the overtaken owner again
\* only after a claim of its own.
OvertakenLost == \A o \in Owner : overtaken[o] => op[o] # "idle" /\ lease.owner # o

\* Until a whole TTL has passed since its last claim or renewal, the row is the
\* operation's, and what is left of it covers the rest of that TTL.
Covered == \A o \in Owner :
    op[o] # "idle" /\ age[o] < TTL => lease.owner = o /\ lease.left + age[o] >= TTL

LeaseInv == TypeOK /\ OvertakenLost /\ Covered

\* What an operation that returns leaves in the other variables.
LEMMA ReturnTypes ==
  ASSUME TypeOK, NEW o \in Owner, Return(o)
  PROVE  /\ op' \in [Owner -> OpState] /\ epoch' \in [Owner -> Nat]
         /\ age' \in [Owner -> 0..TTL] /\ overtaken' \in [Owner -> BOOLEAN]
         /\ op'[o] = "idle" /\ ~ overtaken'[o]
         /\ \A p \in Owner \ {o} : /\ op'[p] = op[p] /\ age'[p] = age[p]
                                   /\ overtaken'[p] = overtaken[p]
  BY TTLAssumption DEF TypeOK, Return, Goto, OpState

\* Every step keeps the types.
LEMMA TypeOKStep == TypeOK /\ [Next]_vars => TypeOK'
  <1> SUFFICES ASSUME TypeOK, [Next]_vars PROVE TypeOK'
    OBVIOUS
  <1> USE DEF TypeOK
  <1>1. ASSUME NEW o \in Owner, NEW wait \in 0..TTL, Claim(o, wait)
        PROVE  TypeOK'
    <2>1. lease' \in LeaseRow(Owner)
      BY <1>1, RowTypes DEF Claim
    <2>2. overtaken' \in [Owner -> BOOLEAN] /\ op' \in [Owner -> OpState]
      BY <1>1 DEF Claim, Goto, OpState
    <2>3. age' \in [Owner -> 0..TTL]
      BY <1>1, TTLAssumption DEF Claim
    <2>4. QED
      BY <1>1, <2>1, <2>2, <2>3 DEF Claim
  <1>2. ASSUME NEW o \in Owner, NEW wait \in 0..TTL, Renew(o, wait)
        PROVE  TypeOK'
    <2>1. lease' \in LeaseRow(Owner) /\ age' \in [Owner -> 0..TTL]
      BY <1>2, RowTypes DEF Renew
    <2>2. op' \in [Owner -> OpState]
      BY <1>2 DEF Renew, LoseLease, Goto, OpState
    <2>3. QED
      BY <1>2, <2>1, <2>2 DEF Renew
  <1>3. ASSUME NEW o \in Owner, ReadGeneration(o) PROVE TypeOK'
    <2>1. lease.gen \in Nat /\ UNCHANGED lease
      BY <1>3 DEF LeaseRow, ReadGeneration
    <2>2. CASE Return(o)
      BY <2>1, <2>2, ReturnTypes
    <2>3. CASE ~ Return(o)
      BY <1>3, <2>1, <2>3 DEF ReadGeneration, Goto, OpState
    <2>4. QED
      BY <2>2, <2>3
  <1>4. ASSUME NEW o \in Owner, NEW wait \in 0..TTL, Gate(o, wait) \/ Write(o)
        PROVE  TypeOK'
    BY <1>4 DEF Gate, Write, Goto, OpState, local
  <1>5. ASSUME NEW o \in Owner, Release(o) PROVE TypeOK'
    <2>1. 0 \in 0..TTL
      BY TTLAssumption
    <2>2. lease' \in LeaseRow(Owner)
      BY <1>5, <2>1, RowTypes DEF Release
    <2>3. QED
      BY <1>5, <2>2, ReturnTypes DEF Release
  <1>6. ASSUME NEW o \in Owner, Crash(o) PROVE TypeOK'
    BY <1>6, ReturnTypes DEF Crash
  <1>7. CASE Tick
    <2>1. age' \in [Owner -> 0..TTL]
      BY <1>7, TTLAssumption DEF Tick
    <2>2. QED
      BY <1>7, <2>1, ElapsedType DEF Tick
  <1>8. CASE UNCHANGED vars
    BY <1>8 DEF vars, local
  <1>9. QED
    BY <1>1, <1>2, <1>3, <1>4, <1>5, <1>6, <1>7, <1>8, TTLAssumption DEF Next

\* Every step keeps OvertakenLost: only Claim sets `overtaken`, and it puts
\* the claimant's name in the row.
LEMMA OvertakenLostStep == LeaseInv /\ [Next]_vars => OvertakenLost'
  <1> SUFFICES ASSUME LeaseInv, [Next]_vars, NEW p \in Owner, overtaken'[p]
               PROVE  op'[p] # "idle" /\ lease'.owner # p
    BY DEF OvertakenLost
  <1> USE DEF LeaseInv, TypeOK, OvertakenLost
  <1>1. ASSUME NEW o \in Owner, NEW wait \in 0..TTL, Claim(o, wait)
        PROVE  op'[p] # "idle" /\ lease'.owner # p
    BY <1>1 DEF Claim, ClaimLease, Goto
  <1>2. ASSUME overtaken'[p] = overtaken[p], op[p] # "idle" => op'[p] # "idle",
               lease'.owner \in {lease.owner, NoOwner}
        PROVE  op'[p] # "idle" /\ lease'.owner # p
    BY <1>2, LeasesAssumption
  <1>3. ASSUME NEW o \in Owner, NEW wait \in 0..TTL, Renew(o, wait)
        PROVE  op'[p] # "idle" /\ lease'.owner # p
    <2>1. op[p] # "idle" => op'[p] # "idle"
      BY <1>3 DEF Renew, LoseLease, Goto
    <2>2. lease'.owner = lease.owner /\ overtaken' = overtaken
      BY <1>3 DEF Renew, RenewLease, LeaseRow
    <2>3. QED
      BY <1>2, <2>1, <2>2
  <1>4. ASSUME NEW o \in Owner, Return(o), lease' \in {lease, NoLease}
        PROVE  op'[p] # "idle" /\ lease'.owner # p
    <2>1. p # o /\ overtaken'[p] = overtaken[p] /\ op'[p] = op[p]
      BY <1>4, ReturnTypes
    <2>2. lease'.owner \in {lease.owner, NoOwner}
      BY <1>4 DEF NoLease
    <2>3. QED
      BY <1>2, <2>1, <2>2
  <1>5. CASE Tick
    BY <1>2, <1>5, ElapsedType DEF Tick
  <1>6. ASSUME UNCHANGED <<lease, overtaken>>, op[p] # "idle" => op'[p] # "idle"
        PROVE  op'[p] # "idle" /\ lease'.owner # p
    BY <1>2, <1>6
  <1>7. ASSUME NEW o \in Owner, ReadGeneration(o) \/ Release(o) \/ Crash(o)
        PROVE  op'[p] # "idle" /\ lease'.owner # p
    BY <1>4, <1>6, <1>7 DEF ReadGeneration, Release, Crash, ReleaseLease, Goto
  <1>8. ASSUME NEW o \in Owner, NEW wait \in 0..TTL, Gate(o, wait) \/ Write(o)
        PROVE  op'[p] # "idle" /\ lease'.owner # p
    BY <1>6, <1>8 DEF Gate, Write, Goto, local
  <1>9. QED
    BY <1>1, <1>3, <1>5, <1>6, <1>7, <1>8, TTLAssumption DEF Next, vars, local

\* Every step keeps Covered: a claim or a renewal writes what is left of the TTL,
\* a tick takes as much from the row as it adds to the age, and nobody else can
\* take, renew or release a row that is left.
LEMMA CoveredStep == LeaseInv /\ [Next]_vars => Covered'
  <1> SUFFICES ASSUME LeaseInv, [Next]_vars, NEW p \in Owner,
                      op'[p] # "idle", age'[p] < TTL
               PROVE  lease'.owner = p /\ lease'.left + age'[p] >= TTL
    BY DEF Covered
  <1> USE DEF LeaseInv, TypeOK, Covered
  <1>0. TTL \in Nat /\ age[p] \in 0..TTL /\ lease.left \in 0..TTL /\ NoOwner \notin Owner
    BY TTLAssumption, LeasesAssumption DEF LeaseRow
  <1>1. ASSUME NEW o \in Owner, NEW wait \in 0..TTL, Claim(o, wait)
        PROVE  lease'.owner = p /\ lease'.left + age'[p] >= TTL
    <2>1. CASE p = o
      BY <1>0, <1>1, <2>1 DEF Claim, ClaimLease, Goto
    <2>2. CASE p # o
      <3>1. op[p] # "idle" /\ age[p] < TTL
        BY <1>1, <2>2 DEF Claim, Goto
      <3>2. lease.owner = p /\ lease.left > 0
        BY <1>0, <3>1
      <3>3. QED
        BY <1>0, <1>1, <2>2, <3>2 DEF Claim, Claimable
    <2>3. QED
      BY <2>1, <2>2
  <1>2. ASSUME UNCHANGED lease, age'[p] = age[p], op[p] # "idle"
        PROVE  lease'.owner = p /\ lease'.left + age'[p] >= TTL
    BY <1>2
  <1>3. ASSUME NEW o \in Owner, NEW wait \in 0..TTL, Renew(o, wait)
        PROVE  lease'.owner = p /\ lease'.left + age'[p] >= TTL
    <2>1. op[p] # "idle"
      BY <1>3 DEF Renew, LoseLease, Goto
    <2>2. CASE UNCHANGED <<lease, age>>
      BY <1>2, <2>1, <2>2
    <2>3. CASE Renewable(lease, o, wait) /\ lease' = RenewLease(lease, wait)
               /\ age' = [age EXCEPT ![o] = wait]
      <3>1. CASE p = o
        BY <1>0, <2>3, <3>1 DEF Renewable, RenewLease, LeaseRow
      <3>2. CASE p # o
        BY <1>0, <2>1, <2>3, <3>2 DEF Renewable
      <3>3. QED
        BY <3>1, <3>2
    <2>4. QED
      BY <1>3, <2>2, <2>3 DEF Renew
  <1>4. ASSUME NEW o \in Owner, Return(o), lease' = lease \/ lease' = ReleaseLease(lease, o)
        PROVE  lease'.owner = p /\ lease'.left + age'[p] >= TTL
    <2>1. p # o /\ op[p] # "idle" /\ age'[p] = age[p]
      BY <1>4, ReturnTypes
    <2>2. lease.owner = p
      BY <2>1
    <2>3. QED
      BY <1>2, <1>4, <2>1, <2>2 DEF ReleaseLease
  <1>5. CASE Tick
    <2>1. op[p] # "idle" /\ age[p] < TTL /\ age'[p] = age[p] + 1
      BY <1>0, <1>5 DEF Tick
    <2>2. lease.owner = p /\ lease.left + age[p] >= TTL
      BY <2>1
    <2>3. lease' = [lease EXCEPT !.left = lease.left - 1]
      BY <1>0, <1>5, <2>1, <2>2 DEF Tick, Elapse
    <2>4. lease'.owner = p /\ lease'.left = lease.left - 1
      BY <2>2, <2>3 DEF LeaseRow
    <2>5. QED
      BY <1>0, <2>1, <2>2, <2>4
  <1>6. ASSUME NEW o \in Owner, ReadGeneration(o) \/ Release(o) \/ Crash(o)
        PROVE  lease'.owner = p /\ lease'.left + age'[p] >= TTL
    BY <1>2, <1>4, <1>6 DEF ReadGeneration, Release, Crash, Goto
  <1>7. ASSUME NEW o \in Owner, NEW wait \in 0..TTL, Gate(o, wait) \/ Write(o)
        PROVE  lease'.owner = p /\ lease'.left + age'[p] >= TTL
    BY <1>2, <1>7 DEF Gate, Write, Goto, local
  <1>8. CASE UNCHANGED vars
    BY <1>2, <1>8 DEF vars, local
  <1>9. QED
    BY <1>0, <1>1, <1>3, <1>5, <1>6, <1>7, <1>8 DEF Next

\* The inductive invariant holds of every behaviour.
THEOREM LeasesInductive == Spec => []LeaseInv
  <1>1. Init => LeaseInv
    BY TTLAssumption
       DEF Init, LeaseInv, TypeOK, OvertakenLost, Covered, NoLease, LeaseRow, OpState
  <1>2. LeaseInv /\ [Next]_vars => LeaseInv'
    BY TypeOKStep, OvertakenLostStep, CoveredStep DEF LeaseInv
  <1>3. QED
    BY <1>1, <1>2, PTL DEF Spec

\* The CommitLease gate never lets a writer through after another owner
\* claimed the lease, even when generations start over (lease.go, CommitLease).
THEOREM GateFences == Spec => NoStaleCommit
  <1>1. ASSUME LeaseInv, [Next]_vars
        PROVE  [\A o \in Owner, wait \in 0..TTL : Gate(o, wait) => ~ overtaken[o]]_vars
    BY <1>1 DEF LeaseInv, OvertakenLost, Gate, CommitLease
  <1>2. QED
    BY <1>1, LeasesInductive, PTL DEF Spec, NoStaleCommit

\* For every TTL and however long its owners wait for the write lock, stall,
\* renew or release late: nobody is granted a claim during an operation that
\* renewed within the TTL (lease.go and the renewal goroutines).
THEOREM LeaseLastsItsTTL == Spec => []OvertakenOutlivedLease
  <1>1. LeaseInv => OvertakenOutlivedLease
    BY TTLAssumption DEF LeaseInv, TypeOK, OvertakenLost, Covered, OvertakenOutlivedLease
  <1>2. QED
    BY <1>1, LeasesInductive, PTL

-----------------------------------------------------------------------------
(* StateOpen.                                                              *)

OpenPlace == {"closed", "create", "reopen", "pinned", "locked", "created", "validated",
              "committed", "open"}
OpenCall == [at : OpenPlace, file : 0..MaxFile, keyID : Nat, cipher : Nat]
Content == [ tables : {"none", "some", "all"}, meta : {"none", "other", "current"},
             key : Nat, sealed : SUBSET Nat ]

OpenTypes ==
    /\ files \in 0..MaxFile /\ named \in 0..files
    /\ db \in [1..MaxFile -> Content]
    /\ writing \in [1..MaxFile -> SUBSET Opener]
    /\ store \in [Opener -> OpenCall]
    /\ created \in Nat

\* A committed database names a key that was stored; nothing is sealed in any other
\* one, and in it only under its key.
SealedUnder(f) ==
    /\ S!Valid(db[f]) => db[f].key \in keyring \union deleted
    /\ ~S!Valid(db[f]) => db[f].sealed = {}
    /\ db[f].sealed \subseteq {db[f].key}

\* An opener between BEGIN IMMEDIATE and COMMIT has the write lock, so the database
\* it found empty still is when it commits the key it stored; from then on it goes
\* by the key the committed database names.
Opening(p) ==
    LET s == store[p] IN
    /\ s.at \in {"pinned", "locked", "created", "validated", "committed", "open"} =>
          s.file # 0
    /\ s.at \in {"locked", "created", "validated"} => writing[s.file] = {p}
    /\ s.at = "created" => db[s.file].tables = "none" /\ s.keyID \in keyring \union deleted
    /\ s.at \in {"validated", "committed", "open"} =>
          S!Valid(db[s.file]) /\ db[s.file].key = s.keyID
    /\ s.at = "open" => s.cipher = s.keyID

OpenInv ==
    /\ OpenTypes
    /\ \A f \in 1..MaxFile : SealedUnder(f)
    /\ \A p \in Opener : Opening(p)

LEMMA OpenKey == OpenInv => S!OneKey
  <1> SUFFICES ASSUME OpenInv PROVE S!OneKey
    OBVIOUS
  <1>1. \A p \in Opener : store[p].at = "open" => store[p].cipher = db[store[p].file].key
    BY DEF OpenInv, Opening
  <1>2. QED
    BY <1>1 DEF OpenInv, SealedUnder, S!OneKey, S!File, S!At, S!Mine

LEMMA OpenInit == S!Init => OpenInv
  <1> SUFFICES ASSUME S!Init PROVE OpenInv
    OBVIOUS
  <1> USE DEF S!File, S!Empty, S!Closed
  <1>1. PICK first \in { S!Empty, [S!Empty EXCEPT !.tables = "some"],
                         [S!Empty EXCEPT !.tables = "all", !.meta = "other"] } :
          db = [f \in 1..MaxFile |-> IF f = named THEN first ELSE S!Empty]
    BY DEF S!Init
  <1>2. /\ \A d \in {first, S!Empty} : d \in Content /\ ~S!Valid(d) /\ d.sealed = {}
        /\ S!Closed \in OpenCall /\ S!Closed.at = "closed"
    <2>1. /\ S!Empty \in Content /\ ~S!Valid(S!Empty) /\ S!Empty.sealed = {}
          /\ S!Closed \in OpenCall /\ S!Closed.at = "closed"
      BY PartsAssumption DEF Content, OpenCall, OpenPlace, S!Valid
    <2>2. ASSUME NEW d, d = [S!Empty EXCEPT !.tables = "some"]
          PROVE  d \in Content /\ ~S!Valid(d) /\ d.sealed = {}
      BY <2>2 DEF Content, S!Valid
    <2>3. ASSUME NEW d, d = [S!Empty EXCEPT !.tables = "all", !.meta = "other"]
          PROVE  d \in Content /\ ~S!Valid(d) /\ d.sealed = {}
      BY <2>3 DEF Content, S!Valid
    <2>4. QED
      BY <1>1, <2>1, <2>2, <2>3
  <1>3. OpenTypes
    BY <1>1, <1>2, PartsAssumption DEF S!Init, OpenTypes
  <1>4. \A f \in 1..MaxFile : SealedUnder(f)
    BY <1>1, <1>2 DEF SealedUnder
  <1>5. \A p \in Opener : Opening(p)
    BY <1>2 DEF S!Init, Opening
  <1>6. QED
    BY <1>3, <1>4, <1>5 DEF OpenInv

\* A step of one opener that leaves the databases, the locks of the others and the
\* stored keys.
LEMMA OpenerStep ==
    ASSUME OpenInv, OpenTypes', NEW p \in Opener, UNCHANGED db,
           \A q \in Opener \ {p} : store'[q] = store[q],
           \A f \in 1..MaxFile, q \in Opener \ {p} : writing[f] = {q} => writing'[f] = {q},
           keyring \union deleted \subseteq keyring' \union deleted',
           Opening(p)'
    PROVE  OpenInv'
  <1>1. ASSUME NEW f \in 1..MaxFile PROVE SealedUnder(f)'
    BY DEF OpenInv, SealedUnder
  <1>2. ASSUME NEW q \in Opener \ {p} PROVE Opening(q)'
    <2>1. store'[q] = store[q] /\ store[q] \in OpenCall /\ Opening(q)
      BY DEF OpenInv, OpenTypes
    <2>2. store[q].at \in {"locked", "created", "validated"} => store[q].file \in 1..MaxFile
      BY <2>1, PartsAssumption DEF Opening, OpenCall
    <2>3. QED
      BY <2>1, <2>2 DEF Opening
  <1>3. QED
    BY <1>1, <1>2 DEF OpenInv

LEMMA OpenFields ==
    ASSUME NEW c \in OpenCall
    PROVE  /\ c.at \in OpenPlace /\ c.file \in 0..MaxFile /\ c.keyID \in Nat /\ c.cipher \in Nat
           /\ \A l \in OpenPlace, f \in 0..MaxFile, k \in Nat, n \in Nat :
                 [at |-> l, file |-> f, keyID |-> k, cipher |-> n] \in OpenCall
           /\ c = [at |-> c.at, file |-> c.file, keyID |-> c.keyID, cipher |-> c.cipher]
           /\ S!Closed \in OpenCall /\ S!Closed.at = "closed"
           /\ {"closed", "create", "reopen", "pinned", "locked", "created", "validated",
               "committed", "open"} \subseteq OpenPlace
  <1>1. /\ S!Closed \in OpenCall /\ S!Closed.at = "closed"
    BY PartsAssumption DEF OpenCall, OpenPlace, S!Closed
  <1>2. {"closed", "create", "reopen", "pinned", "locked", "created", "validated",
         "committed", "open"} \subseteq OpenPlace
    BY DEF OpenPlace
  <1>3. QED
    BY <1>1, <1>2 DEF OpenCall

\* An open that ends, in whatever way, gives its write lock back.
LEMMA ShutStep ==
    ASSUME OpenInv, NEW p \in Opener, S!Shut(p), UNCHANGED <<named, files, db>>,
           created' \in Nat, keyring \union deleted \subseteq keyring' \union deleted',
           writing' = writing \/ writing' = S!Unlocked(p)
    PROVE  OpenInv'
  <1>1. store' = [store EXCEPT ![p] = S!Closed] /\ store \in [Opener -> OpenCall]
    BY DEF S!Shut, OpenInv, OpenTypes
  <1>2. store' \in [Opener -> OpenCall] /\ store'[p].at = "closed"
    BY <1>1, OpenFields
  <1>3. \A q \in Opener \ {p} : store'[q] = store[q]
    BY <1>1
  <1>4. /\ writing' \in [1..MaxFile -> SUBSET Opener]
        /\ \A f \in 1..MaxFile, q \in Opener \ {p} : writing[f] = {q} => writing'[f] = {q}
    BY DEF OpenInv, OpenTypes, S!Unlocked, S!File
  <1>5. OpenTypes'
    BY <1>2, <1>4 DEF OpenInv, OpenTypes
  <1>6. Opening(p)'
    BY <1>2 DEF Opening
  <1>7. QED
    BY <1>3, <1>4, <1>5, <1>6, OpenerStep

\* secureStatePath: the file is pinned, or the next attempt at it follows.
LEMMA PinStep ==
    ASSUME OpenInv, NEW p \in Opener,
           S!OpenStateHandles(p) \/ S!CreateFile(p) \/ S!OpenStateAt(p)
    PROVE  OpenInv'
  <1>0. /\ store \in [Opener -> OpenCall] /\ store[p] \in OpenCall
        /\ files \in 0..MaxFile /\ named \in 0..files /\ MaxFile \in Nat
        /\ UNCHANGED <<db, writing, keyring, created, deleted>>
    BY PartsAssumption
       DEF OpenInv, OpenTypes, S!OpenStateHandles, S!CreateFile, S!OpenStateAt
  <1>1. ASSUME NEW f \in 1..MaxFile, S!Pin(p, f),
               files' \in 0..MaxFile, named' \in 0..files'
        PROVE  OpenInv'
    <2>1. store' = [store EXCEPT ![p] = [store[p] EXCEPT !.at = "pinned", !.file = f]]
      BY <1>0, <1>1 DEF S!Pin
    <2> DEFINE c == [store[p] EXCEPT !.at = "pinned", !.file = f]
    <2>2. c \in OpenCall /\ c.at = "pinned" /\ c.file = f
      <3>1. "pinned" \in OpenPlace /\ f \in 0..MaxFile
        BY <1>0, OpenFields
      <3>2. QED
        BY <1>0, <3>1 DEF OpenCall
    <2>3. /\ store' = [store EXCEPT ![p] = c] /\ store'[p] = c
          /\ \A q \in Opener \ {p} : store'[q] = store[q]
      BY <1>0, <2>1
    <2> HIDE DEF c
    <2>4. OpenTypes'
      BY <1>0, <1>1, <2>2, <2>3 DEF OpenInv, OpenTypes
    <2>5. Opening(p)'
      BY <2>2, <2>3 DEF Opening
    <2>6. QED
      BY <1>0, <2>3, <2>4, <2>5, OpenerStep
  <1>2. ASSUME NEW l \in {"create", "reopen"}, S!Goto(p, l), UNCHANGED <<named, files>>
        PROVE  OpenInv'
    <2>1. store' = [store EXCEPT ![p] = [store[p] EXCEPT !.at = l]]
      BY <1>0, <1>2 DEF S!Goto
    <2> DEFINE c == [store[p] EXCEPT !.at = l]
    <2>2. c \in OpenCall /\ c.at = l
      BY <1>0, OpenFields DEF OpenCall
    <2>3. /\ store' = [store EXCEPT ![p] = c] /\ store'[p] = c
          /\ \A q \in Opener \ {p} : store'[q] = store[q]
      BY <1>0, <2>1
    <2> HIDE DEF c
    <2>4. OpenTypes'
      BY <1>0, <1>2, <2>2, <2>3 DEF OpenInv, OpenTypes
    <2>5. Opening(p)'
      BY <1>2, <2>2, <2>3 DEF Opening
    <2>6. QED
      BY <1>0, <2>3, <2>4, <2>5, OpenerStep
  <1>3. CASE S!OpenStateHandles(p)
    <2>1. CASE named # 0 /\ S!Pin(p, named)
      BY <1>0, <1>1, <1>3, <2>1 DEF S!OpenStateHandles
    <2>2. CASE S!Goto(p, "create")
      BY <1>2, <1>3, <2>2 DEF S!OpenStateHandles
    <2>3. QED
      BY <1>3, <2>1, <2>2 DEF S!OpenStateHandles
  <1>4. CASE S!CreateFile(p)
    <2>1. CASE files < MaxFile /\ files' = files + 1 /\ named' = files + 1 /\ S!Pin(p, files + 1)
      BY <1>0, <1>1, <2>1
    <2>2. CASE S!Goto(p, "reopen") /\ UNCHANGED <<named, files>>
      BY <1>2, <2>2
    <2>3. QED
      BY <1>4, <2>1, <2>2 DEF S!CreateFile
  <1>5. CASE S!OpenStateAt(p)
    <2>1. CASE named # 0
      BY <1>0, <1>1, <1>5, <2>1 DEF S!OpenStateAt
    <2>2. CASE named = 0
      <3>1. S!Shut(p) /\ UNCHANGED <<named, files>>
        BY <1>5, <2>2 DEF S!OpenStateAt
      <3>2. created' \in Nat
        BY <1>0 DEF OpenInv, OpenTypes
      <3>3. QED
        BY <1>0, <3>1, <3>2, ShutStep
    <2>3. QED
      BY <2>1, <2>2
  <1>6. QED
    BY <1>3, <1>4, <1>5

\* openSQLite and initializeOrValidate up to the commit: the write lock is taken,
\* and a key is stored or the one the database names is taken over.
LEMMA BeginStep ==
    ASSUME OpenInv, NEW p \in Opener, S!Begin(p)
    PROVE  OpenInv'
  <1> DEFINE f == store[p].file
  <1>0. /\ store \in [Opener -> OpenCall] /\ store[p] \in OpenCall /\ store[p].at = "pinned"
        /\ f \in 1..MaxFile /\ writing \in [1..MaxFile -> SUBSET Opener] /\ created' \in Nat
        /\ UNCHANGED <<named, files, db, keyring, created, deleted>>
    BY PartsAssumption DEF OpenInv, OpenTypes, Opening, OpenCall, S!Begin, S!At
  <1>1. CASE S!Shut(p) /\ UNCHANGED writing
    BY <1>0, <1>1, ShutStep
  <1>2. CASE /\ writing[f] = {} /\ writing' = [writing EXCEPT ![f] = {p}]
             /\ store' = [store EXCEPT ![p] = [store[p] EXCEPT !.at = "locked"]]
    <2> DEFINE c == [store[p] EXCEPT !.at = "locked"]
    <2>1. c \in OpenCall /\ c.at = "locked" /\ c.file = f
      BY <1>0, OpenFields DEF OpenCall
    <2>2. /\ store' = [store EXCEPT ![p] = c] /\ store'[p] = c
          /\ \A q \in Opener \ {p} : store'[q] = store[q]
      BY <1>0, <1>2
    <2> HIDE DEF c, f
    <2>3. /\ writing' \in [1..MaxFile -> SUBSET Opener] /\ writing'[f] = {p}
          /\ \A g \in 1..MaxFile, q \in Opener \ {p} : writing[g] = {q} => writing'[g] = {q}
      BY <1>0, <1>2
    <2>4. OpenTypes'
      BY <1>0, <2>1, <2>2, <2>3 DEF OpenInv, OpenTypes
    <2>5. Opening(p)'
      BY <1>0, <2>1, <2>2, <2>3 DEF Opening
    <2>6. QED
      BY <1>0, <2>2, <2>3, <2>4, <2>5, OpenerStep
  <1>3. [store EXCEPT ![p].at = "locked", ![p].file = f] =
        [store EXCEPT ![p] = [store[p] EXCEPT !.at = "locked"]]
    <2>1. [store[p] EXCEPT !.at = "locked", !.file = f] = [store[p] EXCEPT !.at = "locked"]
      BY <1>0 DEF OpenCall
    <2>2. QED
      BY <1>0, <2>1
  <1>4. QED
    BY <1>1, <1>2, <1>3 DEF S!Begin, S!SqlitePinnedPath, S!Mine

LEMMA StateKeyStep ==
    ASSUME OpenInv, NEW p \in Opener, S!InitializeDatabase(p)
    PROVE  OpenInv'
  <1> DEFINE k == created + 1
  <1>0. /\ store \in [Opener -> OpenCall] /\ store[p] \in OpenCall
        /\ UNCHANGED <<named, files, db, deleted>> /\ created' = k /\ k \in Nat
        /\ store[p].at = "locked" /\ db[store[p].file].tables = "none"
        /\ store[p].file # 0 /\ writing[store[p].file] = {p}
    BY DEF OpenInv, OpenTypes, Opening, S!InitializeDatabase, S!At, S!DatabaseIsEmpty, S!Mine
  <1> HIDE DEF k
  <1>1. CASE /\ keyring' \in {keyring, S!CreateStateKey(k)}
             /\ S!Shut(p) /\ writing' = S!Unlocked(p)
    <2>1. keyring \union deleted \subseteq keyring' \union deleted'
      BY <1>0, <1>1 DEF S!CreateStateKey
    <2>2. QED
      BY <1>0, <1>1, <2>1, ShutStep
  <1>2. CASE /\ keyring' = S!CreateStateKey(k) /\ UNCHANGED writing
             /\ store' = [store EXCEPT ![p] =
                            [store[p] EXCEPT !.at = "created", !.keyID = k, !.cipher = k]]
    <2> DEFINE c == [store[p] EXCEPT !.at = "created", !.keyID = k, !.cipher = k]
    <2>1. c \in OpenCall /\ c.at = "created" /\ c.file = store[p].file /\ c.keyID = k
      <3>1. "created" \in OpenPlace
        BY DEF OpenPlace
      <3>2. QED
        BY <1>0, <3>1 DEF OpenCall
    <2>2. /\ store' = [store EXCEPT ![p] = c] /\ store'[p] = c
          /\ \A q \in Opener \ {p} : store'[q] = store[q]
      BY <1>0, <1>2
    <2> HIDE DEF c
    <2>3. OpenTypes'
      BY <1>0, <1>2, <2>1, <2>2 DEF OpenInv, OpenTypes
    <2>4. k \in keyring' /\ keyring \subseteq keyring'
      BY <1>2 DEF S!CreateStateKey
    <2>5. Opening(p)'
      BY <1>0, <1>2, <2>1, <2>2, <2>4 DEF Opening
    <2>6. QED
      BY <1>0, <1>2, <2>2, <2>3, <2>4, <2>5, OpenerStep
  <1>3. QED
    BY <1>0, <1>1, <1>2 DEF S!InitializeDatabase

LEMMA ValidateStep ==
    ASSUME OpenInv, NEW p \in Opener, S!ValidateMeta(p)
    PROVE  OpenInv'
  <1> DEFINE k == db[store[p].file].key
  <1>0. /\ store \in [Opener -> OpenCall] /\ store[p] \in OpenCall
        /\ UNCHANGED <<named, files, db, keyring, created, deleted>> /\ created' \in Nat
        /\ store[p].at = "locked"
        /\ store[p].file \in 1..MaxFile /\ writing[store[p].file] = {p}
    BY PartsAssumption DEF OpenInv, OpenTypes, Opening, OpenCall, S!ValidateMeta, S!At
  <1>1. k \in Nat
    BY <1>0 DEF OpenInv, OpenTypes, Content
  <1>2. CASE S!Shut(p) /\ writing' = S!Unlocked(p)
    BY <1>0, <1>2, ShutStep
  <1>3. CASE /\ S!Valid(db[store[p].file]) /\ UNCHANGED writing
             /\ store' = [store EXCEPT ![p] =
                            [store[p] EXCEPT !.at = "validated", !.keyID = k]]
    <2> DEFINE c == [store[p] EXCEPT !.at = "validated", !.keyID = k]
    <2> HIDE DEF k
    <2>1. c \in OpenCall /\ c.at = "validated" /\ c.file = store[p].file /\ c.keyID = k
      <3>1. "validated" \in OpenPlace
        BY DEF OpenPlace
      <3>2. QED
        BY <1>0, <1>1, <3>1 DEF OpenCall
    <2>2. /\ store' = [store EXCEPT ![p] = c] /\ store'[p] = c
          /\ \A q \in Opener \ {p} : store'[q] = store[q]
      BY <1>0, <1>3
    <2> HIDE DEF c
    <2>3. OpenTypes'
      BY <1>0, <1>3, <2>1, <2>2 DEF OpenInv, OpenTypes
    <2>4. Opening(p)'
      BY <1>0, <1>3, <2>1, <2>2 DEF Opening, k
    <2>5. QED
      BY <1>0, <1>3, <2>2, <2>3, <2>4, OpenerStep
  <1>4. QED
    BY <1>2, <1>3 DEF S!ValidateMeta, S!Mine

LEMMA CommitStep ==
    ASSUME OpenInv, NEW p \in Opener, S!CommitInitialization(p)
    PROVE  OpenInv'
  <1> DEFINE f == store[p].file
             c == [store[p] EXCEPT !.at = "committed"]
  <1>0. /\ store \in [Opener -> OpenCall] /\ store[p] \in OpenCall /\ Opening(p)
        /\ db \in [1..MaxFile -> Content] /\ writing \in [1..MaxFile -> SUBSET Opener]
        /\ UNCHANGED <<named, files, keyring, created, deleted>> /\ created' \in Nat
        /\ store[p].at \in {"created", "validated"} /\ writing' = S!Unlocked(p)
        /\ f \in 1..MaxFile /\ writing[f] = {p}
    BY PartsAssumption
       DEF OpenInv, OpenTypes, Opening, OpenCall, S!CommitInitialization
  <1>1. CASE S!Shut(p) /\ UNCHANGED db
    BY <1>0, <1>1, ShutStep
  <1>2. c \in OpenCall /\ c.at = "committed" /\ c.file = f /\ c.keyID = store[p].keyID
    BY <1>0, OpenFields DEF OpenCall
  <1>3. /\ writing' \in [1..MaxFile -> SUBSET Opener]
        /\ \A g \in 1..MaxFile, q \in Opener \ {p} : writing[g] = {q} => writing'[g] = {q}
    BY <1>0 DEF S!Unlocked, S!File
  <1>4. ASSUME store' = [store EXCEPT ![p] = c]
        PROVE  /\ store' \in [Opener -> OpenCall] /\ store'[p] = c
               /\ \A q \in Opener \ {p} : store'[q] = store[q]
    BY <1>0, <1>2, <1>4
  <1> HIDE DEF c
  <1>5. CASE store' = [store EXCEPT ![p] = c] /\ store[p].at = "validated" /\ UNCHANGED db
    <2>1. OpenTypes'
      BY <1>0, <1>3, <1>4, <1>5 DEF OpenInv, OpenTypes
    <2>2. Opening(p)'
      BY <1>0, <1>2, <1>4, <1>5 DEF Opening
    <2>3. QED
      BY <1>0, <1>3, <1>4, <1>5, <2>1, <2>2, OpenerStep
  <1>6. CASE /\ store' = [store EXCEPT ![p] = c] /\ store[p].at = "created"
             /\ db' = [db EXCEPT ![f] = S!Initialized(p)]
    <2> DEFINE d == S!Initialized(p)
    <2>1. db[f] \in Content /\ SealedUnder(f) /\ store[p].keyID \in Nat
      BY <1>0, OpenFields DEF OpenInv
    <2>2. db[f].tables = "none" /\ store[p].keyID \in keyring \union deleted
      BY <1>0, <1>6 DEF Opening
    <2>3. db[f].sealed = {}
      BY <2>1, <2>2 DEF SealedUnder, S!Valid
    <2>4. d \in Content /\ S!Valid(d) /\ d.key = store[p].keyID /\ d.sealed = {}
      BY <2>1, <2>3 DEF S!Initialized, S!Mine, Content, S!Valid
    <2> HIDE DEF d, f
    <2>5. /\ db' \in [1..MaxFile -> Content] /\ db'[f] = d
          /\ \A g \in 1..MaxFile : g # f => db'[g] = db[g]
      BY <1>0, <1>6, <2>4 DEF d
    <2>6. OpenTypes'
      BY <1>0, <1>3, <1>4, <1>6, <2>5 DEF OpenInv, OpenTypes
    <2>7. ASSUME NEW g \in 1..MaxFile PROVE SealedUnder(g)'
      <3>1. CASE g = f
        BY <1>0, <2>2, <2>4, <2>5, <3>1 DEF SealedUnder
      <3>2. CASE g # f
        BY <1>0, <2>5, <3>2 DEF OpenInv, SealedUnder
      <3>3. QED
        BY <3>1, <3>2
    <2>8. ASSUME NEW q \in Opener PROVE Opening(q)'
      <3>1. CASE q = p
        BY <1>0, <1>2, <1>4, <1>6, <2>4, <2>5, <3>1 DEF Opening, f
      <3>2. CASE q # p
        <4>1. store'[q] = store[q] /\ store[q] \in OpenCall /\ Opening(q)
          BY <1>0, <1>4, <1>6, <3>2 DEF OpenInv
        <4>2. store[q].at # "closed" /\ store[q].file # 0 => store[q].file \in 1..MaxFile
          BY <4>1, PartsAssumption DEF OpenCall
        <4>3. store[q].at \in {"locked", "created", "validated"} => store[q].file # f
          BY <1>0, <3>2, <4>1 DEF Opening, f
        <4>4. store[q].at \in {"committed", "open"} => store[q].file # f
          BY <2>2, <4>1 DEF Opening, S!Valid
        <4>5. QED
          BY <1>0, <1>3, <2>5, <3>2, <4>1, <4>2, <4>3, <4>4 DEF Opening
      <3>3. QED
        BY <3>1, <3>2
    <2>9. QED
      BY <2>6, <2>7, <2>8 DEF OpenInv
  <1>7. QED
    BY <1>0, <1>1, <1>5, <1>6 DEF S!CommitInitialization, S!Goto, S!At, S!Mine, c

\* GetStateKey: the open fails closed, or goes by the key the database names.
LEMMA KeyStep ==
    ASSUME OpenInv, NEW p \in Opener, S!GetStateKey(p)
    PROVE  OpenInv'
  <1> DEFINE c == [store[p] EXCEPT !.at = "open", !.cipher = store[p].keyID]
  <1>0. /\ store \in [Opener -> OpenCall] /\ store[p] \in OpenCall /\ Opening(p)
        /\ UNCHANGED <<named, files, db, writing, keyring, created, deleted>>
        /\ created' \in Nat /\ store[p].at = "committed"
    BY DEF OpenInv, OpenTypes, S!GetStateKey, S!At
  <1>1. CASE S!Shut(p)
    BY <1>0, <1>1, ShutStep
  <1>2. CASE store' = [store EXCEPT ![p] = c]
    <2>1. /\ c \in OpenCall /\ c.at = "open" /\ c.file = store[p].file
          /\ c.keyID = store[p].keyID /\ c.cipher = store[p].keyID
      <3>1. "open" \in OpenPlace
        BY DEF OpenPlace
      <3>2. QED
        BY <1>0, <3>1 DEF OpenCall
    <2> HIDE DEF c
    <2>2. /\ store'[p] = c /\ \A q \in Opener \ {p} : store'[q] = store[q]
      BY <1>0, <1>2
    <2>3. OpenTypes'
      BY <1>0, <1>2, <2>1 DEF OpenInv, OpenTypes
    <2>4. Opening(p)'
      BY <1>0, <2>1, <2>2 DEF Opening
    <2>5. QED
      BY <1>0, <2>2, <2>3, <2>4, OpenerStep
  <1>3. QED
    BY <1>1, <1>2 DEF S!GetStateKey

LEMMA SealStep ==
    ASSUME OpenInv, NEW p \in Opener, S!Seal(p)
    PROVE  OpenInv'
  <1> DEFINE f == store[p].file
             d == [db[f] EXCEPT !.sealed = @ \union {store[p].cipher}]
  <1>0. /\ store[p] \in OpenCall /\ Opening(p) /\ store[p].at = "open"
        /\ UNCHANGED <<named, files, writing, keyring, created, deleted, store>>
        /\ f \in 1..MaxFile /\ db \in [1..MaxFile -> Content]
    BY PartsAssumption DEF OpenInv, OpenTypes, Opening, OpenCall, S!Seal, S!At
  <1>1. /\ db[f] \in Content /\ SealedUnder(f) /\ store[p].cipher = db[f].key
        /\ S!Valid(db[f])
    BY <1>0 DEF OpenInv, Opening
  <1>2. db' = [db EXCEPT ![f] = d]
    BY <1>0 DEF S!Seal, S!Mine
  <1>3. /\ d \in Content /\ S!Valid(d) /\ d.key = db[f].key
        /\ d.tables = db[f].tables /\ d.sealed = db[f].sealed \union {db[f].key}
    BY <1>1 DEF Content, S!Valid
  <1> HIDE DEF d, f
  <1>4. /\ db' \in [1..MaxFile -> Content] /\ db'[f] = d
        /\ \A g \in 1..MaxFile : g # f => db'[g] = db[g]
    BY <1>0, <1>2, <1>3
  <1>5. OpenTypes'
    BY <1>0, <1>4 DEF OpenInv, OpenTypes
  <1>6. ASSUME NEW g \in 1..MaxFile PROVE SealedUnder(g)'
    <2>1. CASE g = f
      BY <1>0, <1>1, <1>3, <1>4, <2>1 DEF SealedUnder
    <2>2. CASE g # f
      BY <1>0, <1>4, <2>2 DEF OpenInv, SealedUnder
    <2>3. QED
      BY <2>1, <2>2
  <1>7. ASSUME NEW q \in Opener PROVE Opening(q)'
    <2>1. Opening(q) /\ store[q] \in OpenCall
      BY DEF OpenInv, OpenTypes
    <2>2. store[q].file \in 1..MaxFile \/ store[q].file = 0
      BY <2>1, PartsAssumption DEF OpenCall
    <2>3. CASE store[q].file = f
      BY <1>0, <1>1, <1>3, <1>4, <2>1, <2>3 DEF Opening
    <2>4. CASE store[q].file # f /\ store[q].file \in 1..MaxFile
      BY <1>0, <1>4, <2>1, <2>4 DEF Opening
    <2>5. CASE store[q].file = 0
      BY <1>0, <2>1, <2>5 DEF Opening
    <2>6. QED
      BY <2>2, <2>3, <2>4, <2>5
  <1>8. QED
    BY <1>5, <1>6, <1>7 DEF OpenInv

\* A power loss closes every store; a database whose commit is lost is empty again.
LEMMA PowerLossStep == OpenInv /\ S!PowerLoss => OpenInv'
  <1> SUFFICES ASSUME OpenInv, S!PowerLoss PROVE OpenInv'
    OBVIOUS
  <1>0. /\ UNCHANGED <<named, files, keyring, created, deleted>>
        /\ store' = [p \in Opener |-> S!Closed] /\ writing' = [f \in 1..MaxFile |-> {}]
        /\ db \in [1..MaxFile -> Content]
    BY DEF S!PowerLoss, S!File, OpenInv, OpenTypes
  <1>1. PICK f \in 1..MaxFile, lost \in {"nothing", "blobs", "all"} :
          db' = CASE lost = "nothing" -> db
                  [] lost = "blobs" -> [db EXCEPT ![f].sealed = {}]
                  [] lost = "all" -> [db EXCEPT ![f] = IF S!Valid(@) THEN S!Empty ELSE @]
    BY DEF S!PowerLoss, S!File
  <1>2. /\ S!Closed \in OpenCall /\ S!Closed.at = "closed"
        /\ S!Empty \in Content /\ ~S!Valid(S!Empty) /\ S!Empty.sealed = {}
    BY PartsAssumption DEF OpenCall, OpenPlace, S!Closed, Content, S!Empty, S!Valid
  <1>3. \A p \in Opener : Opening(p)'
    BY <1>0, <1>2 DEF Opening
  <1>4. ASSUME NEW d \in Content, db' = [db EXCEPT ![f] = d],
               \/ d = S!Empty \/ d = db[f]
               \/ d.sealed = {} /\ d.key = db[f].key /\ S!Valid(d) = S!Valid(db[f])
        PROVE  OpenInv'
    <2>1. /\ db' \in [1..MaxFile -> Content] /\ db'[f] = d
          /\ \A g \in 1..MaxFile : g # f => db'[g] = db[g]
      BY <1>0, <1>4
    <2>2. OpenTypes'
      BY <1>0, <1>2, <2>1 DEF OpenInv, OpenTypes
    <2>3. ASSUME NEW g \in 1..MaxFile PROVE SealedUnder(g)'
      <3>1. SealedUnder(g)
        BY DEF OpenInv
      <3>2. CASE g = f
        BY <1>0, <1>2, <1>4, <2>1, <3>1, <3>2 DEF SealedUnder
      <3>3. CASE g # f
        BY <1>0, <2>1, <3>1, <3>3 DEF SealedUnder
      <3>4. QED
        BY <3>2, <3>3
    <2>4. QED
      BY <1>3, <2>2, <2>3 DEF OpenInv
  <1>5. CASE lost = "nothing"
    BY <1>0, <1>1, <1>4, <1>5
  <1>6. CASE lost = "blobs"
    <2> DEFINE d == [db[f] EXCEPT !.sealed = {}]
    <2>1. d \in Content /\ d.sealed = {} /\ d.key = db[f].key /\ S!Valid(d) = S!Valid(db[f])
      BY <1>0 DEF Content, S!Valid
    <2>2. db' = [db EXCEPT ![f] = d]
      BY <1>1, <1>6
    <2>3. QED
      BY <1>4, <2>1, <2>2
  <1>7. CASE lost = "all"
    BY <1>0, <1>1, <1>2, <1>4, <1>7
  <1>8. QED
    BY <1>5, <1>6, <1>7

\* The profile directory removed, or a key the user deletes.
LEMMA HitStep ==
    ASSUME OpenInv, S!RemoveProfile \/ \E k \in S!Key : S!DeleteKey(k)
    PROVE  OpenInv'
  <1>1. /\ UNCHANGED <<files, db, writing, created, store>> /\ named' \in 0..files
        /\ keyring \union deleted \subseteq keyring' \union deleted'
    BY DEF OpenInv, OpenTypes, S!RemoveProfile, S!DeleteKey
  <1>2. OpenTypes' /\ \A f \in 1..MaxFile : SealedUnder(f)'
    BY <1>1 DEF OpenInv, OpenTypes, SealedUnder
  <1>3. \A p \in Opener : Opening(p)'
    BY <1>1 DEF OpenInv, Opening
  <1>4. QED
    BY <1>2, <1>3 DEF OpenInv

LEMMA OpenStep == OpenInv /\ S!Next => OpenInv'
  <1> SUFFICES ASSUME OpenInv, S!Next PROVE OpenInv'
    OBVIOUS
  <1>1. ASSUME NEW p \in Opener, S!ValidateHandles(p) \/ S!Close(p) \/ S!Crash(p)
        PROVE  OpenInv'
    <2>1. /\ S!Shut(p) /\ UNCHANGED <<named, files, db, keyring, created, deleted>>
          /\ created \in Nat /\ (writing' = writing \/ writing' = S!Unlocked(p))
      BY <1>1 DEF OpenInv, OpenTypes, S!ValidateHandles, S!Close, S!Crash
    <2>2. QED
      BY <2>1, ShutStep
  <1>2. ASSUME NEW p \in Opener,
               \/ S!OpenStateHandles(p) \/ S!CreateFile(p) \/ S!OpenStateAt(p)
               \/ S!Begin(p) \/ S!InitializeDatabase(p) \/ S!ValidateMeta(p)
               \/ S!CommitInitialization(p) \/ S!GetStateKey(p) \/ S!Seal(p)
        PROVE  OpenInv'
    BY <1>2, PinStep, BeginStep, StateKeyStep, ValidateStep, CommitStep, KeyStep, SealStep
  <1>3. QED
    BY <1>1, <1>2, PowerLossStep, HitStep DEF S!Next

\* Opens of one profile that race, crash and fail to commit never leave a committed
\* database whose key was not stored, and never seal one under two keys (store.go,
\* initializeOrValidate).
THEOREM DatabaseHasItsKey == PartSpec => []OneKey
  <1> DEFINE Inv == part = "open" => OpenInv
  <1>1. PartInit => Inv
    BY OpenInit DEF PartInit
  <1>2. Inv /\ [PartNext]_partVars => Inv'
    <2> SUFFICES ASSUME Inv, [PartNext]_partVars, part' = "open" PROVE OpenInv'
      OBVIOUS
    <2>1. part = "open" /\ (S!Next \/ UNCHANGED openOnly)
      BY DEF PartNext, partVars
    <2>2. CASE UNCHANGED openOnly
      BY <2>1, <2>2
         DEF openOnly, OpenInv, OpenTypes, SealedUnder, Opening
    <2>3. QED
      BY <2>1, <2>2, OpenStep
  <1>3. Inv => OneKey
    BY OpenKey DEF OneKey
  <1>4. QED
    BY <1>1, <1>2, <1>3, PTL DEF PartSpec

-----------------------------------------------------------------------------
(* Login.                                                                  *)

LoginPlace == {"idle", "discover", "bind", "register", "handoff", "wait", "shutdown", "exchange"}
Client == [id : Nat, redirect : Port \union {NoPort}]
Answer == [kind : {"none", "code", "error"}, state : 0..MaxAttempt]
LoginCall ==
    [ at : LoginPlace, attempt : 0..MaxAttempt, port : Port \union {NoPort}, client : Client,
      decided : BOOLEAN, terminal : Answer, outcome : Answer ]

LoginTypes ==
    /\ client \in Client
    /\ call \in [Process -> LoginCall]
    /\ attempts \in 0..MaxAttempt
    /\ accepted \in [1..MaxAttempt -> Nat]
    /\ redeemed \in [1..MaxAttempt -> Answer]

\* What the browser has: requests whose client serves their redirect, and answers
\* to requests.
Browser ==
    /\ \A t \in tabs : t.state \in 0..MaxAttempt /\ t.client.redirect \in {NoPort, t.redirect}
    /\ \A r \in requests : r.answer \in Answer /\ r.answer.kind # "none"

\* An attempt under way has shown the accept page once if it is decided and never
\* otherwise, and keeps as its terminal callback the answer to its own request;
\* the outcome it waits for and the code it exchanges are that callback.
Attempting(p) ==
    LET c == call[p] IN
    /\ c.at = "idle" => c = L!NoAttempt
    /\ c.at # "idle" =>
          /\ c.attempt \in 1..attempts
          /\ redeemed[c.attempt] = L!Nothing
          /\ accepted[c.attempt] = IF c.decided THEN 1 ELSE 0
    /\ IF c.decided THEN c.terminal.state = c.attempt /\ c.terminal.kind # "none"
       ELSE c.terminal = L!Nothing
    /\ c.outcome # L!Nothing => c.outcome = c.terminal
    /\ c.at = "exchange" => c.outcome.kind = "code"
    /\ c.at = "handoff" => c.client.redirect \in {NoPort, c.port}

OwnCode(a) ==
    /\ accepted[a] <= 1
    /\ redeemed[a] # L!Nothing =>
          redeemed[a] = [kind |-> "code", state |-> a] /\ accepted[a] = 1

\* The attempts under way are different ones, and those not started left no trace.
LoginInv ==
    /\ LoginTypes /\ Browser
    /\ \A p \in Process : Attempting(p)
    /\ \A p, q \in Process :
          p # q /\ call[p].at # "idle" /\ call[q].at # "idle" =>
             call[p].attempt # call[q].attempt
    /\ \A a \in 1..MaxAttempt :
          /\ a > attempts => accepted[a] = 0 /\ redeemed[a] = L!Nothing
          /\ OwnCode(a)

LEMMA NoAttemptFacts ==
    /\ L!Nothing \in Answer /\ L!Nothing.kind = "none" /\ L!Nothing.state = 0
    /\ L!NoAttempt \in LoginCall /\ L!NoAttempt.at = "idle" /\ L!NoAttempt.decided = FALSE
    /\ L!NoAttempt.terminal = L!Nothing /\ L!NoAttempt.outcome = L!Nothing
  <1>1. L!Nothing \in Answer /\ L!Nothing.kind = "none" /\ L!Nothing.state = 0
    BY PartsAssumption DEF L!Nothing, Answer
  <1>2. L!NoClient \in Client
    BY DEF L!NoClient, Client
  <1>3. QED
    BY <1>1, <1>2, PartsAssumption DEF L!NoAttempt, LoginCall, LoginPlace

LEMMA LoginInit == L!Init => LoginInv
  <1> SUFFICES ASSUME L!Init PROVE LoginInv
    OBVIOUS
  <1>1. client \in Client
    BY PartsAssumption DEF L!Init, L!NoClient, Client
  <1>2. LoginTypes /\ Browser
    BY <1>1, NoAttemptFacts, PartsAssumption DEF L!Init, LoginTypes, Browser
  <1>3. \A p \in Process : call[p] = L!NoAttempt
    BY DEF L!Init
  <1>4. \A p \in Process : Attempting(p)
    BY <1>3, NoAttemptFacts DEF Attempting
  <1>5. \A a \in 1..MaxAttempt : accepted[a] = 0 /\ redeemed[a] = L!Nothing
    BY DEF L!Init
  <1>6. QED
    BY <1>2, <1>3, <1>4, <1>5, NoAttemptFacts DEF LoginInv, OwnCode

\* A step of one process that starts no attempt, shows no page and exchanges no code.
LEMMA LoginerStep ==
    ASSUME LoginInv, NEW p \in Process, UNCHANGED <<attempts, accepted, redeemed>>,
           client' \in Client, call' \in [Process -> LoginCall], Browser',
           \A q \in Process \ {p} : call'[q] = call[q],
           \/ call'[p].at = "idle"
           \/ call[p].at # "idle" /\ call'[p].attempt = call[p].attempt,
           Attempting(p)'
    PROVE  LoginInv'
  <1>1. LoginTypes'
    BY DEF LoginInv, LoginTypes
  <1>2. ASSUME NEW q \in Process PROVE Attempting(q)'
    BY DEF LoginInv, Attempting
  <1>3. ASSUME NEW a \in 1..MaxAttempt
        PROVE  /\ a > attempts' => accepted'[a] = 0 /\ redeemed'[a] = L!Nothing
               /\ OwnCode(a)'
    BY DEF LoginInv, OwnCode
  <1>4. ASSUME NEW q \in Process, NEW r \in Process, q # r,
               call'[q].at # "idle", call'[r].at # "idle"
        PROVE  call'[q].attempt # call'[r].attempt
    BY <1>4 DEF LoginInv
  <1>5. QED
    BY <1>1, <1>2, <1>3, <1>4 DEF LoginInv

\* Every return of Run.
LEMMA ReturnStep ==
    ASSUME LoginInv, NEW p \in Process, call' = [call EXCEPT ![p] = L!NoAttempt],
           UNCHANGED <<client, tabs, attempts, accepted, redeemed>>,
           requests' \subseteq requests
    PROVE  LoginInv'
  <1>1. /\ call' \in [Process -> LoginCall] /\ call'[p] = L!NoAttempt
        /\ \A q \in Process \ {p} : call'[q] = call[q]
    BY NoAttemptFacts DEF LoginInv, LoginTypes
  <1>2. client' \in Client /\ Browser'
    BY DEF LoginInv, LoginTypes, Browser
  <1>3. Attempting(p)'
    BY <1>1, NoAttemptFacts DEF Attempting
  <1>4. QED
    BY <1>1, <1>2, <1>3, NoAttemptFacts, LoginerStep

\* An attempt that goes on, to a place where nothing is owed.
LEMMA OnwardStep ==
    ASSUME LoginInv, NEW p \in Process, call[p].at # "idle", NEW c \in LoginCall,
           call' = [call EXCEPT ![p] = c], c.at # "idle",
           c.attempt = call[p].attempt, c.decided = call[p].decided,
           c.terminal = call[p].terminal,
           c.outcome = call[p].outcome \/ c.outcome \in {L!Nothing, c.terminal},
           c.at = "exchange" => c.outcome.kind = "code",
           c.at = "handoff" => c.client.redirect \in {NoPort, c.port},
           client' \in Client, Browser', UNCHANGED <<attempts, accepted, redeemed>>
    PROVE  LoginInv'
  <1>1. /\ call' \in [Process -> LoginCall] /\ call'[p] = c
        /\ \A q \in Process \ {p} : call'[q] = call[q]
    BY DEF LoginInv, LoginTypes
  <1>2. Attempting(p)'
    BY <1>1 DEF LoginInv, Attempting
  <1>3. QED
    BY <1>1, <1>2, LoginerStep

LEMMA ClaimLoginStep ==
    ASSUME LoginInv, NEW p \in Process, L!ClaimLogin(p)
    PROVE  LoginInv'
  <1> DEFINE n == attempts + 1
             c == [call[p] EXCEPT !.at = "discover", !.attempt = n]
  <1>0. /\ UNCHANGED <<client, tabs, requests, accepted, redeemed>> /\ attempts' = n
        /\ n \in 1..MaxAttempt /\ attempts \in 0..MaxAttempt
        /\ call \in [Process -> LoginCall] /\ call[p] \in LoginCall
        /\ call[p].at = "idle" /\ call' = [call EXCEPT ![p] = c]
    <2>1. /\ attempts' = n /\ n \in 1..MaxAttempt /\ attempts \in 0..MaxAttempt
          /\ call \in [Process -> LoginCall]
      BY PartsAssumption DEF LoginInv, LoginTypes, L!ClaimLogin
    <2>2. call' = [call EXCEPT ![p].at = "discover", ![p].attempt = attempts']
      BY DEF L!ClaimLogin
    <2>3. call' = [call EXCEPT ![p] = c]
      BY <2>1, <2>2
    <2> HIDE DEF n, c
    <2>4. QED
      BY <2>1, <2>3 DEF L!ClaimLogin, L!At, L!history
  <1>1. call[p].decided = FALSE /\ call[p].terminal = L!Nothing /\ call[p].outcome = L!Nothing
    BY <1>0, NoAttemptFacts DEF LoginInv, Attempting
  <1>2. /\ c \in LoginCall /\ c.at = "discover" /\ c.attempt = n /\ c.decided = FALSE
        /\ c.terminal = L!Nothing /\ c.outcome = L!Nothing
    <2>1. "discover" \in LoginPlace /\ n \in 0..MaxAttempt
      BY <1>0, PartsAssumption DEF LoginPlace
    <2> HIDE DEF n
    <2>2. QED
      BY <1>0, <1>1, <2>1 DEF LoginCall
  <1> HIDE DEF c
  <1>3. /\ call' \in [Process -> LoginCall] /\ call'[p] = c
        /\ \A q \in Process \ {p} : call'[q] = call[q]
    BY <1>0, <1>2
  <1>4. LoginTypes' /\ Browser'
    BY <1>0, <1>3, PartsAssumption DEF LoginInv, LoginTypes, Browser
  <1>5. accepted[n] = 0 /\ redeemed[n] = L!Nothing
    BY <1>0 DEF LoginInv
  <1>6. ASSUME NEW q \in Process PROVE Attempting(q)'
    <2>1. CASE q = p
      BY <1>0, <1>2, <1>3, <1>5, <2>1 DEF Attempting
    <2>2. CASE q # p
      <3>1. call[q].attempt \in 1..attempts => call[q].attempt \in 1..n
        BY <1>0
      <3>2. QED
        BY <1>0, <1>3, <2>2, <3>1 DEF LoginInv, Attempting
    <2>3. QED
      BY <2>1, <2>2
  <1>7. \A q \in Process : call[q].at # "idle" => call[q].attempt # n
    BY <1>0 DEF LoginInv, Attempting
  <1>8. \A q, r \in Process : q # r /\ call'[q].at # "idle" /\ call'[r].at # "idle" =>
           call'[q].attempt # call'[r].attempt
    BY <1>2, <1>3, <1>7 DEF LoginInv
  <1>9. ASSUME NEW a \in 1..MaxAttempt
        PROVE  /\ a > n => accepted'[a] = 0 /\ redeemed'[a] = L!Nothing
               /\ OwnCode(a)'
    BY <1>0 DEF LoginInv, OwnCode
  <1>10. QED
    BY <1>0, <1>4, <1>6, <1>8, <1>9 DEF LoginInv

\* Discover, Bind and Register.
LEMMA BindStep ==
    ASSUME LoginInv, NEW p \in Process, L!Discover(p) \/ L!Bind(p) \/ L!Register(p)
    PROVE  LoginInv'
  <1>0. /\ call[p] \in LoginCall /\ client \in Client /\ call[p].attempt \in Nat
        /\ UNCHANGED <<tabs, attempts, accepted, redeemed>>
        /\ call[p].at \in {"discover", "bind", "register"}
    BY DEF LoginInv, LoginTypes, LoginCall, L!Discover, L!Bind, L!Register, L!At, L!history
  <1>1. CASE L!Return(p) /\ UNCHANGED client
    BY <1>0, <1>1, ReturnStep DEF L!Return, L!Dropped
  <1>2. CASE L!Discover(p)
    <2> DEFINE c == [call[p] EXCEPT !.at = "bind"]
    <2>1. /\ call' = [call EXCEPT ![p] = c] /\ UNCHANGED <<client, requests>>
          /\ client' \in Client /\ Browser'
      BY <1>0, <1>2 DEF L!Discover, L!Goto, LoginInv, Browser
    <2>2. /\ c \in LoginCall /\ c.at = "bind" /\ c.attempt = call[p].attempt
          /\ c.decided = call[p].decided /\ c.terminal = call[p].terminal
          /\ c.outcome = call[p].outcome
      BY <1>0 DEF LoginCall, LoginPlace
    <2> HIDE DEF c
    <2>3. QED
      BY <1>0, <2>1, <2>2, OnwardStep
  <1>3. ASSUME NEW t \in Port, L!Bind(p), UNCHANGED <<client, requests>>,
               call' = [call EXCEPT ![p].at = "register", ![p].port = t]
        PROVE  LoginInv'
    <2> DEFINE c == [call[p] EXCEPT !.at = "register", !.port = t]
    <2>1. /\ call' = [call EXCEPT ![p] = c] /\ client' \in Client /\ Browser'
      BY <1>0, <1>3 DEF LoginInv, Browser
    <2>2. /\ c \in LoginCall /\ c.at = "register" /\ c.attempt = call[p].attempt
          /\ c.decided = call[p].decided /\ c.terminal = call[p].terminal
          /\ c.outcome = call[p].outcome
      <3>1. "register" \in LoginPlace /\ t \in Port \union {NoPort}
        BY DEF LoginPlace
      <3>2. QED
        BY <1>0, <3>1 DEF LoginCall
    <2> HIDE DEF c
    <2>3. QED
      BY <1>0, <2>1, <2>2, OnwardStep
  <1>4. CASE L!Bind(p)
    BY <1>0, <1>1, <1>3, <1>4 DEF L!Bind
  <1>5. ASSUME L!Register(p), NEW k \in Client, k.redirect \in {NoPort, call[p].port},
               client' \in Client, UNCHANGED requests,
               call' = [call EXCEPT ![p].at = "handoff", ![p].client = k]
        PROVE  LoginInv'
    <2> DEFINE c == [call[p] EXCEPT !.at = "handoff", !.client = k]
    <2>1. /\ call' = [call EXCEPT ![p] = c] /\ Browser'
      BY <1>0, <1>5 DEF LoginInv, Browser
    <2>2. /\ c \in LoginCall /\ c.at = "handoff" /\ c.attempt = call[p].attempt
          /\ c.decided = call[p].decided /\ c.terminal = call[p].terminal
          /\ c.outcome = call[p].outcome /\ c.client = k /\ c.port = call[p].port
      <3>1. "handoff" \in LoginPlace
        BY DEF LoginPlace
      <3>2. QED
        BY <1>0, <1>5, <3>1 DEF LoginCall
    <2> HIDE DEF c
    <2>3. QED
      BY <1>0, <1>5, <2>1, <2>2, OnwardStep
  <1>6. CASE L!Register(p)
    <2>1. CASE client = L!NoClient
      <3> DEFINE k == [id |-> call[p].attempt, redirect |-> call[p].port]
      <3>1. k \in Client /\ k.redirect = call[p].port
        BY <1>0 DEF Client, LoginCall
      <3>2. /\ client' = k /\ UNCHANGED requests
            /\ call' = [call EXCEPT ![p].at = "handoff", ![p].client = k]
        BY <1>6, <2>1 DEF L!Register
      <3>3. QED
        BY <1>5, <1>6, <3>1, <3>2
    <2>2. CASE client # L!NoClient /\ L!Reusable(p)
      <3>1. /\ client' = client /\ UNCHANGED requests
            /\ call' = [call EXCEPT ![p].at = "handoff", ![p].client = client]
        BY <1>6, <2>2 DEF L!Register
      <3>2. client.redirect \in {NoPort, call[p].port}
        BY <2>2 DEF L!Reusable
      <3>3. QED
        BY <1>0, <1>5, <1>6, <3>1, <3>2
    <2>3. QED
      BY <1>1, <1>6, <2>1, <2>2 DEF L!Register
  <1>7. QED
    BY <1>2, <1>4, <1>6

\* Handoff, Wait and Join.
LEMMA WaitStep ==
    ASSUME LoginInv, NEW p \in Process, L!Handoff(p) \/ L!Wait(p) \/ L!Join(p)
    PROVE  LoginInv'
  <1>0. /\ call[p] \in LoginCall /\ client \in Client /\ UNCHANGED <<attempts, accepted, redeemed>>
        /\ client' = client /\ call[p].at \in {"handoff", "wait", "shutdown"}
        /\ requests' \subseteq requests
    BY DEF LoginInv, LoginTypes, L!Handoff, L!Wait, L!Join, L!Return, L!Dropped, L!At, L!history
  <1>1. CASE L!Handoff(p)
    <2> DEFINE c == [call[p] EXCEPT !.at = "wait"]
               t == [state |-> call[p].attempt, redirect |-> call[p].port,
                     client |-> call[p].client]
    <2>1. call' = [call EXCEPT ![p] = c] /\ tabs' = tabs \union {t} /\ UNCHANGED requests
      BY <1>1 DEF L!Handoff, L!Goto
    <2>2. call[p].client.redirect \in {NoPort, call[p].port}
      BY <1>1 DEF LoginInv, Attempting, L!Handoff, L!At
    <2>3. t.state \in 0..MaxAttempt /\ t.client.redirect \in {NoPort, t.redirect}
      BY <1>0, <2>2 DEF LoginCall
    <2> HIDE DEF t
    <2>4. Browser'
      BY <2>1, <2>3 DEF LoginInv, Browser
    <2>5. /\ c \in LoginCall /\ c.at = "wait" /\ c.attempt = call[p].attempt
          /\ c.decided = call[p].decided /\ c.terminal = call[p].terminal
          /\ c.outcome = call[p].outcome
      BY <1>0 DEF LoginCall, LoginPlace
    <2> HIDE DEF c
    <2>6. QED
      BY <1>0, <2>1, <2>4, <2>5, OnwardStep
  <1>2. CASE L!Wait(p)
    <2>1. PICK got \in BOOLEAN :
             call' = [call EXCEPT ![p].at = "shutdown",
                        ![p].outcome = IF got THEN call[p].terminal ELSE L!Nothing]
      BY <1>2 DEF L!Wait
    <2> DEFINE o == IF got THEN call[p].terminal ELSE L!Nothing
               c == [call[p] EXCEPT !.at = "shutdown", !.outcome = o]
    <2>2. call' = [call EXCEPT ![p] = c]
      BY <2>1
    <2>3. o \in Answer /\ o \in {L!Nothing, call[p].terminal}
      BY <1>0, NoAttemptFacts DEF LoginCall
    <2> HIDE DEF o
    <2>4. /\ c \in LoginCall /\ c.at = "shutdown" /\ c.attempt = call[p].attempt
          /\ c.decided = call[p].decided /\ c.terminal = call[p].terminal
          /\ c.outcome = o
      <3>1. "shutdown" \in LoginPlace
        BY DEF LoginPlace
      <3>2. QED
        BY <1>0, <2>3, <3>1 DEF LoginCall
    <2>5. Browser'
      BY <1>2 DEF LoginInv, Browser, L!Wait
    <2> HIDE DEF c
    <2>6. QED
      BY <1>0, <2>2, <2>3, <2>4, <2>5, OnwardStep
  <1>3. CASE L!Join(p)
    <2>1. UNCHANGED <<client, tabs>>
      BY <1>3 DEF L!Join
    <2>2. CASE L!Return(p)
      BY <1>0, <2>1, <2>2, ReturnStep DEF L!Return
    <2>3. CASE call[p].outcome.kind = "code" /\ L!Goto(p, "exchange")
      <3> DEFINE c == [call[p] EXCEPT !.at = "exchange"]
      <3>1. call' = [call EXCEPT ![p] = c]
        BY <2>3 DEF L!Goto
      <3>2. /\ c \in LoginCall /\ c.at = "exchange" /\ c.attempt = call[p].attempt
            /\ c.decided = call[p].decided /\ c.terminal = call[p].terminal
            /\ c.outcome = call[p].outcome
        BY <1>0 DEF LoginCall, LoginPlace
      <3>3. Browser'
        BY <1>0, <2>1 DEF LoginInv, Browser
      <3> HIDE DEF c
      <3>4. QED
        BY <1>0, <2>3, <3>1, <3>2, <3>3, OnwardStep
    <2>4. QED
      BY <1>3, <2>2, <2>3 DEF L!Join
  <1>4. QED
    BY <1>1, <1>2, <1>3

\* The code exchanged is the one the accept page was shown for.
LEMMA CompleteStep ==
    ASSUME LoginInv, NEW p \in Process, L!Complete(p)
    PROVE  LoginInv'
  <1> DEFINE a == call[p].attempt
             o == call[p].outcome
  <1>0. /\ call \in [Process -> LoginCall] /\ call[p] \in LoginCall /\ call[p].at = "exchange"
        /\ redeemed \in [1..MaxAttempt -> Answer] /\ attempts \in 0..MaxAttempt
        /\ UNCHANGED <<client, tabs, attempts, accepted>>
        /\ requests' \subseteq requests /\ call' = [call EXCEPT ![p] = L!NoAttempt]
        /\ redeemed' = redeemed \/ redeemed' = [redeemed EXCEPT ![a] = o]
    BY DEF LoginInv, LoginTypes, L!Complete, L!Return, L!Dropped, L!At
  <1>1. CASE redeemed' = redeemed
    BY <1>0, <1>1, ReturnStep
  <1>2. CASE redeemed' = [redeemed EXCEPT ![a] = o]
    <2>1. /\ a \in 1..attempts /\ o = call[p].terminal /\ o.kind = "code" /\ o.state = a
          /\ accepted[a] = 1 /\ o \in Answer
      BY <1>0, NoAttemptFacts DEF LoginInv, Attempting, LoginCall
    <2>2. a \in 1..MaxAttempt /\ o = [kind |-> "code", state |-> a]
      BY <1>0, <2>1, PartsAssumption DEF Answer
    <2> HIDE DEF a, o
    <2>3. /\ redeemed' \in [1..MaxAttempt -> Answer] /\ redeemed'[a] = o
          /\ \A b \in 1..MaxAttempt : b # a => redeemed'[b] = redeemed[b]
      BY <1>0, <1>2, <2>1, <2>2
    <2>4. /\ call' \in [Process -> LoginCall] /\ call'[p] = L!NoAttempt
          /\ \A q \in Process \ {p} : call'[q] = call[q]
      BY <1>0, NoAttemptFacts
    <2>5. LoginTypes' /\ Browser'
      BY <1>0, <2>3, <2>4 DEF LoginInv, LoginTypes, Browser
    <2>6. ASSUME NEW q \in Process PROVE Attempting(q)'
      <3>1. CASE q = p
        BY <2>4, <3>1, NoAttemptFacts DEF Attempting
      <3>2. CASE q # p
        <4>1. call'[q] = call[q] /\ Attempting(q)
          BY <2>4, <3>2 DEF LoginInv
        <4>2. call[q].at # "idle" => call[q].attempt # a
          BY <1>0, <3>2 DEF LoginInv, a
        <4>3. call[q].at # "idle" => call[q].attempt \in 1..MaxAttempt
          BY <1>0, <4>1, PartsAssumption DEF Attempting
        <4>4. QED
          BY <1>0, <2>3, <4>1, <4>2, <4>3 DEF Attempting
      <3>3. QED
        BY <3>1, <3>2
    <2>7. \A q, r \in Process : q # r /\ call'[q].at # "idle" /\ call'[r].at # "idle" =>
             call'[q].attempt # call'[r].attempt
      BY <2>4, NoAttemptFacts DEF LoginInv
    <2>8. ASSUME NEW b \in 1..MaxAttempt
          PROVE  /\ b > attempts' => accepted'[b] = 0 /\ redeemed'[b] = L!Nothing
                 /\ OwnCode(b)'
      <3>1. CASE b = a
        BY <1>0, <2>1, <2>2, <2>3, <3>1 DEF OwnCode
      <3>2. CASE b # a
        BY <1>0, <2>3, <3>2 DEF LoginInv, OwnCode
      <3>3. QED
        BY <3>1, <3>2
    <2>9. QED
      BY <2>5, <2>6, <2>7, <2>8 DEF LoginInv
  <1>3. QED
    BY <1>0, <1>1, <1>2

\* One accept page: only the callback that decides the attempt is shown it.
LEMMA ServeStep ==
    ASSUME LoginInv, NEW p \in Process, L!Serve(p)
    PROVE  LoginInv'
  <1> DEFINE a == call[p].attempt
  <1>0. /\ call \in [Process -> LoginCall] /\ call[p] \in LoginCall
        /\ call[p].at \in {"wait", "shutdown"}
        /\ accepted \in [1..MaxAttempt -> Nat] /\ attempts \in 0..MaxAttempt
        /\ UNCHANGED <<client, tabs, attempts, redeemed>>
    BY DEF LoginInv, LoginTypes, L!Serve
  <1>1. PICK r \in requests :
          /\ r.to = a /\ requests' = requests \ {r}
          /\ IF L!Valid(p, r.answer) /\ ~L!Decided(p)
             THEN /\ call' = [call EXCEPT ![p].decided = TRUE,
                        ![p].terminal = IF @ = L!Nothing THEN r.answer ELSE @]
                  /\ accepted' = [accepted EXCEPT ![r.to] = @ + 1]
             ELSE UNCHANGED <<call, accepted>>
    BY DEF L!Serve
  <1>2. Browser'
    BY <1>0, <1>1 DEF LoginInv, Browser
  <1>3. CASE UNCHANGED <<call, accepted>>
    <2>1. client' \in Client /\ call' \in [Process -> LoginCall] /\ Attempting(p)'
      BY <1>0, <1>3 DEF LoginInv, LoginTypes, Attempting
    <2>2. QED
      BY <1>0, <1>2, <1>3, <2>1, LoginerStep
  <1>4. CASE L!Valid(p, r.answer) /\ ~L!Decided(p)
    <2>1. /\ call[p].decided = FALSE /\ call[p].terminal = L!Nothing /\ r.answer.state = a
          /\ r.answer \in Answer /\ r.answer.kind # "none"
          /\ call[p].outcome = L!Nothing
      <3>1. call[p].decided = FALSE
        BY <1>0, <1>4 DEF L!Decided, LoginCall
      <3>2. QED
        BY <1>1, <1>4, <3>1 DEF L!Valid, LoginInv, Browser, Attempting
    <2> DEFINE c == [call[p] EXCEPT !.decided = TRUE, !.terminal = r.answer]
    <2>2. call' = [call EXCEPT ![p] = c] /\ accepted' = [accepted EXCEPT ![a] = accepted[a] + 1]
      BY <1>1, <1>4, <2>1
    <2>3. /\ c \in LoginCall /\ c.at = call[p].at /\ c.attempt = a /\ c.decided = TRUE
          /\ c.terminal = r.answer /\ c.outcome = L!Nothing
      BY <1>0, <2>1 DEF LoginCall
    <2>4. /\ a \in 1..attempts /\ a \in 1..MaxAttempt /\ accepted[a] = 0
          /\ redeemed[a] = L!Nothing
      BY <1>0, <2>1, PartsAssumption DEF LoginInv, Attempting
    <2> HIDE DEF c, a
    <2>5. /\ call' \in [Process -> LoginCall] /\ call'[p] = c
          /\ \A q \in Process \ {p} : call'[q] = call[q]
      BY <1>0, <2>2, <2>3
    <2>6. /\ accepted' \in [1..MaxAttempt -> Nat] /\ accepted'[a] = 1
          /\ \A b \in 1..MaxAttempt : b # a => accepted'[b] = accepted[b]
      BY <1>0, <2>2, <2>4
    <2>7. LoginTypes'
      BY <1>0, <2>5, <2>6 DEF LoginInv, LoginTypes
    <2>8. ASSUME NEW q \in Process PROVE Attempting(q)'
      <3>1. CASE q = p
        BY <1>0, <2>1, <2>3, <2>4, <2>5, <2>6, <3>1 DEF Attempting
      <3>2. CASE q # p
        <4>1. call'[q] = call[q] /\ Attempting(q)
          BY <2>5, <3>2 DEF LoginInv
        <4>2. call[q].at # "idle" => call[q].attempt # a
          BY <1>0, <3>2 DEF LoginInv, a
        <4>3. call[q].at # "idle" => call[q].attempt \in 1..MaxAttempt
          BY <1>0, <4>1, PartsAssumption DEF Attempting
        <4>4. QED
          BY <1>0, <2>6, <4>1, <4>2, <4>3 DEF Attempting
      <3>3. QED
        BY <3>1, <3>2
    <2>9. \A q, s \in Process : q # s /\ call'[q].at # "idle" /\ call'[s].at # "idle" =>
             call'[q].attempt # call'[s].attempt
      BY <1>0, <2>3, <2>5 DEF LoginInv, a
    <2>10. ASSUME NEW b \in 1..MaxAttempt
           PROVE  /\ b > attempts' => accepted'[b] = 0 /\ redeemed'[b] = L!Nothing
                  /\ OwnCode(b)'
      <3>1. CASE b = a
        BY <1>0, <2>4, <2>6, <3>1 DEF OwnCode
      <3>2. CASE b # a
        BY <1>0, <2>6, <3>2 DEF LoginInv, OwnCode
      <3>3. QED
        BY <3>1, <3>2
    <2>11. QED
      BY <1>2, <2>7, <2>8, <2>9, <2>10 DEF LoginInv
  <1>5. QED
    BY <1>1, <1>3, <1>4

\* A callback arrives, another process logs out, or a login lease lapses.
LEMMA AroundStep ==
    ASSUME LoginInv, L!Browse \/ L!Logout \/ L!Lapse \/ L!Stall
    PROVE  LoginInv'
  <1>1. UNCHANGED <<call, tabs, attempts, accepted, redeemed>>
    BY DEF L!Browse, L!Logout, L!Lapse, L!Stall, L!history
  <1>2. client' \in Client
    BY PartsAssumption
       DEF LoginInv, LoginTypes, L!Browse, L!Logout, L!Lapse, L!Stall, L!NoClient, Client
  <1>3. \A r \in requests' : r.answer \in Answer /\ r.answer.kind # "none"
    <2>1. CASE L!Browse
      <3>1. PICK t \in tabs, k \in {"code", "error"} :
               requests' = requests \union
                  {[to |-> socket[t.redirect], answer |-> [kind |-> k, state |-> t.state]]}
        BY <2>1 DEF L!Browse
      <3> DEFINE n == [to |-> socket[t.redirect], answer |-> [kind |-> k, state |-> t.state]]
      <3>2. n.answer \in Answer /\ n.answer.kind # "none"
        BY DEF LoginInv, Browser, Answer
      <3>3. requests' = requests \union {n}
        BY <3>1
      <3> HIDE DEF n
      <3>4. QED
        BY <3>2, <3>3 DEF LoginInv, Browser
    <2>2. CASE UNCHANGED requests
      BY <2>2 DEF LoginInv, Browser
    <2>3. QED
      BY <2>1, <2>2 DEF L!Logout, L!Lapse, L!Stall
  <1>4. LoginTypes' /\ Browser'
    BY <1>1, <1>2, <1>3 DEF LoginInv, LoginTypes, Browser
  <1>5. QED
    BY <1>1, <1>4 DEF LoginInv, Attempting, OwnCode

LEMMA LoginStep == LoginInv /\ L!Next => LoginInv'
  <1> SUFFICES ASSUME LoginInv, L!Next PROVE LoginInv'
    OBVIOUS
  <1>1. ASSUME NEW p \in Process, L!Abort(p) \/ L!Crash(p) PROVE LoginInv'
    <2>1. /\ call' = [call EXCEPT ![p] = L!NoAttempt] /\ requests' \subseteq requests
          /\ UNCHANGED <<client, tabs, attempts, accepted, redeemed>>
      BY <1>1 DEF L!Abort, L!Crash, L!Return, L!Dropped, L!history
    <2>2. QED
      BY <2>1, ReturnStep
  <1>2. ASSUME NEW p \in Process, L!Run(p) \/ L!Serve(p) PROVE LoginInv'
    BY <1>1, <1>2, ClaimLoginStep, BindStep, WaitStep, CompleteStep, ServeStep DEF L!Run
  <1>3. QED
    BY <1>1, <1>2, AroundStep DEF L!Next

LEMMA LoginInductive == PartSpec => [](part = "login" => LoginInv)
  <1> DEFINE Inv == part = "login" => LoginInv
  <1>1. PartInit => Inv
    BY LoginInit DEF PartInit
  <1>2. Inv /\ [PartNext]_partVars => Inv'
    <2> SUFFICES ASSUME Inv, [PartNext]_partVars, part' = "login" PROVE LoginInv'
      OBVIOUS
    <2>1. part = "login" /\ (L!Next \/ UNCHANGED <<shared, loginOnly>>)
      BY DEF PartNext, partVars
    <2>2. CASE UNCHANGED <<shared, loginOnly>>
      BY <2>1, <2>2
         DEF shared, loginOnly, LoginInv, LoginTypes, Browser, Attempting, OwnCode
    <2>3. QED
      BY <2>1, <2>2, LoginStep
  <1>3. QED
    BY <1>1, <1>2, PTL DEF PartSpec

\* However callbacks race on a port that earlier attempts also used, one accept page
\* is shown per attempt, and the code exchanged is the one it was shown for
\* (callback.go, selectTerminal; service.go, Run).
THEOREM CodeIsOwn == PartSpec => []OneOwnCode
  <1>1. (part = "login" => LoginInv) => OneOwnCode
    BY DEF OneOwnCode, L!OneOwnCode, LoginInv, OwnCode
  <1>2. QED
    BY <1>1, LoginInductive, PTL

\* A request reaches the browser only with a client registered for its redirect,
\* also when another login registered in between (register.go, checkRegistrationReuse).
THEOREM RedirectIsRegistered == PartSpec => []RegistrationServes
  <1>1. (part = "login" => LoginInv) => RegistrationServes
    BY DEF RegistrationServes, L!RegistrationServes, LoginInv, Browser
  <1>2. QED
    BY <1>1, LoginInductive, PTL

-----------------------------------------------------------------------------
(* Repair.                                                                 *)

RepairPlace == {"idle", "plan", "claim", "recheck", "write"}
Plan == UNION {[K -> {"v"}] : K \in SUBSET R!Key}
RepairCall == [ at : RepairPlace, live : SUBSET Slot, optional : SUBSET R!Key,
                plan : Plan, pending : SUBSET R!Key ]
WriterCall == [at : {"idle", "write", "commit", "clean"}, slot : SUBSET Slot]
Holder == Repairer \union {Writer}

RepairTypes ==
    /\ legacy \in [R!Key -> SUBSET R!Value]
    /\ dest \in [R!Key -> Seq(R!Value)]
    /\ live \subseteq Slot /\ retired \subseteq Slot
    /\ held \in R!LeaseRow(Holder \union {Dead})
    /\ call \in [Repairer -> RepairCall]
    /\ writer \in WriterCall
    /\ stalled \in BOOLEAN

\* What is copied or refreshed under a slot or the state key is the record itself.
GoodItems == \A k \in Slot \union {StateKey} : \A i \in DOMAIN dest[k] : dest[k][i] = "v"

HasLease(o) == held.owner = o /\ held.left > 0

\* A repair: until the state key is there the fence has not moved and what it has
\* copied stays; and unless a process outlived its lease, it has the lease from the
\* recheck on, so what it found missing still is until it writes it.
Copying(p) ==
    LET c == call[p] IN
    /\ c.at # "idle" /\ dest[StateKey] = <<>> => c.live = live
    /\ c.at \in {"claim", "recheck", "write"} => c.live \union {StateKey} \subseteq DOMAIN c.plan
    /\ c.at \in {"recheck", "write"} /\ ~stalled => HasLease(p)
    /\ c.at = "write" =>
          /\ c.pending \subseteq DOMAIN c.plan
          /\ ~stalled => \A k \in c.pending : dest[k] = <<>>
          /\ ~stalled \/ dest[StateKey] = <<>> =>
                \A k \in DOMAIN c.plan \ c.pending : dest[k] # <<>>

\* The writer: it works only once the state key is there, and the slot it wrote is
\* nobody else's.
Refreshing ==
    /\ live \cap retired = {}
    /\ writer.at # "idle" => dest[StateKey] # <<>> /\ (~stalled => HasLease(Writer))
    /\ writer.at = "commit" =>
          \A s \in writer.slot : dest[s] # <<>> /\ s \notin live \union retired

RepairInv ==
    /\ RepairTypes /\ GoodItems /\ Refreshing
    /\ \A p \in Repairer : Copying(p)
    /\ dest[StateKey] # <<>> => \A s \in live : dest[s] # <<>>
    /\ ~stalled => \A k \in R!Key : Len(dest[k]) <= 1

LEMMA RepairConstants ==
    /\ StateKey \in R!Key /\ Label \in R!Key /\ Slot \subseteq R!Key
    /\ StateKey \notin Slot /\ Label \notin Slot /\ StateKey # Label
    /\ FirstSlot \in Slot /\ OldSlot \in Slot /\ OldSlot # FirstSlot
    /\ Writer \notin Repairer /\ NoOwner \notin Holder /\ Dead \notin Holder
    /\ \A k \in R!Key : k \in Slot \/ k = Label \/ k = StateKey
  BY PartsAssumption DEF R!Key, Holder

LEMMA PlanFacts ==
    /\ \A f \in Plan : DOMAIN f \subseteq R!Key /\ \A k \in DOMAIN f : f[k] = "v"
    /\ \A K \in SUBSET R!Key : [k \in K |-> "v"] \in Plan
    /\ R!NoPlan \in Plan
  <1>1. ASSUME NEW f \in Plan PROVE DOMAIN f \subseteq R!Key /\ \A k \in DOMAIN f : f[k] = "v"
    <2>1. PICK K \in SUBSET R!Key : f \in [K -> {"v"}]
      BY DEF Plan
    <2>2. QED
      BY <2>1
  <1>2. ASSUME NEW K \in SUBSET R!Key PROVE [k \in K |-> "v"] \in Plan
    <2>1. [k \in K |-> "v"] \in [K -> {"v"}]
      OBVIOUS
    <2>2. QED
      BY <2>1 DEF Plan
  <1>3. R!NoPlan \in Plan
    BY <1>2 DEF R!NoPlan
  <1>4. QED
    BY <1>1, <1>2, <1>3

LEMMA NoCallFacts ==
    /\ R!NoCall \in RepairCall /\ R!NoCall.at = "idle"
    /\ R!NoWrite \in WriterCall /\ R!NoWrite.at = "idle" /\ R!NoWrite.slot = {}
  BY PlanFacts DEF R!NoCall, RepairCall, RepairPlace, R!NoWrite, WriterCall

\* backend.Get of a key whose items are all the record.
LEMMA ReadableFacts ==
    ASSUME RepairTypes, GoodItems, NEW k \in Slot \union {StateKey}
    PROVE  R!Readable(k) <=> dest[k] # <<>>
  <1>1. dest[k] \in Seq(R!Value)
    BY RepairConstants DEF RepairTypes
  <1>2. CASE dest[k] = <<>>
    <2>1. R!Values(dest[k]) = {}
      BY <1>2 DEF R!Values
    <2>2. QED
      BY <1>2, <2>1 DEF R!Readable
  <1>3. CASE dest[k] # <<>>
    <2>1. 1 \in DOMAIN dest[k]
      BY <1>1, <1>3
    <2>2. R!Values(dest[k]) = {"v"}
      BY <2>1 DEF GoodItems, R!Values
    <2>3. "v" \in R!Value
      BY DEF R!Value
    <2>4. QED
      BY <1>3, <2>2, <2>3 DEF R!Readable
  <1>4. QED
    BY <1>2, <1>3

LEMMA RepairInit == R!Init => RepairInv
  <1> SUFFICES ASSUME R!Init PROVE RepairInv
    OBVIOUS
  <1>1. PICK label \in {<<>>, <<"w">>} :
          dest = [k \in R!Key |-> IF k = Label THEN label ELSE <<>>]
    BY DEF R!Init
  <1>2. label \in Seq(R!Value) /\ <<>> \in Seq(R!Value) /\ Len(label) <= 1 /\ Len(<<>>) <= 1
    <2>1. "w" \in R!Value
      BY DEF R!Value
    <2>2. <<"w">> \in Seq(R!Value) /\ Len(<<"w">>) = 1
      BY <2>1
    <2>3. <<>> \in Seq(R!Value) /\ Len(<<>>) = 0
      OBVIOUS
    <2>4. CASE label = <<>>
      BY <2>3, <2>4
    <2>5. CASE label = <<"w">>
      BY <2>2, <2>3, <2>5
    <2>6. QED
      BY <1>1, <2>4, <2>5
  <1>3. dest \in [R!Key -> Seq(R!Value)] /\ \A k \in R!Key : Len(dest[k]) <= 1
    BY <1>1, <1>2
  <1>4. dest[StateKey] = <<>> /\ GoodItems
    BY <1>1, RepairConstants DEF GoodItems
  <1>5. held \in R!LeaseRow(Holder \union {Dead})
    BY DEF R!Init, R!NoLease, R!LeaseRow
  <1>6. /\ \A p \in Repairer : call[p].at = "idle"
        /\ call \in [Repairer -> RepairCall] /\ writer \in WriterCall /\ writer.at = "idle"
    BY NoCallFacts DEF R!Init
  <1>7. live \subseteq Slot /\ retired \subseteq Slot /\ live \cap retired = {}
    BY RepairConstants DEF R!Init
  <1>8. RepairTypes
    BY <1>3, <1>5, <1>6, <1>7 DEF R!Init, RepairTypes
  <1>9. Refreshing /\ \A p \in Repairer : Copying(p)
    BY <1>6, <1>7 DEF Refreshing, Copying
  <1>10. QED
    BY <1>3, <1>4, <1>8, <1>9 DEF RepairInv

\* A step of one repair that writes nothing and takes no lease from another.
LEMMA RepairerStep ==
    ASSUME RepairInv, NEW p \in Repairer, UNCHANGED <<legacy, dest, live, retired, writer, stalled>>,
           held' \in R!LeaseRow(Holder \union {Dead}),
           \A o \in Holder \ {p} : HasLease(o) => HasLease(o)',
           NEW c \in RepairCall, call' = [call EXCEPT ![p] = c], Copying(p)'
    PROVE  RepairInv'
  <1>1. /\ call' \in [Repairer -> RepairCall]
        /\ \A q \in Repairer \ {p} : call'[q] = call[q]
    BY DEF RepairInv, RepairTypes
  <1>2. RepairTypes' /\ GoodItems'
    BY <1>1 DEF RepairInv, RepairTypes, GoodItems
  <1>3. ASSUME NEW q \in Repairer PROVE Copying(q)'
    <2>1. CASE q # p
      <3>1. HasLease(q) => HasLease(q)'
        BY <2>1 DEF Holder
      <3>2. call'[q] = call[q] /\ Copying(q)
        BY <1>1, <2>1 DEF RepairInv
      <3>3. QED
        BY <3>1, <3>2 DEF Copying
    <2>2. QED
      BY <2>1
  <1>4. Refreshing'
    <2>1. HasLease(Writer) => HasLease(Writer)'
      BY RepairConstants DEF Holder
    <2>2. QED
      BY <2>1 DEF RepairInv, Refreshing
  <1>5. QED
    BY <1>2, <1>3, <1>4 DEF RepairInv

\* Planning, the claim and every return: nothing is written.
LEMMA ReturnsStep ==
    ASSUME RepairInv, NEW p \in Repairer, R!Fail(p),
           UNCHANGED <<legacy, dest, live, retired, writer, stalled>>,
           \/ held' = held
           \/ held' = R!ReleaseLease(held, p)
           \/ held.owner = p /\ held' = [held EXCEPT !.owner = Dead]
    PROVE  RepairInv'
  <1>1. call' = [call EXCEPT ![p] = R!NoCall] /\ call \in [Repairer -> RepairCall]
    BY DEF R!Fail, RepairInv, RepairTypes
  <1>2. held' \in R!LeaseRow(Holder \union {Dead})
    <2>1. held \in R!LeaseRow(Holder \union {Dead})
      BY DEF RepairInv, RepairTypes
    <2>2. R!ReleaseLease(held, p) \in R!LeaseRow(Holder \union {Dead})
      BY <2>1 DEF R!LeaseRow, R!ReleaseLease, R!NoLease
    <2>3. [held EXCEPT !.owner = Dead] \in R!LeaseRow(Holder \union {Dead})
      BY <2>1 DEF R!LeaseRow
    <2>4. QED
      BY <2>1, <2>2, <2>3
  <1>3. \A o \in Holder \ {p} : HasLease(o) => HasLease(o)'
    BY DEF RepairInv, RepairTypes, R!LeaseRow, R!ReleaseLease, HasLease
  <1>4. call'[p] = R!NoCall
    BY <1>1
  <1>5. Copying(p)'
    BY <1>4, NoCallFacts DEF Copying
  <1>6. QED
    BY <1>1, <1>2, <1>3, <1>5, NoCallFacts, RepairerStep

LEMMA PlanStep ==
    ASSUME RepairInv, NEW p \in Repairer, R!ReadIdentity(p) \/ R!ReadPlan(p)
    PROVE  RepairInv'
  <1>0. /\ UNCHANGED <<legacy, dest, live, retired, held, writer, stalled>>
        /\ call \in [Repairer -> RepairCall] /\ call[p] \in RepairCall /\ Copying(p)
        /\ live \subseteq Slot /\ retired \union {Label} \subseteq R!Key
        /\ held \in R!LeaseRow(Holder \union {Dead})
    BY RepairConstants DEF RepairInv, RepairTypes, R!ReadIdentity, R!ReadPlan
  <1>1. ASSUME NEW c \in RepairCall, call' = [call EXCEPT ![p] = c],
               c.at \in {"plan", "claim"},
               \/ c.live = live
               \/ call[p].at # "idle" /\ c.live = call[p].live,
               c.at = "claim" => c.live \union {StateKey} \subseteq DOMAIN c.plan
        PROVE  RepairInv'
    <2>1. call'[p] = c
      BY <1>0, <1>1
    <2>2. Copying(p)'
      BY <1>0, <1>1, <2>1 DEF Copying
    <2>3. QED
      BY <1>0, <1>1, <2>2, RepairerStep DEF HasLease
  <1>2. CASE R!ReadIdentity(p)
    <2> DEFINE c == [R!NoCall EXCEPT !.at = "plan", !.live = live,
                                     !.optional = retired \union {Label}]
    <2>1. c \in RepairCall /\ c.at = "plan" /\ c.live = live
      <3>1. "plan" \in RepairPlace
        BY DEF RepairPlace
      <3>2. QED
        BY <1>0, <3>1, NoCallFacts DEF RepairCall
    <2>3. call' = [call EXCEPT ![p] = c]
      BY <1>2 DEF R!ReadIdentity
    <2> HIDE DEF c
    <2>4. QED
      BY <1>1, <2>1, <2>3
  <1>3. CASE R!ReadPlan(p)
    <2>1. CASE R!Fail(p)
      BY <1>0, <2>1, ReturnsStep
    <2>2. CASE call' = [call EXCEPT ![p].at = "claim",
                                    ![p].plan = [k \in R!MigrationKeys(p) |-> "v"]]
      <3> DEFINE m == [k \in R!MigrationKeys(p) |-> "v"]
                 c == [call[p] EXCEPT !.at = "claim", !.plan = m]
      <3>1. call[p].live \subseteq Slot /\ call[p].optional \subseteq R!Key
        BY <1>0 DEF RepairCall
      <3>2. /\ R!MigrationKeys(p) \in SUBSET R!Key
            /\ call[p].live \union {StateKey} \subseteq R!MigrationKeys(p)
        BY <3>1, RepairConstants DEF R!MigrationKeys, R!Required
      <3>3. m \in Plan /\ DOMAIN m = R!MigrationKeys(p)
        BY <3>2, PlanFacts
      <3>4. call' = [call EXCEPT ![p] = c]
        BY <2>2
      <3> HIDE DEF m
      <3>5. c \in RepairCall /\ c.at = "claim" /\ c.live = call[p].live /\ c.plan = m
        BY <1>0, <3>3 DEF RepairCall, RepairPlace
      <3> HIDE DEF c
      <3>6. call[p].at # "idle"
        BY <1>3 DEF R!ReadPlan, R!At
      <3>7. QED
        BY <1>1, <3>2, <3>3, <3>4, <3>5, <3>6
    <2>3. QED
      BY <1>3, <2>1, <2>2 DEF R!ReadPlan
  <1>4. QED
    BY <1>2, <1>3

\* The lease is claimed from nobody at work, and what is missing is listed under it.
LEMMA RecheckStep ==
    ASSUME RepairInv, NEW p \in Repairer, R!ClaimCredentialLease(p) \/ R!Recheck(p)
    PROVE  RepairInv'
  <1>0. /\ UNCHANGED <<legacy, dest, live, retired, writer, stalled>>
        /\ call \in [Repairer -> RepairCall] /\ call[p] \in RepairCall /\ Copying(p)
        /\ held \in R!LeaseRow(Holder \union {Dead}) /\ p \in Holder
    BY DEF RepairInv, RepairTypes, Holder, R!ClaimCredentialLease, R!Recheck
  <1>1. CASE R!Fail(p) /\ (held' = held \/ held' = R!ReleaseLease(held, p))
    BY <1>0, <1>1, ReturnsStep
  <1>2. CASE /\ R!ClaimCredentialLease(p) /\ R!MayClaim(p)
             /\ held' = R!ClaimLease(held, p, 0)
             /\ call' = [call EXCEPT ![p].at = "recheck"]
    <2> DEFINE c == [call[p] EXCEPT !.at = "recheck"]
    <2>1. /\ c \in RepairCall /\ c.at = "recheck" /\ c.live = call[p].live
          /\ c.plan = call[p].plan
      BY <1>0 DEF RepairCall, RepairPlace
    <2>2. call' = [call EXCEPT ![p] = c]
      BY <1>2
    <2> HIDE DEF c
    <2>3. held' \in R!LeaseRow(Holder \union {Dead}) /\ held'.owner = p /\ held'.left = 1
      BY <1>0, <1>2 DEF R!ClaimLease, R!LeaseRow
    <2>4. \A o \in Holder \ {p} : ~HasLease(o)
      BY <1>0, <1>2, RepairConstants DEF R!MayClaim, R!Claimable, HasLease, R!LeaseRow
    <2>5. call'[p] = c /\ call[p].at = "claim"
      BY <1>0, <1>2, <2>2 DEF R!ClaimCredentialLease, R!At
    <2>6. Copying(p)'
      BY <1>0, <2>1, <2>3, <2>5 DEF Copying, HasLease
    <2>7. QED
      BY <1>0, <2>1, <2>2, <2>3, <2>4, <2>6, RepairerStep
  <1>3. CASE R!Recheck(p) /\ UNCHANGED held
    <2>1. CASE R!Fail(p)
      BY <1>0, <1>3, <2>1, ReturnsStep
    <2> DEFINE n == {k \in DOMAIN call[p].plan : dest[k] = <<>>}
               c == [call[p] EXCEPT !.at = "write", !.pending = n]
    <2>2. CASE call' = [call EXCEPT ![p] = c]
      <3>1. n \subseteq R!Key
        BY <1>0, PlanFacts DEF RepairCall
      <3>2. /\ c \in RepairCall /\ c.at = "write" /\ c.live = call[p].live
            /\ c.plan = call[p].plan /\ c.pending = n
        <4> HIDE DEF n
        <4>1. QED
          BY <1>0, <3>1 DEF RepairCall, RepairPlace
      <3> HIDE DEF c
      <3>3. call'[p] = c /\ call[p].at = "recheck"
        BY <1>0, <1>3, <2>2 DEF R!Recheck, R!At
      <3>4. Copying(p)'
        BY <1>0, <1>3, <3>2, <3>3 DEF Copying, HasLease
      <3>5. QED
        BY <1>0, <1>3, <2>2, <3>2, <3>4, RepairerStep DEF HasLease
    <2>3. QED
      BY <1>3, <2>1, <2>2 DEF R!Recheck, R!Return
  <1>4. QED
    BY <1>1, <1>2, <1>3 DEF R!ClaimCredentialLease, R!Recheck, R!Return

\* The copy of one key: the state key only when every live slot has been copied.
LEMMA WriteStep ==
    ASSUME RepairInv, NEW p \in Repairer, R!WriteExact(p)
    PROVE  RepairInv'
  <1>0. /\ UNCHANGED <<legacy, live, retired, held, writer, stalled>>
        /\ call \in [Repairer -> RepairCall] /\ call[p] \in RepairCall /\ Copying(p)
        /\ dest \in [R!Key -> Seq(R!Value)] /\ call[p].at = "write"
    BY DEF RepairInv, RepairTypes, R!WriteExact, R!At
  <1>1. PICK k \in R!NextKeys(call[p].pending) :
          /\ dest' = [dest EXCEPT ![k] = Append(@, call[p].plan[k])]
          /\ call' = [call EXCEPT ![p].pending = @ \ {k}]
    BY DEF R!WriteExact
  <1>2. /\ k \in call[p].pending /\ k \in DOMAIN call[p].plan /\ k \in R!Key
        /\ call[p].plan[k] = "v" /\ call[p].pending \subseteq R!Key
        /\ k = StateKey => call[p].pending = {StateKey}
    BY <1>0, PlanFacts DEF R!NextKeys, Copying, RepairCall
  <1> DEFINE items == Append(dest[k], "v")
             c == [call[p] EXCEPT !.pending = call[p].pending \ {k}]
  <1>3. /\ items \in Seq(R!Value) /\ items # <<>> /\ Len(items) = Len(dest[k]) + 1
        /\ \A i \in DOMAIN items : items[i] = "v" \/ (i \in DOMAIN dest[k] /\ items[i] = dest[k][i])
    <2>1. "v" \in R!Value /\ dest[k] \in Seq(R!Value)
      BY <1>0, <1>2 DEF R!Value
    <2>2. items \in Seq(R!Value) /\ Len(items) = Len(dest[k]) + 1
      BY <2>1
    <2>3. \A i \in DOMAIN items : items[i] = "v" \/ (i \in DOMAIN dest[k] /\ items[i] = dest[k][i])
      BY <2>1
    <2>4. Len(dest[k]) \in Nat /\ Len(items) # 0
      <3>1. Len(dest[k]) \in Nat
        BY <2>1
      <3> HIDE DEF items
      <3>2. QED
        BY <2>2, <3>1
    <2>5. Len(<<>>) = 0
      OBVIOUS
    <2> HIDE DEF items
    <2>6. items # <<>>
      BY <2>4, <2>5
    <2>7. QED
      BY <2>2, <2>3, <2>6
  <1>4. /\ c \in RepairCall /\ c.at = "write" /\ c.live = call[p].live
        /\ c.plan = call[p].plan /\ c.pending = call[p].pending \ {k}
    BY <1>0, <1>2 DEF RepairCall
  <1> HIDE DEF items, c
  <1>5. /\ dest' \in [R!Key -> Seq(R!Value)] /\ dest'[k] = items
        /\ \A j \in R!Key : j # k => dest'[j] = dest[j]
        /\ \A j \in R!Key : dest[j] # <<>> => dest'[j] # <<>>
    BY <1>0, <1>1, <1>2, <1>3 DEF items
  <1>6. /\ call' \in [Repairer -> RepairCall] /\ call'[p] = c
        /\ \A q \in Repairer \ {p} : call'[q] = call[q]
    BY <1>0, <1>1, <1>4 DEF c
  <1>7. RepairTypes'
    BY <1>0, <1>5, <1>6 DEF RepairInv, RepairTypes
  <1>8. GoodItems'
    <2>1. GoodItems /\ \A j \in Slot \union {StateKey} : j \in R!Key
      BY RepairConstants DEF RepairInv
    <2>2. k \in Slot \union {StateKey} => \A i \in DOMAIN items : items[i] = "v"
      BY <1>3, <2>1 DEF GoodItems
    <2>3. QED
      BY <1>5, <2>1, <2>2 DEF GoodItems
  <1>9. Refreshing'
    <2>1. \A s \in writer.slot : s \in R!Key
      BY RepairConstants DEF RepairInv, RepairTypes, WriterCall
    <2>2. QED
      BY <1>0, <1>5, <2>1, RepairConstants DEF RepairInv, Refreshing, HasLease
  <1>10. ASSUME NEW q \in Repairer PROVE Copying(q)'
    <2>1. CASE q = p
      <3>1. \A j \in DOMAIN call[p].plan : j \in R!Key
        BY <1>0, PlanFacts DEF RepairCall
      <3>2. ~stalled' \/ dest'[StateKey] = <<>> =>
               \A j \in DOMAIN c.plan \ c.pending : dest'[j] # <<>>
        BY <1>0, <1>3, <1>4, <1>5, <3>1, RepairConstants DEF Copying
      <3>3. ~stalled' => \A j \in c.pending : dest'[j] = <<>>
        BY <1>0, <1>2, <1>4, <1>5 DEF Copying
      <3>4. QED
        BY <1>0, <1>4, <1>5, <1>6, <2>1, <3>2, <3>3, RepairConstants DEF Copying, HasLease
    <2>2. CASE q # p
      <3>1. call'[q] = call[q] /\ Copying(q) /\ call[q] \in RepairCall
        BY <1>0, <1>6, <2>2 DEF RepairInv
      <3>2. \A j \in DOMAIN call[q].plan : j \in R!Key
        BY <3>1, PlanFacts DEF RepairCall
      <3>3. ~stalled => call[q].at \notin {"recheck", "write"}
        BY <1>0, <2>2, <3>1 DEF Copying, HasLease
      <3>4. QED
        BY <1>0, <1>5, <3>1, <3>2, <3>3, RepairConstants DEF Copying
    <2>3. QED
      BY <2>1, <2>2
  <1>11. ASSUME dest'[StateKey] # <<>>, NEW s \in live PROVE dest'[s] # <<>>
    <2>1. s \in Slot /\ s \in R!Key /\ s # StateKey
      BY RepairConstants DEF RepairInv, RepairTypes
    <2>2. CASE dest[StateKey] # <<>>
      BY <1>5, <2>1, <2>2 DEF RepairInv
    <2>3. CASE dest[StateKey] = <<>>
      <3>1. k = StateKey /\ call[p].pending = {StateKey}
        BY <1>2, <1>5, <1>11, <2>3, RepairConstants
      <3>2. s \in DOMAIN call[p].plan \ call[p].pending
        BY <1>0, <2>1, <2>3, <3>1 DEF Copying
      <3>3. QED
        BY <1>0, <1>5, <2>1, <2>3, <3>2 DEF Copying
    <2>4. QED
      BY <2>2, <2>3
  <1>12. ASSUME ~stalled', NEW j \in R!Key PROVE Len(dest'[j]) <= 1
    <2>1. CASE j = k
      <3>1. dest[k] = <<>>
        BY <1>0, <1>2, <1>12 DEF Copying
      <3>2. QED
        <4>1. Len(dest[k]) = 0
          BY <3>1
        <4>2. Len(items) = 1
          BY <1>3, <4>1
        <4>3. dest'[j] = items
          BY <1>5, <2>1
        <4>4. Len(dest'[j]) = 1
          BY <4>2, <4>3
        <4>5. QED
          BY <4>4
    <2>2. CASE j # k
      BY <1>0, <1>5, <1>12, <2>2 DEF RepairInv
    <2>3. QED
      BY <2>1, <2>2
  <1>13. QED
    BY <1>0, <1>7, <1>8, <1>9, <1>10, <1>11, <1>12 DEF RepairInv

\* The writer works only once the state key is there, and, while nobody outlives a
\* lease, only while no repair is past its recheck.
LEMMA WriterKeeps ==
    ASSUME RepairInv, dest[StateKey] # <<>>, UNCHANGED <<legacy, call, stalled>>,
           ~stalled => \A p \in Repairer : ~HasLease(p),
           dest' \in [R!Key -> Seq(R!Value)], GoodItems', dest'[StateKey] # <<>>,
           held' \in R!LeaseRow(Holder \union {Dead}),
           live' \subseteq Slot, retired' \subseteq Slot, writer' \in WriterCall, Refreshing',
           \A s \in live' : dest'[s] # <<>>,
           ~stalled => \A k \in R!Key : Len(dest'[k]) <= 1
    PROVE  RepairInv'
  <1>1. RepairTypes'
    BY DEF RepairInv, RepairTypes
  <1>2. ASSUME NEW p \in Repairer PROVE Copying(p)'
    <2>1. Copying(p) /\ (~stalled => call[p].at \notin {"recheck", "write"})
      BY DEF RepairInv, Copying
    <2>2. QED
      BY <2>1 DEF Copying
  <1>3. QED
    BY <1>1, <1>2 DEF RepairInv

\* One value under a key.
LEMMA OneItem == <<"v">> \in Seq(R!Value) /\ Len(<<"v">>) = 1 /\ <<"v">>[1] = "v"
  <1>1. "v" \in R!Value
    BY DEF R!Value
  <1>2. QED
    BY <1>1

LEMMA NoItem == <<>> \in Seq(R!Value) /\ Len(<<>>) = 0 /\ <<"v">> # <<>>
  <1>1. <<>> \in Seq(R!Value) /\ Len(<<>>) = 0
    OBVIOUS
  <1>2. <<"v">> # <<>>
    BY OneItem, <1>1
  <1>3. QED
    BY <1>1, <1>2

\* Removing what is under some keys keeps the rest.
LEMMA DropFacts ==
    ASSUME RepairInv, NEW K, dest' = [k \in R!Key |-> IF k \in K THEN <<>> ELSE dest[k]]
    PROVE  /\ dest' \in [R!Key -> Seq(R!Value)] /\ GoodItems'
           /\ \A k \in R!Key : k \notin K => dest'[k] = dest[k]
           /\ ~stalled => \A k \in R!Key : Len(dest'[k]) <= 1
  <1>0. dest \in [R!Key -> Seq(R!Value)]
    BY DEF RepairInv, RepairTypes
  <1>1. /\ \A k \in R!Key : k \notin K => dest'[k] = dest[k]
        /\ \A k \in R!Key : k \in K => dest'[k] = <<>>
    OBVIOUS
  <1>2. dest' \in [R!Key -> Seq(R!Value)]
    BY <1>0, NoItem
  <1>3. DOMAIN <<>> = {}
    OBVIOUS
  <1>4. GoodItems'
    BY <1>1, <1>3, RepairConstants DEF RepairInv, GoodItems
  <1>5. ASSUME ~stalled, NEW k \in R!Key PROVE Len(dest'[k]) <= 1
    <2>1. CASE k \in K
      <3>1. Len(dest'[k]) = 0
        BY <1>1, <2>1, NoItem
      <3>2. QED
        BY <3>1
    <2>2. CASE k \notin K
      BY <1>1, <1>5, <2>2 DEF RepairInv
    <2>3. QED
      BY <2>1, <2>2
  <1>6. QED
    BY <1>1, <1>2, <1>4, <1>5

LEMMA WriterStepKeeps ==
    ASSUME RepairInv, R!WriterStep
    PROVE  RepairInv'
  <1>0. /\ UNCHANGED <<legacy, call, stalled>> /\ RepairTypes /\ GoodItems /\ Refreshing
        /\ held \in R!LeaseRow(Holder \union {Dead}) /\ writer \in WriterCall
        /\ dest \in [R!Key -> Seq(R!Value)] /\ live \subseteq Slot /\ retired \subseteq Slot
    BY DEF RepairInv, RepairTypes, R!WriterStep, R!WriterClaims, R!WriterWrites,
           R!WriterCommits, R!WriterCleans
  <1>1. CASE R!WriterClaims
    <2>1. /\ UNCHANGED <<dest, live, retired>> /\ R!Claimable(held, Writer)
          /\ held' = R!ClaimLease(held, Writer, 0) /\ R!Readable(StateKey)
          /\ writer' = [writer EXCEPT !.at = "write"]
      BY <1>1 DEF R!WriterClaims
    <2>2. dest[StateKey] # <<>>
      BY <1>0, <2>1, ReadableFacts
    <2>3. /\ held' \in R!LeaseRow(Holder \union {Dead}) /\ held'.owner = Writer
          /\ held'.left = 1
      BY <1>0, <2>1 DEF R!ClaimLease, R!LeaseRow, Holder
    <2>4. \A p \in Repairer : ~HasLease(p)
      BY <1>0, <2>1, RepairConstants DEF R!Claimable, HasLease, R!LeaseRow, Holder
    <2>5. writer' \in WriterCall /\ writer'.at = "write"
      BY <1>0, <2>1 DEF WriterCall
    <2>6. Refreshing' /\ GoodItems'
      BY <1>0, <2>1, <2>2, <2>3, <2>5 DEF Refreshing, HasLease, GoodItems
    <2>7. QED
      BY <1>0, <2>1, <2>2, <2>3, <2>4, <2>5, <2>6, WriterKeeps DEF RepairInv
  <1> SUFFICES ASSUME R!WriterWrites \/ R!WriterCommits \/ R!WriterCleans
               PROVE  RepairInv'
    BY <1>1 DEF R!WriterStep
  <1>2. /\ writer.at # "idle" /\ dest[StateKey] # <<>> /\ (~stalled => HasLease(Writer))
        /\ ~stalled => \A p \in Repairer : ~HasLease(p)
    <2>1. writer.at # "idle"
      BY DEF R!WriterWrites, R!WriterCommits, R!WriterCleans
    <2>2. QED
      BY <1>0, <2>1, RepairConstants DEF Refreshing, HasLease
  <1>3. CASE R!WriterWrites
    <2>1. UNCHANGED <<live, retired, held>>
      BY <1>3 DEF R!WriterWrites
    <2>2. ASSUME NEW s \in Slot, R!Unused(s), dest' = [dest EXCEPT ![s] = <<"v">>],
                 writer' = [at |-> "commit", slot |-> {s}]
          PROVE  RepairInv'
      <3>1. s \in R!Key /\ s # StateKey /\ s \notin live \union retired
        BY <2>2, RepairConstants DEF R!Unused
      <3>2. /\ dest' \in [R!Key -> Seq(R!Value)] /\ dest'[s] = <<"v">>
            /\ \A k \in R!Key : k # s => dest'[k] = dest[k]
        BY <1>0, <2>2, <3>1, OneItem
      <3>3. \A i \in DOMAIN dest'[s] : dest'[s][i] = "v"
        BY <3>2
      <3>4. GoodItems'
        BY <1>0, <3>2, <3>3, RepairConstants DEF GoodItems
      <3>5. writer' \in WriterCall /\ writer'.at = "commit" /\ writer'.slot = {s}
        BY <2>2 DEF WriterCall
      <3>6. dest'[StateKey] # <<>> /\ dest'[s] # <<>>
        BY <1>2, <3>1, <3>2, NoItem, RepairConstants
      <3>7. Refreshing'
        BY <1>0, <1>2, <2>1, <3>1, <3>5, <3>6 DEF Refreshing, HasLease
      <3>8. \A k \in live' : dest'[k] # <<>>
        BY <1>0, <1>2, <2>1, <3>1, <3>2, RepairConstants DEF RepairInv
      <3>9. ASSUME ~stalled, NEW k \in R!Key PROVE Len(dest'[k]) <= 1
        <4>1. CASE k = s
          <5>1. Len(dest'[k]) = 1
            BY <3>2, <4>1, OneItem
          <5>2. QED
            BY <5>1
        <4>2. CASE k # s
          BY <3>2, <3>9, <4>2 DEF RepairInv
        <4>3. QED
          BY <4>1, <4>2
      <3>10. QED
        BY <1>0, <1>2, <2>1, <3>2, <3>4, <3>5, <3>6, <3>7, <3>8, <3>9, WriterKeeps
    <2>3. ASSUME dest' = [dest EXCEPT ![Label] = <<>>],
                 writer' = [at |-> "commit", slot |-> {}]
          PROVE  RepairInv'
      <3>1. dest' = [k \in R!Key |-> IF k \in {Label} THEN <<>> ELSE dest[k]]
        BY <1>0, <2>3
      <3>2. /\ dest' \in [R!Key -> Seq(R!Value)] /\ GoodItems'
            /\ \A k \in R!Key : k # Label => dest'[k] = dest[k]
            /\ ~stalled => \A k \in R!Key : Len(dest'[k]) <= 1
        BY <3>1, DropFacts
      <3>3. writer' \in WriterCall /\ writer'.slot = {} /\ writer'.at = "commit"
        BY <2>3 DEF WriterCall
      <3>4. dest'[StateKey] # <<>> /\ \A k \in live' : dest'[k] # <<>>
        BY <1>0, <1>2, <2>1, <3>2, RepairConstants DEF RepairInv
      <3>5. Refreshing'
        BY <1>0, <1>2, <2>1, <3>3, <3>4 DEF Refreshing, HasLease
      <3>6. QED
        BY <1>0, <1>2, <2>1, <3>2, <3>3, <3>4, <3>5, WriterKeeps
    <2>4. QED
      BY <1>3, <2>2, <2>3 DEF R!WriterWrites
  <1>4. CASE R!WriterCommits
    <2>0. writer.at = "commit" /\ writer.slot \subseteq Slot /\ UNCHANGED held
      BY <1>0, <1>4 DEF R!WriterCommits, WriterCall
    <2>1. CASE R!Live(held, Writer)
      <3>1. /\ live' = writer.slot /\ retired' = retired \union live
            /\ writer' = [writer EXCEPT !.at = "clean"] /\ UNCHANGED dest
        BY <1>4, <2>1 DEF R!WriterCommits
      <3>2. writer' \in WriterCall /\ writer'.at = "clean"
        BY <1>0, <3>1 DEF WriterCall
      <3>3. \A s \in live' : dest'[s] # <<>>
        BY <1>0, <2>0, <3>1 DEF Refreshing
      <3>4. Refreshing' /\ GoodItems'
        BY <1>0, <1>2, <2>0, <3>1, <3>2 DEF Refreshing, HasLease, GoodItems
      <3>5. QED
        BY <1>0, <1>2, <2>0, <3>1, <3>2, <3>3, <3>4, WriterKeeps DEF RepairInv
    <2>2. CASE ~R!Live(held, Writer)
      <3>1. /\ dest' = [k \in R!Key |-> IF k \in writer.slot THEN <<>> ELSE dest[k]]
            /\ writer' = R!NoWrite /\ UNCHANGED <<live, retired>>
        BY <1>4, <2>2 DEF R!WriterCommits
      <3>2. /\ dest' \in [R!Key -> Seq(R!Value)] /\ GoodItems'
            /\ \A k \in R!Key : k \notin writer.slot => dest'[k] = dest[k]
            /\ ~stalled => \A k \in R!Key : Len(dest'[k]) <= 1
        BY <3>1, DropFacts
      <3>3. dest'[StateKey] # <<>>
        BY <1>2, <2>0, <3>2, RepairConstants
      <3>4. \A s \in live' : dest'[s] # <<>>
        BY <1>0, <1>2, <2>0, <3>1, <3>2, RepairConstants DEF Refreshing, RepairInv
      <3>5. Refreshing'
        BY <1>0, <3>1, NoCallFacts DEF Refreshing
      <3>6. QED
        BY <1>0, <1>2, <2>0, <3>1, <3>2, <3>3, <3>4, <3>5, NoCallFacts, WriterKeeps
    <2>3. QED
      BY <2>1, <2>2
  <1>5. CASE R!WriterCleans
    <2>1. /\ dest' = [k \in R!Key |-> IF k \in retired THEN <<>> ELSE dest[k]]
          /\ retired' = {} /\ held' = R!ReleaseLease(held, Writer)
          /\ writer' = R!NoWrite /\ UNCHANGED live
      BY <1>5 DEF R!WriterCleans
    <2>2. /\ dest' \in [R!Key -> Seq(R!Value)] /\ GoodItems'
          /\ \A k \in R!Key : k \notin retired => dest'[k] = dest[k]
          /\ ~stalled => \A k \in R!Key : Len(dest'[k]) <= 1
      BY <2>1, DropFacts
    <2>3. dest'[StateKey] # <<>>
      BY <1>0, <1>2, <2>2, RepairConstants
    <2>4. \A s \in live' : dest'[s] # <<>>
      BY <1>0, <1>2, <2>1, <2>2, RepairConstants DEF Refreshing, RepairInv
    <2>5. Refreshing'
      BY <2>1, NoCallFacts DEF Refreshing
    <2>6. held' \in R!LeaseRow(Holder \union {Dead})
      BY <1>0, <2>1 DEF R!ReleaseLease, R!LeaseRow, R!NoLease
    <2>7. QED
      BY <1>0, <1>2, <2>1, <2>2, <2>3, <2>4, <2>5, <2>6, NoCallFacts, WriterKeeps
  <1>6. QED
    BY <1>3, <1>4, <1>5

\* Time: a dead owner's lease lapses; a stall ends what the leases promised.
LEMMA LapseStep ==
    ASSUME RepairInv, R!Lapse \/ R!Stall
    PROVE  RepairInv'
  <1>1. /\ UNCHANGED <<legacy, dest, live, retired, call, writer>>
        /\ held \in R!LeaseRow(Holder \union {Dead}) /\ held' = R!Elapse(held)
        /\ stalled' \in BOOLEAN /\ (~stalled' => ~stalled /\ held.owner = Dead)
    BY DEF RepairInv, RepairTypes, R!Lapse, R!Stall
  <1>2. held' \in R!LeaseRow(Holder \union {Dead}) /\ held'.owner = held.owner
    BY <1>1 DEF R!Elapse, R!LeaseRow
  <1>3. ~stalled' => \A o \in Holder : ~HasLease(o)
    BY <1>1, RepairConstants DEF HasLease
  <1>4. RepairTypes' /\ GoodItems'
    BY <1>1, <1>2 DEF RepairInv, RepairTypes, GoodItems
  <1>5. ASSUME NEW p \in Repairer PROVE Copying(p)'
    <2>1. Copying(p) /\ (~stalled' => ~stalled /\ ~HasLease(p))
      BY <1>1, <1>3 DEF RepairInv, Holder
    <2>2. QED
      BY <1>1, <2>1 DEF Copying
  <1>6. Refreshing'
    <2>1. Refreshing /\ (~stalled' => ~stalled /\ ~HasLease(Writer))
      BY <1>1, <1>3 DEF RepairInv, Holder
    <2>2. QED
      BY <1>1, <2>1 DEF Refreshing
  <1>7. QED
    BY <1>1, <1>4, <1>5, <1>6 DEF RepairInv

LEMMA RepairNext == RepairInv /\ R!Next => RepairInv'
  <1> SUFFICES ASSUME RepairInv, R!Next PROVE RepairInv'
    OBVIOUS
  <1>1. ASSUME NEW p \in Repairer, R!Verify(p) \/ R!Abort(p) \/ R!Crash(p)
        PROVE  RepairInv'
    <2>1. /\ R!Fail(p) /\ UNCHANGED <<legacy, dest, live, retired, writer, stalled>>
          /\ \/ held' = held
             \/ held' = R!ReleaseLease(held, p)
             \/ held.owner = p /\ held' = [held EXCEPT !.owner = Dead]
      BY <1>1 DEF R!Verify, R!Abort, R!Crash, R!Return, R!Fail
    <2>2. QED
      BY <2>1, ReturnsStep
  <1>2. ASSUME NEW p \in Repairer, R!RepairStep(p) PROVE RepairInv'
    BY <1>1, <1>2, PlanStep, RecheckStep, WriteStep DEF R!RepairStep
  <1>3. QED
    BY <1>1, <1>2, WriterStepKeeps, LapseStep DEF R!Next

LEMMA RepairInductive == PartSpec => [](part = "repair" => RepairInv)
  <1> DEFINE Inv == part = "repair" => RepairInv
  <1>1. PartInit => Inv
    BY RepairInit DEF PartInit
  <1>2. Inv /\ [PartNext]_partVars => Inv'
    <2> SUFFICES ASSUME Inv, [PartNext]_partVars, part' = "repair" PROVE RepairInv'
      OBVIOUS
    <2>1. part = "repair" /\ (R!Next \/ UNCHANGED <<shared, repairOnly>>)
      BY DEF PartNext, partVars
    <2>2. CASE UNCHANGED <<shared, repairOnly>>
      BY <2>1, <2>2
         DEF shared, repairOnly, RepairInv, RepairTypes, GoodItems, Refreshing, Copying,
             HasLease
    <2>3. QED
      BY <2>1, <2>2, RepairNext
  <1>3. QED
    BY <1>1, <1>2, PTL DEF PartSpec

\* Whoever can read the state key, and so open the profile, can read every live
\* credential, whatever copies were cut short and whatever stale repairs write
\* around a refresh (secretservice, MigrateLegacyKeyring).
THEOREM StateKeyIsLast == PartSpec => []KeyLast
  <1>1. (part = "repair" => RepairInv) => KeyLast
    <2> SUFFICES ASSUME RepairInv, R!Readable(StateKey), NEW s \in live
                 PROVE  R!Readable(s)
      BY DEF KeyLast, R!KeyLast
    <2>1. RepairTypes /\ GoodItems /\ s \in Slot
      BY DEF RepairInv, RepairTypes
    <2>2. dest[StateKey] # <<>>
      BY <2>1, ReadableFacts
    <2>3. QED
      BY <2>1, <2>2, ReadableFacts DEF RepairInv
  <1>2. QED
    BY <1>1, RepairInductive, PTL

\* Unless a process outlives its lease, no key of the default collection ever has
\* two items: "a concurrent repair or OAuth writer cannot publish a second copy"
\* (MigrateLegacyKeyring).
THEOREM CopiesAreSingle == PartSpec => []NoSecondCopy
  <1>1. (part = "repair" => RepairInv) => NoSecondCopy
    BY DEF NoSecondCopy, R!NoSecondCopy, RepairInv
  <1>2. QED
    BY <1>1, RepairInductive, PTL

\* What a repair reads of a key that has one item at most.
LEMMA FoundFacts ==
    ASSUME RepairTypes, NEW k \in R!Key
    PROVE  /\ R!Found(k) \subseteq R!Value
           /\ dest[k] # <<>> => dest[k][1] \in R!Found(k) \cap R!Value
           /\ Len(dest[k]) = 1 /\ dest[k][1] = "v" => dest[k] = <<"v">>
           /\ Len(dest[k]) <= 1 /\ dest[k] # <<>> => Len(dest[k]) = 1
  <1>1. dest[k] \in Seq(R!Value) /\ legacy[k] \subseteq R!Value
    BY DEF RepairTypes
  <1>2. \A i \in DOMAIN dest[k] : dest[k][i] \in R!Value
    BY <1>1
  <1>3. R!Found(k) \subseteq R!Value
    BY <1>1, <1>2 DEF R!Found, R!Values
  <1>4. ASSUME dest[k] # <<>> PROVE 1 \in DOMAIN dest[k] /\ Len(dest[k]) >= 1
    BY <1>1, <1>4
  <1>5. ASSUME Len(dest[k]) = 1, dest[k][1] = "v" PROVE dest[k] = <<"v">>
    <2>1. Len(<<"v">>) = 1 /\ <<"v">>[1] = "v" /\ <<"v">> \in Seq(R!Value)
      BY OneItem
    <2>2. QED
      BY <1>1, <1>5, <2>1
  <1>6. dest[k] # <<>> => dest[k][1] \in R!Found(k) \cap R!Value
    BY <1>2, <1>4 DEF R!Found, R!Values
  <1>7. Len(dest[k]) \in Nat
    BY <1>1
  <1>8. ASSUME Len(dest[k]) <= 1, dest[k] # <<>> PROVE Len(dest[k]) = 1
    <2>1. Len(dest[k]) >= 1
      BY <1>4, <1>8
    <2> DEFINE n == Len(dest[k])
    <2>2. n \in Nat /\ n <= 1 /\ n >= 1
      BY <1>7, <1>8, <2>1
    <2> HIDE DEF n
    <2>3. n = 1
      BY <2>2
    <2>4. QED
      BY <2>3 DEF n
  <1>9. QED
    BY <1>3, <1>5, <1>6, <1>8

\* Unless a process outlives its lease, a repair cut short can be run again: what is
\* refused is a damaged keyring, or a plan made before the fence moved
\* (secretservice, resolvePlan, recheckDestination, verifyCopied).
THEOREM RefusalHasCause == PartSpec => []FailsForCause
  <1>1. (part = "repair" => RepairInv) => FailsForCause
    <2> SUFFICES ASSUME RepairInv, ~stalled, NEW p \in Repairer, R!Refused(p),
                        live = call[p].live, ~R!Damaged
                 PROVE  FALSE
      BY DEF FailsForCause, R!FailsForCause
    <2>0. /\ RepairTypes /\ Copying(p) /\ call[p] \in RepairCall /\ live \subseteq Slot
          /\ \A k \in R!Key : Len(dest[k]) <= 1
      BY DEF RepairInv, RepairTypes
    <2>1. /\ \A k \in R!Key : "w" \notin R!Found(k)
          /\ \A k \in {StateKey} \union live : R!Found(k) # {}
      BY DEF R!Damaged
    <2>2. /\ \A k \in R!Key : R!Found(k) \subseteq {"v"}
          /\ \A k \in R!Key : dest[k] # <<>> => dest[k] = <<"v">>
      <3>1. ASSUME NEW k \in R!Key PROVE R!Found(k) \subseteq {"v"}
        BY <2>0, <2>1, <3>1, FoundFacts DEF R!Value
      <3>2. ASSUME NEW k \in R!Key, dest[k] # <<>> PROVE dest[k] = <<"v">>
        <4>1. Len(dest[k]) = 1
          BY <2>0, <3>2, FoundFacts
        <4>2. dest[k][1] = "v"
          BY <2>0, <3>1, <3>2, FoundFacts
        <4>3. QED
          BY <2>0, <3>2, <4>1, <4>2, FoundFacts
      <3>3. QED
        BY <3>1, <3>2
    <2>3. CASE R!At(p, "plan") /\ R!PlanError(p) # "none"
      <3>1. R!MigrationKeys(p) \subseteq R!Key
        BY <2>0, RepairConstants DEF R!MigrationKeys, R!Required, RepairCall
      <3>2. \A k \in R!MigrationKeys(p) : R!Found(k) # {}
        BY <2>1 DEF R!MigrationKeys, R!Required, R!Found
      <3>3. \A k \in R!MigrationKeys(p) : R!Found(k) = {"v"}
        BY <2>2, <3>1, <3>2
      <3>4. "v" # "w" /\ {"v"} # R!Value /\ {"v"} # {} /\ {"v"} # {"w"}
        BY DEF R!Value
      <3>5. QED
        BY <2>3, <3>3, <3>4 DEF R!PlanError, R!Malformed, R!OpensState
    <2>4. \A k \in DOMAIN call[p].plan : k \in R!Key /\ call[p].plan[k] = "v"
      BY <2>0, PlanFacts DEF RepairCall
    <2>5. \A k \in R!Key : ~(Len(dest[k]) > 1)
      <3>1. \A k \in R!Key : Len(dest[k]) \in Nat
        BY <2>0 DEF RepairTypes
      <3>2. QED
        BY <2>0, <3>1
    <2>6. CASE R!At(p, "recheck") /\ R!RecheckError(p) # "none"
      <3>1. \A k \in R!Key : Len(dest[k]) = 1 => dest[k] # <<>>
        BY NoItem
      <3>2. \A k \in R!Key : Len(dest[k]) = 1 => dest[k] = <<"v">>
        BY <2>2, <3>1
      <3>3. QED
        BY <2>4, <2>5, <2>6, <3>2 DEF R!RecheckError
    <2>7. CASE R!At(p, "write") /\ call[p].pending = {} /\ R!VerifyError(p) # "none"
      <3>1. \A k \in DOMAIN call[p].plan : dest[k] = <<"v">> /\ dest[k] # <<>>
        BY <2>0, <2>2, <2>4, <2>7 DEF Copying, R!At
      <3>2. \A k \in DOMAIN call[p].plan : Len(dest[k]) = 1
        BY <3>1, OneItem
      <3>3. \A s \in call[p].live : R!Readable(s)
        <4>1. \A s \in call[p].live : s \in Slot /\ s \in DOMAIN call[p].plan
          BY <2>0, <2>7 DEF Copying, R!At
        <4>2. QED
          BY <2>0, <3>1, <4>1, ReadableFacts DEF RepairInv
      <3>4. QED
        BY <2>4, <2>7, <3>1, <3>2, <3>3 DEF R!VerifyError
    <2>8. QED
      BY <2>3, <2>6, <2>7 DEF R!Refused
  <1>2. QED
    BY <1>1, RepairInductive, PTL

-----------------------------------------------------------------------------
(* Progress.  A recursive definition is reasoned about by the least index  *)
(* at which a claim fails: the library's least element of a well-founded   *)
(* relation is about sets, where its induction is about an operator.       *)

LogEvent == [sequence : Nat, size : Size, by : Runner]
LogRow == [status : {"none", "open", "settled", "expired", "gone"},
           sequence : Nat, events : Seq(LogEvent)]

ProgressTypes ==
    /\ row \in LogRow /\ seen \in [Runner -> Nat]
    /\ await \in [at : {"idle", "wait", "answer"}, after : Nat, sub : LogRow]
    /\ cursor \in Nat /\ received \in Seq(LogEvent)

\* Events in order, none beyond a number.
Ordered(events, last) ==
    /\ \A i, j \in 1..Len(events) : i < j => events[i].sequence < events[j].sequence
    /\ \A i \in 1..Len(events) : events[i].sequence <= last

\* What a reader that has got to `last` finds again: the log only loses old events
\* and gains newer ones.
Covers(events, last) ==
    \A i \in 1..Len(row.events) :
        row.events[i].sequence <= last => \E j \in 1..Len(events) : events[j] = row.events[i]

\* The log, an await's snapshot of it and what the client got are in order and end
\* where the row, the snapshot and the cursor say; neither the snapshot nor the
\* cursor is ahead of the row, and both still cover the log up to where they are.
ProgressInv ==
    /\ ProgressTypes
    /\ Ordered(row.events, row.sequence)
    /\ Ordered(received, cursor) /\ cursor <= row.sequence /\ Covers(received, cursor)
    /\ await.at # "idle" =>
         /\ await.after = cursor /\ await.sub.sequence <= row.sequence
         /\ Ordered(await.sub.events, await.sub.sequence)
         /\ Covers(await.sub.events, await.sub.sequence)

\* A set of numbers has a least one.
LEMMA LeastNumber ==
  ASSUME NEW T \in SUBSET Nat, T # {}
  PROVE  \E m \in T : \A k \in T : m <= k
  <1> DEFINE R0 == OpToRel(<, Nat)
  <1>1. IsWellFoundedOn(R0, Nat)
    BY NatLessThanWellFounded
  <1>2. \A x, y \in Nat : y < x => <<y, x>> \in R0
    BY DEF OpToRel
  <1> HIDE DEF R0
  <1>3. PICK x \in T : \A y \in T : ~ (<<y, x>> \in R0)
    BY <1>1, WFMin
  <1>4. \A y \in T : ~(y < x)
    BY <1>2, <1>3
  <1>5. QED
    BY <1>4

\* The loop of buildOutput runs through every event.
LEMMA FilterLoop ==
  ASSUME NEW after, NEW events, Len(events) \in Nat
  PROVE  \E f : /\ P!NewEvents(after, events) = f[Len(events)]
                /\ f[0] = <<>>
                /\ \A i \in 1..Len(events) :
                     f[i] = IF events[i].sequence > after THEN Append(f[i - 1], events[i])
                            ELSE f[i - 1]
  <1> DEFINE n == Len(events)
             Body(f, i) == IF i = 0 THEN <<>>
                           ELSE IF events[i].sequence > after THEN Append(f[i - 1], events[i])
                           ELSE f[i - 1]
             Defines(f, k) == f = [i \in 0..k |-> Body(f, i)]
             T == {k \in Nat : \A f : ~Defines(f, k)}
  <1>0. n \in Nat
    OBVIOUS
  <1> HIDE DEF n
  <1>1. T = {}
    <2>1. SUFFICES ASSUME T # {} PROVE FALSE
      OBVIOUS
    <2>2. PICK k \in T : \A j \in T : k <= j
      BY <2>1, LeastNumber
    <2>3. k # 0
      <3>1. Defines([i \in 0..0 |-> <<>>], 0)
        OBVIOUS
      <3>2. QED
        BY <3>1
    <2>4. k - 1 \in Nat /\ k - 1 \notin T
      <3>1. k \in Nat
        OBVIOUS
      <3> HIDE DEF T
      <3>2. QED
        BY <2>2, <2>3, <3>1
    <2>5. PICK g : Defines(g, k - 1)
      BY <2>4
    <2> DEFINE h == [i \in 0..k |-> IF i = k THEN Body(g, k) ELSE g[i]]
    <2>6. \A i \in 0..(k - 1) : h[i] = g[i] /\ g[i] = Body(g, i)
      <3> HIDE DEF Body
      <3>1. \A i \in 0..(k - 1) : g[i] = Body(g, i)
        BY <2>5
      <3>2. QED
        BY <3>1, <2>4
    <2>7. \A i \in 0..k : Body(h, i) = IF i = k THEN Body(g, k) ELSE Body(g, i)
      <3>1. TAKE i \in 0..k
      <3>2. CASE i = 0
        BY <3>2, <2>3
      <3>3. CASE i # 0
        <4>1. i - 1 \in 0..(k - 1) /\ h[i - 1] = g[i - 1]
          BY <3>3, <2>6, <2>4
        <4> HIDE DEF h
        <4>2. QED
          BY <4>1, <3>3
      <3>4. QED
        BY <3>2, <3>3
    <2>8. h = [i \in 0..k |-> Body(h, i)]
      <3>1. \A i \in 0..k : h[i] = Body(h, i)
        <4>1. TAKE i \in 0..k
        <4>2. h[i] = IF i = k THEN Body(g, k) ELSE g[i]
          BY DEF h
        <4>3. i # k => i \in 0..(k - 1)
          BY <2>4
        <4> HIDE DEF Body, h
        <4>4. QED
          BY <4>2, <4>3, <2>6, <2>7
      <3>2. h = [i \in 0..k |-> h[i]]
        BY DEF h
      <3> HIDE DEF h, Body
      <3>3. QED
        BY <3>1, <3>2
    <2>9. QED
      BY <2>8, <2>2
  <1>2. \E f : Defines(f, n)
    <2> HIDE DEF Defines
    <2>1. QED
      BY <1>0, <1>1
  <1> DEFINE new == CHOOSE f : Defines(f, n)
  <1>3. Defines(new, n)
    <2> HIDE DEF Defines
    <2>1. QED
      BY <1>2
  <1>4. P!NewEvents(after, events) = new[n]
    BY Zenon DEF P!NewEvents, n
  <1>5. \A i \in 0..n : new[i] = Body(new, i)
    <2> HIDE DEF Body, new
    <2>1. QED
      BY <1>3
  <1> HIDE DEF new
  <1>6. QED
    BY <1>0, <1>4, <1>5 DEF n

\* buildOutput answers the events after the cursor, all of them and in order.
LEMMA FilterFacts ==
  ASSUME NEW after \in Nat, NEW events \in Seq(LogEvent), NEW last \in Nat,
         Ordered(events, last)
  PROVE  LET new == P!NewEvents(after, events) IN
         /\ new \in Seq(LogEvent) /\ Ordered(new, last)
         /\ \A i \in 1..Len(new) : new[i].sequence > after
         /\ \A i \in 1..Len(new) : \E j \in 1..Len(events) : new[i] = events[j]
         /\ \A j \in 1..Len(events) :
               events[j].sequence > after => \E i \in 1..Len(new) : new[i] = events[j]
  <1> DEFINE n == Len(events)
             \* What the loop has gathered from the first k events.
             Gathers(s, k) ==
               /\ s \in Seq(LogEvent)
               /\ \A i, j \in 1..Len(s) : i < j => s[i].sequence < s[j].sequence
               /\ \A i \in 1..Len(s) : s[i].sequence > after
               /\ \A i \in 1..Len(s) : \E j \in 1..k : s[i] = events[j]
               /\ \A j \in 1..k :
                     events[j].sequence > after => \E i \in 1..Len(s) : s[i] = events[j]
  <1>0. n \in Nat /\ \A i \in 1..n : events[i] \in LogEvent
    OBVIOUS
  <1>1. PICK f : /\ P!NewEvents(after, events) = f[n]
                 /\ f[0] = <<>>
                 /\ \A i \in 1..n :
                      f[i] = IF events[i].sequence > after THEN Append(f[i - 1], events[i])
                             ELSE f[i - 1]
    BY <1>0, FilterLoop
  <1>2. Gathers(f[0], 0)
    <2>1. <<>> \in Seq(LogEvent) /\ Len(<<>>) = 0
      OBVIOUS
    <2>2. QED
      BY <1>1, <2>1
  <1>3. ASSUME NEW k \in 1..n, Gathers(f[k - 1], k - 1) PROVE Gathers(f[k], k)
    <2> DEFINE s == f[k - 1]
               e == events[k]
    <2>1. /\ e \in LogEvent /\ e.sequence \in Nat /\ k \in Nat
          /\ \A j \in 1..(k - 1) : j \in 1..n /\ events[j].sequence < e.sequence
      <3>1. e \in LogEvent /\ k \in Nat /\ \A j \in 1..(k - 1) : j \in 1..n /\ j < k
        BY <1>0
      <3>2. \A j \in 1..(k - 1) : events[j].sequence < e.sequence
        BY <3>1 DEF Ordered
      <3>3. QED
        BY <3>1, <3>2 DEF LogEvent
    <2>2. CASE ~(e.sequence > after)
      <3>1. f[k] = s
        BY <1>1, <2>2
      <3>2. \A j \in 1..k : j \in 1..(k - 1) \/ j = k
        BY <2>1
      <3>3. \A j \in 1..(k - 1) : j \in 1..k
        BY <2>1
      <3> HIDE DEF s
      <3>4. Gathers(s, k)
        BY <1>3, <2>2, <3>2, <3>3 DEF s
      <3>5. QED
        BY <3>1, <3>4
    <2>3. CASE e.sequence > after
      <3> DEFINE t == Append(s, e)
      <3>1. f[k] = t
        BY <1>1, <2>3
      <3>2. s \in Seq(LogEvent) /\ Len(s) \in Nat
        BY <1>3
      <3>3. /\ t \in Seq(LogEvent) /\ Len(t) = Len(s) + 1 /\ t[Len(s) + 1] = e
            /\ \A i \in 1..Len(s) : t[i] = s[i]
        BY <2>1, <3>2, AppendProperties
      <3>4. \A i \in 1..Len(t) : i \in 1..Len(s) \/ i = Len(s) + 1
        BY <3>2, <3>3
      <3>5. \A i \in 1..Len(s) : s[i].sequence < e.sequence /\ s[i].sequence \in Nat
        <4>1. SUFFICES ASSUME NEW i \in 1..Len(s)
                       PROVE  s[i].sequence < e.sequence /\ s[i].sequence \in Nat
          OBVIOUS
        <4>2. PICK j \in 1..(k - 1) : s[i] = events[j]
          BY <1>3
        <4>3. s[i] \in LogEvent
          BY <3>2
        <4> HIDE DEF s, e
        <4>4. QED
          BY <2>1, <4>2, <4>3 DEF LogEvent
      <3> HIDE DEF t, s, e
      <3>6. \A i, j \in 1..Len(t) : i < j => t[i].sequence < t[j].sequence
        <4>1. SUFFICES ASSUME NEW i \in 1..Len(t), NEW j \in 1..Len(t), i < j
                       PROVE  t[i].sequence < t[j].sequence
          OBVIOUS
        <4>2. i \in 1..Len(s)
          BY <3>2, <3>3, <4>1
        <4>3. CASE j \in 1..Len(s)
          BY <1>3, <3>3, <4>1, <4>2, <4>3 DEF s
        <4>4. CASE j = Len(s) + 1
          BY <3>3, <3>5, <4>2, <4>4
        <4>5. QED
          BY <3>4, <4>3, <4>4
      <3>7. \A i \in 1..Len(t) : t[i].sequence > after
        BY <1>3, <2>3, <3>3, <3>4 DEF s
      <3>8. \A i \in 1..Len(t) : \E j \in 1..k : t[i] = events[j]
        <4>1. \A j \in 1..(k - 1) : j \in 1..k
          BY <2>1
        <4>2. k \in 1..k
          BY <2>1
        <4>3. \A i \in 1..Len(s) : \E j \in 1..k : t[i] = events[j]
          BY <1>3, <3>3, <4>1 DEF s
        <4>4. QED
          BY <3>3, <3>4, <4>2, <4>3 DEF e
      <3>9. \A j \in 1..k :
               events[j].sequence > after => \E i \in 1..Len(t) : t[i] = events[j]
        <4>1. \A j \in 1..k : j \in 1..(k - 1) \/ j = k
          BY <2>1
        <4>2. Len(s) + 1 \in 1..Len(t) /\ \A i \in 1..Len(s) : i \in 1..Len(t)
          BY <3>2, <3>3
        <4>3. \A j \in 1..(k - 1) :
                 events[j].sequence > after => \E i \in 1..Len(t) : t[i] = events[j]
          BY <1>3, <3>3, <4>2 DEF s
        <4>4. QED
          BY <3>3, <4>1, <4>2, <4>3 DEF e
      <3>10. QED
        BY <3>1, <3>3, <3>6, <3>7, <3>8, <3>9
    <2>4. QED
      BY <2>2, <2>3
  <1> HIDE DEF Gathers
  <1> DEFINE T == {k \in 0..n : ~Gathers(f[k], k)}
  <1>4. T = {}
    <2>1. SUFFICES ASSUME T # {} PROVE FALSE
      OBVIOUS
    <2>2. PICK k \in T : \A j \in T : k <= j
      <3>1. T \in SUBSET Nat
        BY <1>0
      <3> HIDE DEF T
      <3>2. QED
        BY <2>1, <3>1, LeastNumber
    <2>3. k \in 1..n /\ k - 1 \in 0..n
      BY <1>0, <1>2
    <2>4. k - 1 \notin T
      <3> HIDE DEF T
      <3>1. QED
        BY <1>0, <2>2, <2>3
    <2>5. QED
      BY <1>3, <2>3, <2>4
  <1>5. Gathers(f[n], n)
    BY <1>0, <1>4
  <1>6. \A s, k : Gathers(s, n) /\ s = k => Gathers(k, n)
    OBVIOUS
  <1> DEFINE new == P!NewEvents(after, events)
  <1>7. Gathers(new, n)
    BY <1>1, <1>5
  <1> HIDE DEF new
  <1>8. \A i \in 1..Len(new) : new[i].sequence <= last
    BY <1>7, <1>0 DEF Gathers, Ordered
  <1>9. QED
    BY <1>7, <1>8 DEF Gathers, Ordered, new

\* Trimming keeps an end of the log.
LEMMA TrimFacts ==
  ASSUME NEW events \in Seq(LogEvent)
  PROVE  LET kept == P!TrimEvents(events) IN
         /\ kept \in Seq(LogEvent)
         /\ \E d \in Nat : /\ Len(kept) + d = Len(events)
                           /\ \A i \in 1..Len(kept) : kept[i] = events[i + d]
  <1> DEFINE n == Len(events)
             T == {k \in 1..(n + 1) : P!Fits(SubSeq(events, k, n))}
             Least(k) == /\ P!Fits(SubSeq(events, k, n))
                         /\ \A j \in 1..(k - 1) : ~P!Fits(SubSeq(events, j, n))
             first == CHOOSE k \in 1..(n + 1) : Least(k)
  <1>0. n \in Nat /\ \A i \in 1..n : events[i] \in LogEvent
    OBVIOUS
  <1> HIDE DEF n
  <1>1. n + 1 \in T
    <2>1. SubSeq(events, n + 1, n) = <<>>
      BY <1>0, SubSeqEmpty
    <2>2. P!Fits(<<>>)
      <3>1. Len(<<>>) = 0
        OBVIOUS
      <3>2. QED
        BY <3>1, PartsAssumption DEF P!Fits
    <2>3. P!Fits(SubSeq(events, n + 1, n))
      BY <2>1, <2>2, Zenon
    <2>4. QED
      BY <1>0, <2>3
  <1>2. \E k \in 1..(n + 1) : Least(k)
    <2>1. T \in SUBSET Nat
      BY <1>0
    <2>2. PICK k \in T : \A j \in T : k <= j
      <3> HIDE DEF T
      <3>1. QED
        BY <1>1, <2>1, LeastNumber
    <2>3. \A j \in 1..(k - 1) : j \in 1..(n + 1) /\ ~(k <= j)
      BY <1>0
    <2>4. QED
      BY <2>2, <2>3
  <1>3. first \in 1..(n + 1)
    <2> HIDE DEF Least
    <2>1. QED
      BY <1>2
  <1>4. P!TrimEvents(events) = SubSeq(events, first, n)
    BY Zenon DEF P!TrimEvents, n
  <1> HIDE DEF first
  <1> DEFINE kept == SubSeq(events, first, n)
  <1>5. first \in Int /\ n \in Int /\ \A i \in first..n : events[i] \in LogEvent
    BY <1>0, <1>3
  <1>6. /\ kept \in Seq(LogEvent)
        /\ Len(kept) = IF first <= n THEN n - first + 1 ELSE 0
        /\ \A i \in 1..(n - first + 1) : kept[i] = events[first + i - 1]
    BY <1>5, SubSeqProperties
  <1> HIDE DEF kept
  <1>7. Len(kept) = n - first + 1
    BY <1>0, <1>3, <1>6
  <1>8. first - 1 \in Nat /\ Len(kept) + (first - 1) = n
    BY <1>0, <1>3, <1>7
  <1>9. \A i \in 1..Len(kept) : kept[i] = events[i + (first - 1)]
    <2>1. \A i \in 1..Len(kept) : first + i - 1 = i + (first - 1)
      BY <1>3, <1>7
    <2>2. QED
      BY <1>6, <1>7, <2>1
  <1>10. QED
    BY <1>4, <1>6, <1>8, <1>9 DEF n, kept

\* The next cursor is the last number of the log, or stays.
LEMMA CursorFacts ==
  ASSUME NEW after \in Nat, NEW events \in Seq(LogEvent), NEW last \in Nat,
         Ordered(events, last)
  PROVE  LET next == P!NextCursor(after, events) IN
         /\ next \in Nat /\ after <= next
         /\ \A i \in 1..Len(events) : events[i].sequence <= next
         /\ next = after \/ next <= last
  <1> DEFINE n == Len(events)
             numbers == {after} \union {e.sequence : e \in P!ToSet(events)}
  <1>1. n \in Nat /\ \A i \in 1..n : events[i].sequence \in Nat
    <2>1. n \in Nat /\ \A i \in 1..n : events[i] \in LogEvent
      OBVIOUS
    <2>2. QED
      BY <2>1 DEF LogEvent
  <1>2. \A x : x \in numbers <=> x = after \/ \E i \in 1..n : x = events[i].sequence
    BY DEF P!ToSet
  <1>3. P!NextCursor(after, events) = CHOOSE x \in numbers : \A y \in numbers : x >= y
    BY Zenon DEF P!NextCursor, P!Max
  <1> HIDE DEF numbers, n
  <1>4. \E x \in numbers : \A y \in numbers : x >= y
    <2>1. CASE \A i \in 1..n : events[i].sequence <= after
      <3>1. after \in numbers /\ \A y \in numbers : after >= y
        BY <1>1, <1>2, <2>1
      <3>2. QED
        BY <3>1
    <2>2. ASSUME NEW k \in 1..n, ~(events[k].sequence <= after)
          PROVE  \E x \in numbers : \A y \in numbers : x >= y
      <3>1. n \in 1..n /\ \A i \in 1..n : i < n \/ i = n
        BY <1>1
      <3>2. \A i \in 1..n : events[i].sequence <= events[n].sequence
        <4>1. TAKE i \in 1..n
        <4>2. i < n => events[i].sequence < events[n].sequence
          BY <3>1 DEF Ordered, n
        <4>3. QED
          BY <1>1, <3>1, <4>2
      <3>3. after <= events[n].sequence
        BY <1>1, <2>2, <3>1, <3>2
      <3>4. /\ events[n].sequence \in numbers
            /\ \A y \in numbers : events[n].sequence >= y
        BY <1>1, <1>2, <3>1, <3>2, <3>3
      <3>5. QED
        BY <3>4
    <2>3. QED
      BY <2>1, <2>2
  <1> DEFINE next == P!NextCursor(after, events)
  <1>5. next \in numbers /\ \A y \in numbers : next >= y
    BY <1>3, <1>4
  <1> HIDE DEF next
  <1>6. next \in Nat
    BY <1>1, <1>2, <1>5
  <1>7. \A i \in 1..n : events[i].sequence <= last
    BY DEF Ordered, n
  <1>8. /\ after <= next /\ \A i \in 1..n : events[i].sequence <= next
    BY <1>1, <1>2, <1>5, <1>6
  <1>9. next = after \/ next <= last
    BY <1>2, <1>5, <1>7
  <1>10. QED
    BY <1>6, <1>8, <1>9 DEF n, next

LEMMA ProgressInit == P!Init => ProgressInv
  <1> SUFFICES ASSUME P!Init PROVE ProgressInv
    OBVIOUS
  <1>1. PICK r \in Runner, n \in Size :
          row = [status |-> "open", sequence |-> 1,
                 events |-> <<[sequence |-> 1, size |-> n, by |-> r]>>]
    BY DEF P!Init
  <1> DEFINE e == [sequence |-> 1, size |-> n, by |-> r]
  <1>2. e \in LogEvent /\ e.sequence = 1
    BY DEF LogEvent
  <1> HIDE DEF e
  <1>3. <<e>> \in Seq(LogEvent) /\ Len(<<e>>) = 1 /\ <<e>>[1] = e
    BY <1>2
  <1>4. <<>> \in Seq(LogEvent) /\ Len(<<>>) = 0
    OBVIOUS
  <1>5. row = [status |-> "open", sequence |-> 1, events |-> <<e>>]
    BY <1>1 DEF e
  <1>6. /\ row.events = <<e>> /\ row.sequence = 1 /\ row \in LogRow
    BY <1>3, <1>5 DEF LogRow
  <1>7. seen = [q \in Runner |-> 1] /\ cursor = 0 /\ received = <<>> /\ await = P!NoAwait
    BY DEF P!Init
  <1>8. ProgressTypes /\ await.at = "idle"
    BY <1>4, <1>6, <1>7 DEF ProgressTypes, P!NoAwait, LogRow
  <1>9. Ordered(row.events, row.sequence)
    BY <1>2, <1>3, <1>6 DEF Ordered
  <1>10. Ordered(received, cursor) /\ Covers(received, cursor)
    <2>1. \A i \in 1..Len(row.events) : row.events[i].sequence = 1
      BY <1>2, <1>3, <1>6
    <2>2. QED
      BY <1>4, <1>7, <2>1 DEF Ordered, Covers
  <1>11. QED
    BY <1>6, <1>7, <1>8, <1>9, <1>10 DEF ProgressInv

\* A row that only lost events, or gained ones beyond its number, is still covered.
LEMMA RowStep ==
  ASSUME ProgressInv, UNCHANGED <<await, cursor, received>>,
         row' \in LogRow, seen' \in [Runner -> Nat], row.sequence <= row'.sequence,
         Ordered(row.events, row.sequence)',
         \A i \in 1..Len(row'.events) :
            \/ row'.events[i].sequence > row.sequence
            \/ \E j \in 1..Len(row.events) : row'.events[i] = row.events[j]
  PROVE  ProgressInv'
  <1>1. row.sequence \in Nat /\ row'.sequence \in Nat /\ cursor \in Nat
    BY DEF ProgressInv, ProgressTypes, LogRow
  <1>2. ProgressTypes'
    BY DEF ProgressInv, ProgressTypes
  <1>3. ASSUME NEW events, NEW last \in Nat, last <= row.sequence, Covers(events, last),
               NEW i \in 1..Len(row'.events), row'.events[i].sequence <= last
        PROVE  \E j \in 1..Len(events) : events[j] = row'.events[i]
    <2>1. row'.events[i].sequence \in Nat
      <3>1. row'.events \in Seq(LogEvent)
        BY DEF LogRow
      <3>2. row'.events[i] \in LogEvent
        BY <3>1
      <3>3. QED
        BY <3>2 DEF LogEvent
    <2>2. PICK j \in 1..Len(row.events) : row'.events[i] = row.events[j]
      <3>1. ~ row'.events[i].sequence > row.sequence
        BY <1>1, <1>3, <2>1
      <3>2. i \in 1..Len(row'.events)
        BY <1>3
      <3>3. \/ row'.events[i].sequence > row.sequence
            \/ \E j \in 1..Len(row.events) : row'.events[i] = row.events[j]
        BY <3>2
      <3>4. QED
        BY <3>1, <3>3
    <2>3. QED
      BY <1>3, <2>2 DEF Covers
  <1>4. Covers(received, cursor)'
    <2>1. cursor <= row.sequence /\ Covers(received, cursor)
      BY DEF ProgressInv
    <2>2. \A i \in 1..Len(row'.events) : row'.events[i].sequence <= cursor =>
             \E j \in 1..Len(received) : received[j] = row'.events[i]
      BY <1>1, <1>3, <2>1
    <2>3. QED
      BY <2>2 DEF Covers
  <1>5. ASSUME await.at # "idle"
        PROVE  await.sub.sequence <= row'.sequence /\ Covers(await.sub.events, await.sub.sequence)'
    <2>1. await.sub.sequence \in Nat
      BY DEF ProgressInv, ProgressTypes, LogRow
    <2>2. await.sub.sequence <= row.sequence /\ Covers(await.sub.events, await.sub.sequence)
      BY <1>5 DEF ProgressInv
    <2>3. QED
      <3>1. \A i \in 1..Len(row'.events) : row'.events[i].sequence <= await.sub.sequence =>
               \E j \in 1..Len(await.sub.events) : await.sub.events[j] = row'.events[i]
        BY <1>1, <1>3, <2>1, <2>2
      <3>2. await.sub.sequence <= row'.sequence
        BY <1>1, <2>1, <2>2
      <3>3. QED
        BY <3>1, <3>2 DEF Covers
  <1>6. QED
    BY <1>1, <1>2, <1>4, <1>5 DEF ProgressInv, Ordered

\* taskRunner.note, whatever number the runner last read.
LEMMA NoteStep ==
  ASSUME ProgressInv, NEW r \in Runner, P!Note(r)
  PROVE  ProgressInv'
  <1>1. /\ row \in LogRow /\ row.events \in Seq(LogEvent) /\ row.sequence \in Nat
        /\ seen \in [Runner -> Nat] /\ Ordered(row.events, row.sequence)
    BY DEF ProgressInv, ProgressTypes, LogRow
  <1>2. PICK n \in Size : P!AppendEvents([sequence |-> seen[r] + 1, size |-> n, by |-> r])
    BY DEF P!Note
  <1>3. UNCHANGED <<seen, await, cursor, received>>
    BY DEF P!Note
  <1> DEFINE e == [sequence |-> seen[r] + 1, size |-> n, by |-> r]
             all == Append(row.events, e)
             kept == P!TrimEvents(all)
             m == Len(row.events)
  <1>4. e \in LogEvent /\ e.sequence \in Nat
    BY <1>1 DEF LogEvent
  <1>5. CASE row' = row
    <2>1. \A i \in 1..Len(row'.events) : row'.events[i] = row.events[i]
      BY <1>5
    <2>2. Ordered(row.events, row.sequence)'
      BY <1>1, <1>5
    <2>3. row.sequence <= row'.sequence /\ row' \in LogRow /\ seen' \in [Runner -> Nat]
      BY <1>1, <1>3, <1>5
    <2> HIDE DEF e, all, kept
    <2>4. \A i \in 1..Len(row'.events) :
             \E j \in 1..Len(row.events) : row'.events[i] = row.events[j]
      BY <1>5
    <2>5. QED
      BY <1>3, <2>2, <2>3, <2>4, RowStep
  <1>6. CASE row' # row
    <2> HIDE DEF e
    <2>1. e.sequence > row.sequence /\ row' = [row EXCEPT !.sequence = e.sequence, !.events = kept]
      BY <1>2, <1>6 DEF P!AppendEvents, P!Appends, P!CheckSequence, e
    <2>2. /\ all \in Seq(LogEvent) /\ m \in Nat /\ Len(all) = m + 1 /\ all[m + 1] = e
          /\ \A i \in 1..m : all[i] = row.events[i]
      BY <1>1, <1>4, AppendProperties
    <2> HIDE DEF all, m
    <2> HIDE DEF kept
    <2>3. /\ kept \in Seq(LogEvent)
          /\ \E d \in Nat : /\ Len(kept) + d = Len(all)
                            /\ \A i \in 1..Len(kept) : kept[i] = all[i + d]
      BY <2>2, TrimFacts, Zenon DEF kept
    <2>4. PICK d \in Nat : /\ Len(kept) + d = m + 1
                           /\ \A i \in 1..Len(kept) : kept[i] = all[i + d]
      BY <2>2, <2>3
    <2>5. row'.events = kept /\ row'.sequence = e.sequence /\ row' \in LogRow
      BY <1>1, <1>4, <2>1, <2>3 DEF LogRow
    <2>6. \A i \in 1..m : row.events[i].sequence \in Nat /\ row.events[i].sequence <= row.sequence
      <3>1. \A i \in 1..m : row.events[i] \in LogEvent
        BY <1>1, <2>2 DEF m
      <3>2. QED
        BY <1>1, <3>1 DEF Ordered, LogEvent, m
    <2>7. \A i, j \in 1..(m + 1) : i < j => all[i].sequence < all[j].sequence
      <3>1. SUFFICES ASSUME NEW i \in 1..(m + 1), NEW j \in 1..(m + 1), i < j
                     PROVE  all[i].sequence < all[j].sequence
        OBVIOUS
      <3>2. i \in 1..m /\ (j \in 1..m \/ j = m + 1)
        BY <2>2, <3>1
      <3>3. CASE j \in 1..m
        BY <1>1, <2>2, <3>1, <3>2, <3>3 DEF Ordered, m
      <3>4. CASE j = m + 1
        <4>1. all[j] = e /\ all[i] = row.events[i]
          BY <2>2, <3>2, <3>4
        <4>2. all[i].sequence \in Nat /\ all[i].sequence <= row.sequence
          BY <2>6, <3>2, <4>1
        <4>3. QED
          BY <1>1, <1>4, <2>1, <4>1, <4>2
      <3>5. QED
        BY <3>2, <3>3, <3>4
    <2>8. \A i \in 1..(m + 1) : all[i].sequence <= e.sequence
      <3>1. TAKE i \in 1..(m + 1)
      <3>2. i \in 1..m \/ i = m + 1
        BY <2>2
      <3>3. QED
        BY <1>1, <1>4, <2>1, <2>2, <2>6, <3>2
    <2>9. Len(kept) \in Nat /\ \A i \in 1..Len(kept) : i + d \in 1..(m + 1)
      BY <2>2, <2>3, <2>4
    <2>10. Ordered(kept, e.sequence)
      <3>1. \A i \in 1..Len(kept) : kept[i].sequence <= e.sequence
        BY <2>4, <2>8, <2>9
      <3>2. ASSUME NEW i \in 1..Len(kept), NEW j \in 1..Len(kept), i < j
            PROVE  kept[i].sequence < kept[j].sequence
        <4>1. i + d < j + d
          BY <2>9, <3>2
        <4>2. QED
          BY <2>4, <2>7, <2>9, <4>1
      <3>3. QED
        BY <3>1, <3>2 DEF Ordered
    <2>11. \A i \in 1..Len(kept) :
              \/ kept[i].sequence > row.sequence
              \/ \E j \in 1..Len(row.events) : kept[i] = row.events[j]
      <3>1. TAKE i \in 1..Len(kept)
      <3>2. i + d \in 1..m \/ i + d = m + 1
        BY <2>2, <2>9
      <3>3. QED
        BY <2>1, <2>2, <2>4, <3>2 DEF m
    <2>12. row.sequence <= row'.sequence /\ seen' \in [Runner -> Nat]
      BY <1>1, <1>3, <1>4, <2>1, <2>5
    <2>13. Ordered(row.events, row.sequence)'
      BY <2>5, <2>10
    <2>14. QED
      BY <1>3, <2>5, <2>11, <2>12, <2>13, RowStep
  <1>7. QED
    BY <1>5, <1>6

\* The writes that empty the log keep its number.
LEMMA SweepStep ==
  ASSUME ProgressInv, P!Settle \/ P!ExpirePayloads \/ P!DeleteTombstone
  PROVE  ProgressInv'
  <1>1. /\ row \in LogRow /\ row.sequence \in Nat /\ seen \in [Runner -> Nat]
        /\ Ordered(row.events, row.sequence)
    BY DEF ProgressInv, ProgressTypes, LogRow
  <1>2. <<>> \in Seq(LogEvent) /\ Len(<<>>) = 0
    OBVIOUS
  <1>3. /\ row' \in LogRow /\ row'.sequence = row.sequence
        /\ row'.events = row.events \/ row'.events = <<>>
        /\ UNCHANGED <<seen, await, cursor, received>>
    BY <1>1, <1>2 DEF P!Settle, P!ExpirePayloads, P!ExpiredRow, P!DeleteTombstone, LogRow
  <1>4. /\ Ordered(row.events, row.sequence)'
        /\ \A i \in 1..Len(row'.events) :
              \E j \in 1..Len(row.events) : row'.events[i] = row.events[j]
    BY <1>1, <1>2, <1>3 DEF Ordered
  <1>5. QED
    <2>1. row.sequence <= row'.sequence /\ seen' \in [Runner -> Nat]
      BY <1>1, <1>3
    <2>2. QED
      BY <1>3, <1>4, <2>1, RowStep

\* A snapshot is the row as it is, or the one the await had.
LEMMA SnapshotStep ==
  ASSUME ProgressInv, UNCHANGED <<row, seen, cursor, received>>,
         \/ await' = P!NoAwait
         \/ /\ await' \in [at : {"wait", "answer"}, after : {cursor}, sub : LogRow]
            /\ await'.sub = row \/ (await.at # "idle" /\ await'.sub = await.sub)
  PROVE  ProgressInv'
  <1>1. <<>> \in Seq(LogEvent)
    OBVIOUS
  <1>2. ProgressTypes'
    <2>1. P!NoAwait \in [at : {"idle", "wait", "answer"}, after : Nat, sub : LogRow]
      BY <1>1 DEF P!NoAwait, LogRow
    <2>2. cursor \in Nat
      BY DEF ProgressInv, ProgressTypes
    <2>3. await' \in [at : {"idle", "wait", "answer"}, after : Nat, sub : LogRow]
      BY <2>1, <2>2
    <2>4. QED
      BY <2>3 DEF ProgressInv, ProgressTypes
  <1>3. Covers(row.events, row.sequence)
    BY DEF Covers
  <1>4. ASSUME await'.at # "idle"
        PROVE  /\ await'.after = cursor /\ await'.sub.sequence <= row.sequence
               /\ Ordered(await.sub.events, await.sub.sequence)'
               /\ Covers(await.sub.events, await.sub.sequence)'
    <2>1. await'.after = cursor /\ (await'.sub = row \/ (await.at # "idle" /\ await'.sub = await.sub))
      BY <1>4 DEF P!NoAwait
    <2>2. row.sequence \in Nat
      BY DEF ProgressInv, ProgressTypes, LogRow
    <2>3. CASE await'.sub = row
      BY <1>3, <2>1, <2>2, <2>3 DEF ProgressInv, Covers, Ordered
    <2>4. CASE await.at # "idle" /\ await'.sub = await.sub
      BY <2>1, <2>4 DEF ProgressInv, Covers, Ordered
    <2>5. QED
      BY <2>1, <2>3, <2>4
  <1>5. Covers(received, cursor)'
    BY DEF ProgressInv, Covers
  <1>6. QED
    BY <1>2, <1>4, <1>5 DEF ProgressInv

\* StartAwait, waitForState and finalState.
LEMMA AwaitStep ==
  ASSUME ProgressInv, P!StartAwait \/ P!Poll \/ P!FinalState
  PROVE  ProgressInv'
  <1>1. /\ row \in LogRow /\ UNCHANGED <<row, seen, cursor, received>>
        /\ await \in [at : {"idle", "wait", "answer"}, after : Nat, sub : LogRow]
        /\ await.at # "idle" => await.after = cursor
    BY DEF ProgressInv, ProgressTypes, P!StartAwait, P!Poll, P!FinalState
  <1>2. CASE P!StartAwait
    BY <1>1, <1>2, SnapshotStep DEF P!StartAwait
  <1>3. CASE P!Poll
    <2>1. await.at = "wait"
      BY <1>3 DEF P!Poll
    <2>2. \/ await' = P!NoAwait \/ await' = [await EXCEPT !.at = "answer", !.sub = row]
          \/ await' = [await EXCEPT !.sub = row]
      BY <1>3 DEF P!Poll
    <2>3. QED
      BY <1>1, <2>1, <2>2, SnapshotStep
  <1>4. CASE P!FinalState
    BY <1>1, <1>4, SnapshotStep DEF P!FinalState
  <1>5. QED
    BY <1>2, <1>3, <1>4

\* buildOutput: whatever the answer passes over is in the snapshot it is made from.
LEMMA AnswerStep ==
  ASSUME ProgressInv, P!BuildOutput
  PROVE  ProgressInv'
  <1> DEFINE old == await.sub.events
             last == await.sub.sequence
             new == P!NewEvents(cursor, old)
             next == P!NextCursor(cursor, old)
  <1>1. /\ received' = received \o new /\ cursor' = next /\ await' = P!NoAwait
        /\ UNCHANGED <<row, seen>>
    BY DEF ProgressInv, P!BuildOutput
  <1>2. /\ cursor \in Nat /\ old \in Seq(LogEvent) /\ last \in Nat /\ row.sequence \in Nat
        /\ received \in Seq(LogEvent)
    BY DEF ProgressInv, ProgressTypes, LogRow
  <1>3. /\ Ordered(old, last) /\ last <= row.sequence /\ Covers(old, last)
        /\ cursor <= row.sequence /\ Ordered(received, cursor) /\ Covers(received, cursor)
    BY DEF ProgressInv, P!BuildOutput
  <1> HIDE DEF old, last
  <1>4. /\ new \in Seq(LogEvent) /\ Ordered(new, last)
        /\ \A i \in 1..Len(new) : new[i].sequence > cursor
        /\ \A i \in 1..Len(new) : \E j \in 1..Len(old) : new[i] = old[j]
        /\ \A j \in 1..Len(old) : old[j].sequence > cursor => \E i \in 1..Len(new) : new[i] = old[j]
    BY <1>2, <1>3, FilterFacts
  <1>5. /\ next \in Nat /\ cursor <= next
        /\ \A i \in 1..Len(old) : old[i].sequence <= next
        /\ next = cursor \/ next <= last
    BY <1>2, <1>3, CursorFacts
  <1> HIDE DEF new, next
  <1> DEFINE p == Len(received)
             q == Len(new)
             got == received \o new
  <1>6. /\ p \in Nat /\ q \in Nat /\ got \in Seq(LogEvent) /\ Len(got) = p + q
        /\ \A i \in 1..p : got[i] = received[i]
        /\ \A i \in 1..q : got[p + i] = new[i]
    <2>1. /\ got \in Seq(LogEvent) /\ Len(got) = p + q
          /\ \A i \in 1..(p + q) : got[i] = IF i <= p THEN received[i] ELSE new[i - p]
      BY <1>2, <1>4, ConcatProperties
    <2>2. p \in Nat /\ q \in Nat
      BY <1>2, <1>4
    <2> HIDE DEF p, q, got
    <2>3. \A i \in 1..p : i \in 1..(p + q) /\ i <= p
      BY <2>2
    <2>4. \A i \in 1..q : p + i \in 1..(p + q) /\ ~(p + i <= p) /\ (p + i) - p = i
      BY <2>2
    <2>5. QED
      BY <2>1, <2>2, <2>3, <2>4
  <1>7. /\ \A i \in 1..p : received[i].sequence \in Nat
        /\ \A i \in 1..q : new[i].sequence \in Nat
        /\ \A i \in 1..Len(old) : old[i].sequence \in Nat
    <2>1. /\ \A i \in 1..p : received[i] \in LogEvent
          /\ \A i \in 1..q : new[i] \in LogEvent
          /\ \A i \in 1..Len(old) : old[i] \in LogEvent
      BY <1>2, <1>4
    <2>2. QED
      BY <2>1 DEF LogEvent
  <1> HIDE DEF got
  <1>8. /\ \A i, j \in 1..p : i < j => received[i].sequence < received[j].sequence
        /\ \A i \in 1..p : received[i].sequence <= cursor
        /\ \A i, j \in 1..q : i < j => new[i].sequence < new[j].sequence
        /\ \A i \in 1..q : new[i].sequence > cursor /\ new[i].sequence <= next
    <2>1. \A i \in 1..q : new[i].sequence <= next
      BY <1>4, <1>5
    <2>2. QED
      BY <1>3, <1>4, <2>1 DEF Ordered
  <1> HIDE DEF p, q
  <1>9. \A i \in 1..(p + q) : i \in 1..p \/ (i - p \in 1..q /\ got[i] = new[i - p])
    <2>1. TAKE i \in 1..(p + q)
    <2>2. i \in 1..p \/ (i - p \in 1..q /\ p + (i - p) = i)
      BY <1>6
    <2>3. QED
      BY <1>6, <2>2
  <1>10. Ordered(got, next)
    <2>1. \A i \in 1..(p + q) : got[i].sequence <= next
      <3>1. TAKE i \in 1..(p + q)
      <3>2. CASE i \in 1..p
        BY <1>2, <1>5, <1>6, <1>7, <1>8, <3>2
      <3>3. CASE i - p \in 1..q /\ got[i] = new[i - p]
        BY <1>8, <3>3
      <3>4. QED
        BY <1>9, <3>2, <3>3
    <2>2. ASSUME NEW i \in 1..(p + q), NEW j \in 1..(p + q), i < j
          PROVE  got[i].sequence < got[j].sequence
      <3>1. CASE i \in 1..p /\ j \in 1..p
        BY <1>6, <1>8, <2>2, <3>1
      <3>2. CASE i \in 1..p /\ j - p \in 1..q /\ got[j] = new[j - p]
        <4>1. received[i].sequence <= cursor /\ new[j - p].sequence > cursor
          BY <1>8, <3>2
        <4>2. received[i].sequence \in Nat /\ new[j - p].sequence \in Nat /\ got[i] = received[i]
          BY <1>6, <1>7, <3>2
        <4>3. QED
          BY <1>2, <3>2, <4>1, <4>2
      <3>3. CASE i - p \in 1..q /\ got[i] = new[i - p] /\ j - p \in 1..q /\ got[j] = new[j - p]
        <4>1. i - p < j - p
          BY <1>6, <2>2
        <4>2. QED
          BY <1>8, <3>3, <4>1
      <3>4. ~(i \notin 1..p /\ j \in 1..p)
        BY <1>6, <2>2
      <3>5. QED
        BY <1>9, <3>1, <3>2, <3>3, <3>4
    <2>3. QED
      BY <1>6, <2>1, <2>2 DEF Ordered
  <1>11. Covers(got, next)
    <2>1. SUFFICES ASSUME NEW i \in 1..Len(row.events), row.events[i].sequence <= next
                   PROVE  \E j \in 1..Len(got) : got[j] = row.events[i]
      BY DEF Covers
    <2> DEFINE e == row.events[i]
    <2>2. e.sequence \in Nat
      <3>1. row.events \in Seq(LogEvent)
        BY DEF ProgressInv, ProgressTypes, LogRow
      <3>2. e \in LogEvent
        BY <3>1
      <3>3. QED
        BY <3>2 DEF LogEvent
    <2>3. CASE e.sequence <= cursor
      <3>1. PICK j \in 1..p : received[j] = e
        BY <1>3, <2>3 DEF Covers, p
      <3>2. j \in 1..Len(got) /\ got[j] = e
        BY <1>6, <3>1
      <3>3. QED
        BY <3>2
    <2>4. CASE ~(e.sequence <= cursor)
      <3>1. e.sequence <= last
        BY <1>2, <1>5, <2>1, <2>2, <2>4
      <3>2. PICK k \in 1..Len(old) : old[k] = e
        BY <1>3, <3>1 DEF Covers
      <3>3. PICK j \in 1..q : new[j] = e
        <4>1. old[k].sequence > cursor
          BY <1>2, <2>2, <2>4, <3>2
        <4>2. \E j \in 1..q : new[j] = old[k]
          BY <1>4, <4>1 DEF q
        <4>3. QED
          BY <3>2, <4>2
      <3>4. p + j \in 1..Len(got) /\ got[p + j] = e
        BY <1>6, <3>3
      <3>5. QED
        BY <3>4
    <2>5. QED
      BY <2>3, <2>4
  <1>12. next <= row.sequence
    BY <1>2, <1>3, <1>5
  <1>13. ProgressTypes'
    <2>1. <<>> \in Seq(LogEvent)
      OBVIOUS
    <2>2. P!NoAwait \in [at : {"idle", "wait", "answer"}, after : Nat, sub : LogRow]
      BY <2>1 DEF P!NoAwait, LogRow
    <2>3. QED
      BY <1>1, <1>5, <1>6, <2>2 DEF ProgressInv, ProgressTypes, got
  <1>14. Covers(received, cursor)'
    BY <1>1, <1>11 DEF Covers, got
  <1>15. QED
    BY <1>1, <1>10, <1>12, <1>13, <1>14 DEF ProgressInv, P!NoAwait, got

LEMMA ProgressStep == ProgressInv /\ P!Next => ProgressInv'
  <1> SUFFICES ASSUME ProgressInv, P!Next PROVE ProgressInv'
    OBVIOUS
  <1>1. ASSUME NEW r \in Runner, P!Load(r) PROVE ProgressInv'
    <2>1. /\ row \in LogRow /\ row.sequence \in Nat /\ seen' \in [Runner -> Nat]
          /\ Ordered(row.events, row.sequence) /\ UNCHANGED <<row, await, cursor, received>>
      BY <1>1 DEF P!Load, ProgressInv, ProgressTypes, LogRow
    <2>2. QED
      BY <2>1 DEF ProgressInv, ProgressTypes, Covers
  <1>2. QED
    BY <1>1, NoteStep, SweepStep, AwaitStep, AnswerStep DEF P!Next

\* A client that follows its cursor gets every event still in the log once and in
\* order, and is never told that its cursor is ahead, whatever runners with a stale
\* row append and whatever the sweep empties (event.go, await.go).
THEOREM CursorFollows == PartSpec => []FollowsTheLog
  <1> DEFINE Inv == part = "progress" => ProgressInv
  <1>1. PartInit => Inv
    BY ProgressInit DEF PartInit
  <1>2. Inv /\ [PartNext]_partVars => Inv'
    <2> SUFFICES ASSUME Inv, [PartNext]_partVars, part' = "progress" PROVE ProgressInv'
      OBVIOUS
    <2>1. part = "progress" /\ (P!Next \/ UNCHANGED progressOnly)
      BY DEF PartNext, partVars
    <2>2. CASE UNCHANGED progressOnly
      BY <2>1, <2>2 DEF progressOnly, ProgressInv, ProgressTypes, Covers
    <2>3. QED
      BY <2>1, <2>2, ProgressStep
  <1>3. Inv => FollowsTheLog
    <2> SUFFICES ASSUME ProgressInv PROVE P!FollowsTheLog
      BY DEF FollowsTheLog
    <2>1. /\ row.events \in Seq(LogEvent) /\ received \in Seq(LogEvent)
          /\ cursor <= row.sequence /\ Ordered(received, cursor) /\ Covers(received, cursor)
      BY DEF ProgressInv, ProgressTypes, LogRow
    <2>2. DOMAIN row.events = 1..Len(row.events) /\ DOMAIN received = 1..Len(received)
      BY <2>1
    <2>3. QED
      BY <2>1, <2>2 DEF P!FollowsTheLog, P!ToSet, Covers, Ordered
  <1>4. QED
    BY <1>1, <1>2, <1>3, PTL DEF PartSpec
=============================================================================
