------------------------------- MODULE Repair -------------------------------
(***************************************************************************)
(* internal/repair and the migration of internal/credential/secretservice: *)
(* repairs that copy a profile's state key and OAuth credentials from the  *)
(* legacy keyring collections into the default collection, and the OAuth   *)
(* writer that uses the default collection once the state key is there.    *)
(*                                                                         *)
(* A value is the record the profile needs ("v") or another one ("w"): for *)
(* the state key a key that does not open the database, for the rest a     *)
(* malformed record.  A collection may hold several items under one key:   *)
(* the copy never replaces an item, it adds one.                           *)
(*                                                                         *)
(* The identity and the plan are read before the credential lease is       *)
(* claimed and are not read again.  The plan is one step: its many reads   *)
(* of the keyring are not interleaved with other processes, but what it    *)
(* found may be out of date at every later step.  Faults: a crash, and a   *)
(* process that stalls until its lease lapses.                             *)
(***************************************************************************)
EXTENDS LeaseTable, Sequences

CONSTANTS Repairer,   \* repair invocations
          Writer,     \* a process that refreshes or logs out
          Dead,       \* the owner in the lease row of a crashed process
          Slot,       \* credential slots
          FirstSlot,  \* the slot the fence names at first
          OldSlot,    \* a slot that may be retired at first
          Label,      \* the key of a credential older than the fence
          StateKey,   \* the key of the state key
          MaxFaults   \* bound on the faults of a behaviour

VARIABLES legacy,   \* the values the legacy collections hold under each key
          dest,     \* the items of the default collection under each key
          live,     \* the slots the fence names
          retired,  \* the slots the fence lists for removal
          lease,    \* the credential lease
          call,     \* the invocation of each repair
          writer,   \* the operation of the writer
          faults,
          stalled   \* history: a process outlived its lease

vars == <<legacy, dest, live, retired, lease, call, writer, faults, stalled>>

Key == Slot \union {Label, StateKey}
Value == {"v", "w"}

NoPlan == [k \in {} |-> "v"]
NoCall == [at |-> "idle", live |-> {}, optional |-> {}, plan |-> NoPlan, pending |-> {}]
NoWrite == [at |-> "idle", slot |-> {}]

Init ==
    /\ live = {FirstSlot} /\ retired \in {{}, {OldSlot}}
    /\ legacy \in [Key -> SUBSET Value]
    /\ \A s \in Slot \ (live \union retired) : legacy[s] = {}
    /\ \E label \in {<<>>, <<"w">>} :
         dest = [k \in Key |-> IF k = Label THEN label ELSE <<>>]
    /\ lease = NoLease
    /\ call = [p \in Repairer |-> NoCall] /\ writer = NoWrite
    /\ faults = 0 /\ stalled = FALSE

Fault == faults < MaxFaults /\ faults' = faults + 1
At(p, l) == call[p].at = l
Values(items) == {items[i] : i \in DOMAIN items}

\* backend.Get: the items under the key are equal, and there is one.
Readable(k) == \E v \in Value : Values(dest[k]) = {v}

Fail(p) == call' = [call EXCEPT ![p] = NoCall]

-----------------------------------------------------------------------------
(* Planning, without the lease.                                            *)

\* ReadPlaintextIdentity.
ReadIdentity(p) ==
    /\ At(p, "idle")
    /\ call' = [call EXCEPT ![p] =
                  [NoCall EXCEPT !.at = "plan", !.live = live, !.optional = retired \union {Label}]]
    /\ UNCHANGED <<legacy, dest, live, retired, lease, writer, faults, stalled>>

\* Mutated form: every slot the fence lists must be there.
RequiredAll(p) == {StateKey} \union call[p].live \union call[p].optional

\* migrateRequest: the keys a plan must have.
Required(p) == {StateKey} \union call[p].live

\* migrationKeys: an optional key is planned when a legacy collection has it.
MigrationKeys(p) == Required(p) \union {k \in call[p].optional : legacy[k] # {}}

\* readLegacyItems, readDestination: the values found under a key.
Found(k) == legacy[k] \union Values(dest[k])

\* validatePlan: a planned record is well formed.
Malformed(k) == k # StateKey /\ Found(k) = {"w"}

\* proveStateKey, VerifyStateKey: the state key opens what the database holds,
\* which is taken to have something sealed.
OpensState(k) == k = StateKey => Found(k) = {"v"}

\* resolvePlan and addSource: sources that differ are a conflict, a required key
\* with no value is missing.  validatePlan checks what was resolved.
PlanError(p) ==
    LET keys == MigrationKeys(p) IN
    CASE \E k \in keys : Found(k) = Value -> "conflict"
      [] \E k \in keys : Found(k) = {} -> "missing"
      [] \E k \in keys : Malformed(k) \/ ~OpensState(k) -> "malformed"
      [] OTHER -> "none"

ReadPlan(p) ==
    /\ At(p, "plan")
    /\ IF PlanError(p) # "none" THEN Fail(p)
       ELSE call' = [call EXCEPT ![p].at = "claim",
                                 ![p].plan = [k \in MigrationKeys(p) |-> "v"]]
    /\ UNCHANGED <<legacy, dest, live, retired, lease, writer, faults, stalled>>

-----------------------------------------------------------------------------
(* Writing, under the credential lease.                                    *)

\* Mutated form: the lease is not asked for.
MayClaimAlways(owner) == TRUE

MayClaim(owner) == Claimable(lease, owner)

\* claimCredentialLease.
ClaimCredentialLease(p) ==
    /\ At(p, "claim")
    /\ IF ~MayClaim(p) THEN Fail(p) /\ UNCHANGED lease
       ELSE /\ lease' = ClaimLease(lease, p, 0)
            /\ call' = [call EXCEPT ![p].at = "recheck"]
    /\ UNCHANGED <<legacy, dest, live, retired, writer, faults, stalled>>

\* Every return after the claim releases the lease.
Return(p) == Fail(p) /\ lease' = ReleaseLease(lease, p)

\* recheckDestination: what is not there is pending, what is there is equal.
RecheckError(p) ==
    LET plan == call[p].plan IN
    CASE \E k \in DOMAIN plan : Len(dest[k]) > 1 -> "duplicate"
      [] \E k \in DOMAIN plan : Len(dest[k]) = 1 /\ dest[k] # <<plan[k]>> -> "conflict"
      [] OTHER -> "none"

Recheck(p) ==
    /\ At(p, "recheck")
    /\ IF RecheckError(p) # "none" THEN Return(p)
       ELSE /\ call' = [call EXCEPT ![p].at = "write",
                          ![p].pending = {k \in DOMAIN call[p].plan : dest[k] = <<>>}]
            /\ UNCHANGED lease
    /\ UNCHANGED <<legacy, dest, live, retired, writer, faults, stalled>>

\* Mutated form: the state key is copied first.
NextKeysStateFirst(pending) == IF StateKey \in pending THEN {StateKey} ELSE pending

\* The plan is sorted, and "secret/..." sorts before "state/...".
NextKeys(pending) == IF pending = {StateKey} THEN pending ELSE pending \ {StateKey}

\* writeExact: an item is created beside those that are there.
WriteExact(p) ==
    /\ At(p, "write") /\ call[p].pending # {}
    /\ \E k \in NextKeys(call[p].pending) :
         /\ dest' = [dest EXCEPT ![k] = Append(@, call[p].plan[k])]
         /\ call' = [call EXCEPT ![p].pending = @ \ {k}]
    /\ UNCHANGED <<legacy, live, retired, lease, writer, faults, stalled>>

\* verifyCopied, then verifyMigrated with a fresh handle; the repair returns,
\* with an error or without.
VerifyError(p) ==
    LET plan == call[p].plan IN
    CASE \E k \in DOMAIN plan : dest[k] = <<>> -> "missing"
      [] \E k \in DOMAIN plan : Len(dest[k]) # 1 -> "duplicate"
      [] \E k \in DOMAIN plan : dest[k] # <<plan[k]>> -> "conflict"
      [] \E s \in call[p].live : ~Readable(s) -> "missing"
      [] OTHER -> "none"

Verify(p) ==
    /\ At(p, "write") /\ call[p].pending = {}
    /\ Return(p)
    /\ UNCHANGED <<legacy, dest, live, retired, writer, faults, stalled>>

\* A locked collection, a dismissed prompt, the deadline, a renewal that finds
\* the lease lost: the context is cancelled or an operation fails.
Abort(p) ==
    /\ ~At(p, "idle")
    /\ Return(p)
    /\ UNCHANGED <<legacy, dest, live, retired, writer, faults, stalled>>

-----------------------------------------------------------------------------
(* The OAuth writer: CredentialFence, reduced to what it does to the       *)
(* collection and to the fence.                                            *)

\* A process opens the profile when the state key can be read.
WriterClaims ==
    /\ writer.at = "idle" /\ Readable(StateKey) /\ Claimable(lease, Writer)
    /\ lease' = ClaimLease(lease, Writer, 0)
    /\ writer' = [writer EXCEPT !.at = "write"]
    /\ UNCHANGED <<legacy, dest, live, retired, call, faults, stalled>>

Unused(s) ==
    /\ s \notin live \union retired /\ dest[s] = <<>> /\ legacy[s] = {}
    /\ \A p \in Repairer : s \notin call[p].live /\ s \notin DOMAIN call[p].plan

\* A refresh writes a new slot; a logout writes none and drops the label.
WriterWrites ==
    /\ writer.at = "write"
    /\ \/ \E s \in Slot :
            /\ Unused(s)
            /\ dest' = [dest EXCEPT ![s] = <<"v">>]
            /\ writer' = [at |-> "commit", slot |-> {s}]
       \/ /\ dest' = [dest EXCEPT ![Label] = <<>>]
          /\ writer' = [at |-> "commit", slot |-> {}]
    /\ UNCHANGED <<legacy, live, retired, lease, call, faults, stalled>>

\* The fence commit, under the lease; a writer that lost it removes its slot.
WriterCommits ==
    /\ writer.at = "commit"
    /\ IF Live(lease, Writer)
       THEN /\ live' = writer.slot /\ retired' = retired \union live
            /\ writer' = [writer EXCEPT !.at = "clean"]
            /\ UNCHANGED dest
       ELSE /\ dest' = [k \in Key |-> IF k \in writer.slot THEN <<>> ELSE dest[k]]
            /\ writer' = NoWrite
            /\ UNCHANGED <<live, retired>>
    /\ UNCHANGED <<legacy, lease, call, faults, stalled>>

\* Retired slots are removed, every item under each, and forgotten.
WriterCleans ==
    /\ writer.at = "clean"
    /\ dest' = [k \in Key |-> IF k \in retired THEN <<>> ELSE dest[k]]
    /\ retired' = {}
    /\ lease' = ReleaseLease(lease, Writer)
    /\ writer' = NoWrite
    /\ UNCHANGED <<legacy, live, call, faults, stalled>>

-----------------------------------------------------------------------------
(* Faults and time.                                                        *)

Crash(p) ==
    /\ ~At(p, "idle") /\ Fault
    /\ call' = [call EXCEPT ![p] = NoCall]
    /\ lease' = IF lease.owner = p THEN [lease EXCEPT !.owner = Dead] ELSE lease
    /\ UNCHANGED <<legacy, dest, live, retired, writer, stalled>>

Lapse ==
    /\ lease.owner = Dead /\ lease.left > 0
    /\ lease' = Elapse(lease)
    /\ UNCHANGED <<legacy, dest, live, retired, call, writer, faults, stalled>>

Stall ==
    /\ lease.owner \in Repairer \union {Writer} /\ lease.left > 0 /\ Fault
    /\ lease' = Elapse(lease)
    /\ stalled' = TRUE
    /\ UNCHANGED <<legacy, dest, live, retired, call, writer>>

RepairStep(p) ==
    \/ ReadIdentity(p) \/ ReadPlan(p) \/ ClaimCredentialLease(p) \/ Recheck(p)
    \/ WriteExact(p) \/ Verify(p) \/ Abort(p)

WriterStep == WriterClaims \/ WriterWrites \/ WriterCommits \/ WriterCleans

Next == Lapse \/ Stall \/ WriterStep \/ \E p \in Repairer : RepairStep(p) \/ Crash(p)

Spec == Init /\ [][Next]_vars

-----------------------------------------------------------------------------
(* Properties.                                                             *)

\* Once the state key can be read from the default collection, so that a process
\* can open the profile, so can the credential in each slot the fence names:
\* whichever copy was cut short, and whatever a stale plan or a stalled repair
\* wrote around a refresh.
KeyLast == Readable(StateKey) => \A s \in live : Readable(s)

\* Unless a process outlived its lease, two repairs, or a repair and the OAuth
\* writer, never leave two items under one key: "a concurrent repair or OAuth
\* writer cannot publish a second copy" (MigrateLegacyKeyring).
NoSecondCopy == ~stalled => \A k \in Key : Len(dest[k]) <= 1

\* What a repair needs is missing from, or contradicted in, the keyring itself.
Damaged ==
    \/ \E k \in Key : "w" \in Found(k)
    \/ \E k \in {StateKey} \union live : Found(k) = {}

Refused(p) ==
    \/ At(p, "plan") /\ PlanError(p) # "none"
    \/ At(p, "recheck") /\ RecheckError(p) # "none"
    \/ At(p, "write") /\ call[p].pending = {} /\ VerifyError(p) # "none"

\* A repair cut short, and whatever ran beside it, can be run again: unless a
\* process outlived its lease, a repair is refused for the items it finds only
\* when the keyring is damaged, or the fence moved after the repair read it.
FailsForCause ==
    ~stalled => \A p \in Repairer : Refused(p) => Damaged \/ live # call[p].live
=============================================================================
