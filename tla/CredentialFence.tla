-------------------------- MODULE CredentialFence --------------------------
(***************************************************************************)
(* internal/oauth over internal/store/fence.go: the processes of a profile *)
(* refresh, log in and log out, sharing the refresh lease, the two fences  *)
(* of the profile database (the refresh grant and the client registration) *)
(* and the keyring the fences point into.                                  *)
(*                                                                         *)
(* A secret is written to a fresh slot and made live by the fence commit,  *)
(* which is gated on the lease epoch; the slot it replaces is recorded as  *)
(* retired in the same transaction.  Slot 0 of a kind is its legacy label  *)
(* (labelRefresh, labelClient), which is live while no fence is committed  *)
(* and, for the refresh grant, while the invalidation marker is absent.    *)
(* Grants and clients are numbered from 1; 0 is none.  A label, a grant or *)
(* a client that nothing refers to any more may be used again.             *)
(*                                                                         *)
(* A call holds refreshMu, so a process has one.  Faults: a keyring or     *)
(* store operation that fails, an exchange whose response is lost or       *)
(* declares other scopes, a grant revoked upstream, a crash, a process     *)
(* that stalls until its lease lapses.                                     *)
(***************************************************************************)
EXTENDS LeaseTable, FiniteSets

CONSTANTS Proc,       \* the processes of the profile
          Dead,       \* the owner in the lease row of a crashed process
          MaxSlot,    \* bound on the slots of a kind in use at once
          MaxGrant,   \* bound on the refresh tokens in use at once
          MaxClient,  \* bound on the registrations in use at once
          MaxGen,     \* bound on the generation of a fence
          MaxFaults   \* bound on the faults of a behaviour

ASSUME FenceAssumption ==
    /\ NoOwner \notin Proc /\ Dead \notin Proc \union {NoOwner}
    /\ {MaxSlot, MaxGrant, MaxClient, MaxGen} \subseteq Nat \ {0}
    /\ MaxFaults \in Nat

VARIABLES lease,     \* the refresh lease
          fence,     \* credential_fence: the committed slot of each kind
          retired,   \* credential_fence: labels awaiting deletion
          marker,    \* credential_fence: the invalidation marker
          keyring,   \* the secure backend: what each label holds
          grants,    \* upstream: the client a valid token was issued to
          expired,   \* clients whose secret has expired
          call,      \* the call of each process
          faults,
          stalled,   \* history: a process outlived its lease inside a call
          leaked,    \* history: slots whose writer could keep no record
          adopted    \* history: after a stall a refresh replaced the legacy grant

store == <<fence, retired, marker>>
upstream == <<grants, expired>>
history == <<stalled, leaked, adopted>>
vars == <<lease, store, keyring, upstream, call, faults, history>>

Kind == {"refresh", "client"}
Label == Kind \X (0..MaxSlot)

NoCall == [ op |-> "none", at |-> "idle", kind |-> "refresh", gen |-> 0,
            rec |-> 0, tok |-> 0, fgen |-> 0, prev |-> 0, slot |-> 0,
            next |-> "idle" ]

Location ==
    { "idle", "claim", "load", "exchange", "gate", "record", "adopt", "recheck",
      "post", "existing", "set", "sweep", "read", "commit", "rollback",
      "unmark", "dropLegacy", "dropPrevious", "invLoad", "invMark", "invClear",
      "invSlot", "invLegacy", "invUnmark", "outGrant", "outGrantSlot",
      "outMark", "outClearGrant", "outClient", "outClientSlot",
      "outClearClient", "outLegacyClient", "outLegacyGrant", "outUnmark",
      "outSweep", "release", "consent" }

TypeOK ==
    /\ lease \in LeaseRow(Proc \union {Dead})
    /\ fence \in [Kind -> [gen : 0..MaxGen, slot : 0..MaxSlot]]
    /\ retired \subseteq Label
    /\ marker \in BOOLEAN
    /\ keyring \in [Label -> Nat]
    /\ \A n \in 0..MaxSlot : /\ keyring[<<"refresh", n>>] <= MaxGrant
                             /\ keyring[<<"client", n>>] <= MaxClient
    /\ grants \in [1..MaxGrant -> 0..MaxClient]
    /\ expired \subseteq 1..MaxClient
    /\ call \in [Proc -> [ op : {"none", "refresh", "register", "complete", "logout"},
                           at : Location, kind : Kind, gen : Nat,
                           rec : 0..MaxClient, tok : 0..MaxGrant,
                           fgen : 0..MaxGen, prev : 0..MaxSlot,
                           slot : 0..MaxSlot, next : {"idle", "consent"} ]]
    /\ faults \in 0..MaxFaults
    /\ stalled \in BOOLEAN
    /\ leaked \subseteq Label
    /\ adopted \in BOOLEAN

\* A profile that never logged in, or one an older version left with its two
\* single-label secrets.
Init ==
    /\ lease = NoLease
    /\ fence = [k \in Kind |-> [gen |-> 0, slot |-> 0]]
    /\ retired = {} /\ marker = FALSE
    /\ \E legacy \in {0, 1} :
         /\ keyring = [l \in Label |-> IF l[2] = 0 THEN legacy ELSE 0]
         /\ grants = [g \in 1..MaxGrant |-> IF g = 1 THEN legacy ELSE 0]
    /\ expired = {}
    /\ call = [p \in Proc |-> NoCall]
    /\ faults = 0 /\ stalled = FALSE /\ leaked = {} /\ adopted = FALSE

-----------------------------------------------------------------------------
(* Reading the live secrets.                                               *)

\* RegisteredClient: the record at the fenced slot, or the legacy one; a record
\* whose secret expired counts as absent.
Committed(k) == keyring[<<k, fence[k].slot>>]
SlotMissing(k) == fence[k].slot # 0 /\ Committed(k) = 0
RegisteredClient == IF Committed("client") \in expired THEN 0 ELSE Committed("client")

\* loadFenced: the legacy label counts only without the invalidation marker.
LiveGrant == IF fence["refresh"].slot = 0 /\ marker THEN 0 ELSE Committed("refresh")

\* The generation a replacement commits at.  No call starts that could, with
\* the calls already under way, take the fence past the bound.
NextGen(k) == fence[k].gen + 1
Replacing(k) == IF k = "client" THEN {"register"} ELSE {"refresh", "complete"}
Room(k) == fence[k].gen + Cardinality({p \in Proc : call[p].op \in Replacing(k)}) < MaxGen

UsedSlots(k) ==
    { n \in 1..MaxSlot : \/ keyring[<<k, n>>] # 0 \/ <<k, n>> \in retired
                         \/ fence[k].slot = n
                         \/ \E p \in Proc : call[p].kind = k /\ n \in {call[p].slot, call[p].prev} }
UsedGrants == { keyring[<<"refresh", n>>] : n \in 0..MaxSlot } \union { call[p].tok : p \in Proc }
UsedClients == { keyring[<<"client", n>>] : n \in 0..MaxSlot } \union { call[p].rec : p \in Proc }
                 \union { grants[g] : g \in UsedGrants \ {0} }

\* newRefreshSlotLabel, newClientSlotLabel: a label nothing refers to; and the
\* fresh names the upstream gives out.
FreshSlot(k, n) == n \in 1..MaxSlot \ UsedSlots(k) /\ \A m \in 1..(n - 1) : m \in UsedSlots(k)
FreshGrant(g) == g \in 1..MaxGrant \ UsedGrants /\ \A h \in 1..(g - 1) : h \in UsedGrants
FreshClient(c) == c \in 1..MaxClient \ UsedClients /\ \A d \in 1..(c - 1) : d \in UsedClients

-----------------------------------------------------------------------------
(* Steps of a call.                                                        *)

Fault == faults < MaxFaults /\ faults' = faults + 1
MayFault(ok) == IF ok THEN UNCHANGED faults ELSE Fault

\* Where a call stands.  A value it has no more use for is reset.
At(p, l) == call[p].at = l
Goto(p, l) == call' = [call EXCEPT ![p].at = l]
Fail(p) == call' = [call EXCEPT ![p] = [NoCall EXCEPT !.op = call[p].op, !.at = "release"]]
Holds(p) == HoldsEpoch(lease, p, call[p].gen)

\* Token: a valid cached token needs no refresh; otherwise, and in Refresh, the
\* client record is read before the lease is claimed and kept for the exchange.
StartRefresh(p) ==
    /\ At(p, "idle") /\ RegisteredClient # 0 /\ ~SlotMissing("refresh") /\ Room("refresh")
    /\ call' = [call EXCEPT ![p] = [NoCall EXCEPT !.op = "refresh", !.at = "claim",
                                                  !.rec = RegisteredClient]]
    /\ UNCHANGED <<lease, store, keyring, upstream, faults, history>>

\* register: a usable stored registration is reused without the lease.
StartLogin(p) ==
    /\ At(p, "idle") /\ ~SlotMissing("client") /\ Room("client")
    /\ call' = [call EXCEPT ![p] = [NoCall EXCEPT
                    !.op = "register", !.rec = RegisteredClient,
                    !.at = IF RegisteredClient = 0 THEN "claim" ELSE "consent"]]
    /\ UNCHANGED <<lease, store, keyring, upstream, faults, history>>

\* Logout reads nothing before it holds the lease: it claims as it starts.
StartLogout(p) ==
    /\ At(p, "idle") /\ Claimable(lease, p)
    /\ lease' = ClaimLease(lease, p, 0)
    /\ call' = [call EXCEPT ![p] = [NoCall EXCEPT !.op = "logout", !.at = "outGrant",
                                                  !.gen = lease'.gen]]
    /\ UNCHANGED <<store, keyring, upstream, faults, history>>

\* The first step of each operation under the lease.
FirstStep(op) == CASE op = "refresh"  -> "load"
                   [] op = "register" -> "recheck"
                   [] op = "complete" -> "record"

\* claimRefreshLease: the lease and its generation.  When the generation cannot
\* be read the row is not released, as after a crash, and is left to expire.
Claim(p) ==
    /\ At(p, "claim") /\ Claimable(lease, p)
    /\ lease' = ClaimLease(lease, p, 0)
    /\ call' = [call EXCEPT ![p].at = FirstStep(call[p].op), ![p].gen = lease'.gen]
    /\ UNCHANGED <<store, keyring, upstream, faults, history>>

\* The attempts are spent: the call fails with ErrLeaseContention.
Contended(p) ==
    /\ At(p, "claim") /\ ~Claimable(lease, p)
    /\ call' = [call EXCEPT ![p] = NoCall]
    /\ UNCHANGED <<lease, store, keyring, upstream, faults, history>>

\* refreshLocked: the credential is read again under the lease.
LoadCredential(p) ==
    /\ At(p, "load")
    /\ IF LiveGrant = 0 THEN Fail(p)
       ELSE call' = [call EXCEPT ![p].at = "exchange", ![p].tok = LiveGrant,
                                 ![p].fgen = NextGen("refresh"),
                                 ![p].prev = fence["refresh"].slot]
    /\ UNCHANGED <<lease, store, keyring, upstream, faults, history>>

\* The token endpoint accepts a grant of this client, and rotates it or not.
Accepts(p) == call[p].rec \notin expired /\ grants[call[p].tok] = call[p].rec
Rotated(p, g) ==
    \/ g = call[p].tok /\ UNCHANGED grants
    \/ /\ FreshGrant(g)
       /\ grants' = [grants EXCEPT ![call[p].tok] = 0, ![g] = call[p].rec]

ExchangeRefresh(p) ==
    /\ At(p, "exchange") /\ call[p].op = "refresh" /\ Accepts(p)
    /\ \E g \in 1..MaxGrant :
         /\ Rotated(p, g)
         /\ call' = [call EXCEPT ![p].at = "gate", ![p].tok = g]
    /\ UNCHANGED <<lease, store, keyring, expired, faults, history>>

\* postToken: invalid_grant, for a spent or revoked token and for a token of
\* another client, invalidates the credential; any other error ends the call.
ExchangeRejected(p) ==
    /\ At(p, "exchange") /\ call[p].op = "refresh" /\ ~Accepts(p)
    /\ IF call[p].rec \in expired THEN Fail(p) ELSE Goto(p, "invLoad")
    /\ UNCHANGED <<lease, store, keyring, upstream, faults, history>>

\* The server processed the exchange and the response is lost.
ExchangeLost(p) ==
    /\ At(p, "exchange") /\ call[p].op = "refresh" /\ Accepts(p) /\ Fault
    /\ grants' = [grants EXCEPT ![call[p].tok] = 0]
    /\ Fail(p)
    /\ UNCHANGED <<lease, store, keyring, expired, history>>

\* CompleteAuthorization: the single-use code is spent for a new grant.
ExchangeCode(p) ==
    /\ At(p, "exchange") /\ call[p].op = "complete"
    /\ IF call[p].rec \in expired
       THEN Fail(p) /\ UNCHANGED grants
       ELSE \E g \in 1..MaxGrant :
              /\ FreshGrant(g)
              /\ grants' = [grants EXCEPT ![g] = call[p].rec]
              /\ call' = [call EXCEPT ![p].at = "gate", ![p].tok = g]
    /\ UNCHANGED <<lease, store, keyring, expired, faults, history>>

\* leasedExchangeAndPersist: ownership is verified before the write.
Passes(p, wait) == CommitLease(lease, p, call[p].gen, wait)

Gate(p) ==
    /\ At(p, "gate")
    /\ \E wait \in {0, 1} :
         IF Passes(p, wait)
         THEN Goto(p, IF call[p].op = "refresh" THEN "set" ELSE "adopt")
         ELSE Fail(p)
    /\ UNCHANGED <<lease, store, keyring, upstream, faults, history>>

\* checkBoundScope, checkReturnedScope: the response declares other scopes.  A
\* refreshed grant is spent and is invalidated; a new one is dropped.
ScopeMismatch(p) ==
    /\ At(p, "gate") /\ Fault
    /\ \E wait \in {0, 1} : Passes(p, wait)
    /\ IF call[p].op = "refresh" THEN Goto(p, "invLoad") ELSE Fail(p)
    /\ UNCHANGED <<lease, store, keyring, upstream, history>>

\* currentRecord: the registration is still the one the login started from.
SameRecord(p) == RegisteredClient = call[p].rec

CurrentRecord(p) ==
    /\ At(p, "record")
    /\ IF SameRecord(p) THEN Goto(p, "exchange") ELSE Fail(p)
    /\ UNCHANGED <<lease, store, keyring, upstream, faults, history>>

\* The record is checked again under the lease, and the credential to be
\* replaced is read.
Adopt(p) ==
    /\ At(p, "adopt")
    /\ IF ~SameRecord(p) \/ SlotMissing("refresh") THEN Fail(p)
       ELSE call' = [call EXCEPT ![p].at = "set", ![p].fgen = NextGen("refresh"),
                                 ![p].prev = fence["refresh"].slot]
    /\ UNCHANGED <<lease, store, keyring, upstream, faults, history>>

\* Mutated form: the lookup before the lease is trusted.
RecheckTrusting(p) ==
    /\ At(p, "recheck") /\ Goto(p, "post")
    /\ UNCHANGED <<lease, store, keyring, upstream, faults, history>>

\* register, under the lease: a registration stored meanwhile is reused.
Recheck(p) ==
    /\ At(p, "recheck")
    /\ IF SlotMissing("client") THEN Fail(p)
       ELSE IF RegisteredClient = 0 THEN Goto(p, "post")
       ELSE call' = [call EXCEPT ![p].at = "release", ![p].rec = RegisteredClient,
                                 ![p].next = "consent"]
    /\ UNCHANGED <<lease, store, keyring, upstream, faults, history>>

\* The registration POST creates a client upstream, or is refused.
PostRefused(p) ==
    /\ At(p, "post") /\ Fail(p)
    /\ UNCHANGED <<lease, store, keyring, upstream, faults, history>>

PostRegistration(p) ==
    /\ At(p, "post")
    /\ \E c \in 1..MaxClient :
         /\ FreshClient(c)
         /\ expired' = expired \ {c}
         /\ grants' = [g \in 1..MaxGrant |-> IF grants[g] = c THEN 0 ELSE grants[g]]
         /\ call' = [call EXCEPT ![p].at = "existing", ![p].rec = c]
    /\ UNCHANGED <<lease, store, keyring, faults, history>>

StoreClient(p) == call' = [call EXCEPT ![p].at = "set", ![p].kind = "client", ![p].prev = 0]

\* Mutated form: the stored grant outlives its client.
LoadExistingKept(p) ==
    /\ At(p, "existing")
    /\ IF SlotMissing("refresh") THEN Fail(p) ELSE StoreClient(p)
    /\ UNCHANGED <<lease, store, keyring, upstream, faults, history>>

\* A grant still stored belongs to the previous client: it is invalidated.
LoadExisting(p) ==
    /\ At(p, "existing")
    /\ IF SlotMissing("refresh") THEN Fail(p)
       ELSE IF LiveGrant = 0 THEN StoreClient(p) ELSE Goto(p, "invLoad")
    /\ UNCHANGED <<lease, store, keyring, upstream, faults, history>>

-----------------------------------------------------------------------------
(* storeFenced and storeClient.                                            *)

\* The secret goes to a fresh slot.  A failed write may have been made.
Secret(p) == IF call[p].kind = "client" THEN call[p].rec ELSE call[p].tok

SetSlot(p) ==
    /\ At(p, "set")
    /\ \E n \in 1..MaxSlot, written, reported \in BOOLEAN :
         /\ FreshSlot(call[p].kind, n)
         /\ reported => written
         /\ MayFault(reported)
         /\ keyring' = IF written THEN [keyring EXCEPT ![<<call[p].kind, n>>] = Secret(p)]
                                  ELSE keyring
         /\ call' = [call EXCEPT ![p].slot = n,
                        ![p].at = IF ~reported THEN "rollback"
                                  ELSE IF call[p].kind = "client" THEN "read" ELSE "sweep"]
    /\ UNCHANGED <<lease, store, upstream, history>>

\* retireFailedSlots: each recorded label is deleted and its record cleared; a
\* label whose deletion fails keeps its record.
Swept(kept) ==
    /\ keyring' = [l \in Label |-> IF l \in retired \ kept THEN 0 ELSE keyring[l]]
    /\ retired' = kept

Sweep(p) ==
    /\ At(p, "sweep") \/ At(p, "outSweep")
    /\ \E kept \in SUBSET retired : MayFault(kept = {}) /\ Swept(kept)
    /\ Goto(p, IF At(p, "sweep") THEN "commit" ELSE "release")
    /\ UNCHANGED <<lease, fence, marker, upstream, history>>

\* storeClient reads the fence it replaces after the slot is written.
ReadClientFence(p) ==
    /\ At(p, "read")
    /\ call' = [call EXCEPT ![p].at = "commit", ![p].fgen = NextGen("client"),
                            ![p].prev = fence["client"].slot]
    /\ UNCHANGED <<lease, store, keyring, upstream, faults, history>>

\* Mutated form: the replaced slot is not recorded.
ReplacedUnrecorded(k, prev) == IF k = "client" THEN {<<"client", 0>>} ELSE {}

\* The labels a commit of kind k retires with the slot it replaces.
Replaced(k, prev) ==
    (IF prev # 0 THEN {<<k, prev>>} ELSE {}) \union
    (IF k = "client" THEN {<<"client", 0>>} ELSE {})

\* Mutated form: the commit is not gated on the lease epoch.
CommitsUngated(p) == call[p].fgen > fence[call[p].kind].gen

\* CommitCredentialFence: the lease epoch is held and the generation advances.
Commits(p) == Holds(p) /\ call[p].fgen > fence[call[p].kind].gen

Commit(p) ==
    /\ At(p, "commit") /\ Commits(p)
    /\ LET c == call[p] IN
         /\ fence' = [fence EXCEPT ![c.kind] = [gen |-> c.fgen, slot |-> c.slot]]
         /\ retired' = retired \union Replaced(c.kind, c.prev)
         /\ call' = [call EXCEPT
                        ![p].at = IF c.kind = "client" THEN "dropLegacy" ELSE "unmark",
                        ![p].next = IF c.kind = "client" THEN "consent" ELSE "idle",
                        ![p].prev = IF c.kind = "client" THEN 0 ELSE @,
                        ![p].slot = 0, ![p].tok = 0, ![p].fgen = 0]
         /\ adopted' = (adopted \/ (stalled /\ c.op = "refresh" /\ c.prev = 0))
    /\ UNCHANGED <<lease, marker, keyring, upstream, faults, stalled, leaked>>

\* The commit is rejected, or the transaction fails.
CommitRejected(p) ==
    /\ At(p, "commit") /\ MayFault(~Commits(p))
    /\ Goto(p, "rollback")
    /\ UNCHANGED <<lease, store, keyring, upstream, history>>

\* rollbackRefreshSlot, rollbackClientSlot: the slot is deleted; else it is
\* recorded; and when that fails too nothing refers to it.  A rollback follows
\* a fault, of which its own failures are part.
Rollback(p) ==
    /\ At(p, "rollback")
    /\ LET l == <<call[p].kind, call[p].slot>> IN
         \/ /\ keyring' = [keyring EXCEPT ![l] = 0]
            /\ UNCHANGED <<retired, leaked>>
         \/ /\ retired' = retired \union {l}
            /\ UNCHANGED <<keyring, leaked>>
         \/ /\ leaked' = leaked \union {l}
            /\ UNCHANGED <<keyring, retired>>
    /\ Fail(p)
    /\ UNCHANGED <<lease, fence, marker, upstream, faults, stalled, adopted>>

\* After the commit the replaced credentials are retired, best effort: the
\* marker, the legacy label, then the previous slot with its record.
UnmarkCommitted(p) ==
    /\ At(p, "unmark")
    /\ \E ok \in BOOLEAN : MayFault(ok) /\ marker' = (marker /\ ~ok)
    /\ Goto(p, "dropLegacy")
    /\ UNCHANGED <<lease, fence, retired, keyring, upstream, history>>

\* For a client, the legacy record was recorded with the commit.
DropLegacy(p) ==
    /\ At(p, "dropLegacy")
    /\ \E ok \in BOOLEAN :
         LET l == <<call[p].kind, 0>> IN
         /\ MayFault(ok)
         /\ keyring' = IF ok THEN [keyring EXCEPT ![l] = 0] ELSE keyring
         /\ retired' = IF ok THEN retired \ {l} ELSE retired
    /\ Goto(p, IF call[p].kind = "client" \/ call[p].prev = 0 THEN "release" ELSE "dropPrevious")
    /\ UNCHANGED <<lease, fence, marker, upstream, history>>

DropPrevious(p) ==
    /\ At(p, "dropPrevious")
    /\ \E ok \in BOOLEAN :
         LET l == <<call[p].kind, call[p].prev>> IN
         /\ MayFault(ok)
         /\ keyring' = IF ok THEN [keyring EXCEPT ![l] = 0] ELSE keyring
         /\ retired' = IF ok THEN retired \ {l} ELSE retired
    /\ Goto(p, "release")
    /\ UNCHANGED <<lease, fence, marker, upstream, history>>

-----------------------------------------------------------------------------
(* invalidateCredential.                                                   *)

\* What follows the invalidation: a refresh fails, a registration goes on.
Invalidated(p) == IF call[p].op = "register" THEN StoreClient(p) ELSE Goto(p, "release")

InvalidateLoad(p) ==
    /\ At(p, "invLoad")
    /\ IF SlotMissing("refresh") THEN Fail(p)
       ELSE call' = [call EXCEPT ![p].at = "invMark", ![p].tok = 0, ![p].fgen = 0,
                        ![p].prev = IF LiveGrant = 0 THEN 0 ELSE fence["refresh"].slot]
    /\ UNCHANGED <<lease, store, keyring, upstream, faults, history>>

\* Mutated form: the marker is left to the deletion that fails.
MarkedLater == marker

\* MarkRefreshCredentialInvalidated, before the clear, in both cleanups.
Marked == TRUE

Mark(p) ==
    /\ At(p, "invMark") \/ At(p, "outMark")
    /\ marker' = Marked
    /\ Goto(p, IF At(p, "invMark") THEN "invClear" ELSE "outClearGrant")
    /\ UNCHANGED <<lease, fence, retired, keyring, upstream, faults, history>>

\* ClearCredentialFence: gated on the lease epoch; the pointer leaves the store
\* together with the record of the slot to retire, 0 for none.
Cleared(p, k, slot) ==
    /\ fence' = [fence EXCEPT ![k] = [gen |-> 0, slot |-> 0]]
    /\ retired' = IF slot = 0 THEN retired ELSE retired \union {<<k, slot>>}

InvalidateClear(p) ==
    /\ At(p, "invClear")
    /\ IF Holds(p)
       THEN /\ Cleared(p, "refresh", call[p].prev)
            /\ Goto(p, IF call[p].prev = 0 THEN "invLegacy" ELSE "invSlot")
       ELSE Fail(p) /\ UNCHANGED <<fence, retired>>
    /\ UNCHANGED <<lease, marker, keyring, upstream, faults, history>>

\* The slot and its record, then the legacy label; a deletion that fails ends
\* the cleanup with the record, or the marker, in place.
InvalidateSlot(p) ==
    /\ At(p, "invSlot")
    /\ LET l == <<"refresh", call[p].prev>> IN
         \/ /\ keyring' = [keyring EXCEPT ![l] = 0]
            /\ retired' = retired \ {l}
            /\ Goto(p, "invLegacy") /\ UNCHANGED faults
         \/ Fault /\ Invalidated(p) /\ UNCHANGED <<keyring, retired>>
    /\ UNCHANGED <<lease, fence, marker, upstream, history>>

InvalidateLegacy(p) ==
    /\ At(p, "invLegacy")
    /\ \/ /\ keyring' = [keyring EXCEPT ![<<"refresh", 0>>] = 0]
          /\ Goto(p, "invUnmark") /\ UNCHANGED faults
       \/ Fault /\ Invalidated(p) /\ UNCHANGED keyring
    /\ UNCHANGED <<lease, store, upstream, history>>

InvalidateUnmark(p) ==
    /\ At(p, "invUnmark")
    /\ marker' = FALSE
    /\ Invalidated(p)
    /\ UNCHANGED <<lease, fence, retired, keyring, upstream, faults, history>>

-----------------------------------------------------------------------------
(* Logout.                                                                 *)

\* The fence is read; the slot it names is deleted while it still names it.
LogoutRead(p) ==
    /\ \/ At(p, "outGrant") /\ call' = [call EXCEPT ![p].at = "outGrantSlot", ![p].kind = "refresh",
                                                    ![p].prev = fence["refresh"].slot]
       \/ At(p, "outClient") /\ call' = [call EXCEPT ![p].at = "outClientSlot", ![p].kind = "client",
                                                     ![p].prev = fence["client"].slot]
    /\ UNCHANGED <<lease, store, keyring, upstream, faults, history>>

LogoutSlot(p) ==
    /\ At(p, "outGrantSlot") \/ At(p, "outClientSlot")
    /\ keyring' = IF call[p].prev = 0 THEN keyring
                  ELSE [keyring EXCEPT ![<<call[p].kind, call[p].prev>>] = 0]
    /\ Goto(p, IF At(p, "outGrantSlot") THEN "outMark" ELSE "outClearClient")
    /\ UNCHANGED <<lease, store, upstream, faults, history>>

LogoutClear(p) ==
    /\ At(p, "outClearGrant") \/ At(p, "outClearClient")
    /\ IF Holds(p)
       THEN /\ Cleared(p, call[p].kind, 0)
            /\ Goto(p, IF At(p, "outClearGrant") THEN "outClient" ELSE "outLegacyClient")
       ELSE Fail(p) /\ UNCHANGED <<fence, retired>>
    /\ UNCHANGED <<lease, marker, keyring, upstream, faults, history>>

\* The legacy labels, the marker (best effort), then the retirement backlog.
LogoutLegacy(p) ==
    /\ \/ /\ At(p, "outLegacyClient") /\ Goto(p, "outLegacyGrant")
          /\ keyring' = [keyring EXCEPT ![<<"client", 0>>] = 0]
       \/ /\ At(p, "outLegacyGrant") /\ Goto(p, "outUnmark")
          /\ keyring' = [keyring EXCEPT ![<<"refresh", 0>>] = 0]
    /\ UNCHANGED <<lease, store, upstream, faults, history>>

LogoutUnmark(p) ==
    /\ At(p, "outUnmark")
    /\ \E ok \in BOOLEAN : MayFault(ok) /\ marker' = (marker /\ ~ok)
    /\ Goto(p, "outSweep")
    /\ UNCHANGED <<lease, fence, retired, keyring, upstream, history>>

-----------------------------------------------------------------------------
(* The end of a call, and the environment.                                 *)

\* What nobody holds any more is forgotten, so that its name can be given out
\* again.
Forget ==
    /\ grants' = [g \in 1..MaxGrant |-> IF g \in UsedGrants' THEN grants[g] ELSE 0]
    /\ expired' = expired \intersect UsedClients'

\* The deferred ReleaseLease.  A login goes on to the browser.
Release(p) ==
    /\ At(p, "release")
    /\ lease' = ReleaseLease(lease, p)
    /\ call' = [call EXCEPT ![p] =
                  IF @.next = "idle" THEN NoCall
                  ELSE [NoCall EXCEPT !.op = "register", !.at = "consent", !.rec = call[p].rec]]
    /\ UNCHANGED <<store, keyring, faults, history>>
    /\ Forget

\* The user consents and CompleteAuthorization starts, or the login ends.
Consent(p) ==
    /\ At(p, "consent")
    /\ \/ Room("refresh") /\ call' = [call EXCEPT ![p].op = "complete", ![p].at = "claim"]
       \/ call' = [call EXCEPT ![p] = NoCall]
    /\ UNCHANGED <<lease, store, keyring, upstream, faults, history>>

\* A read, a request or a statement fails, or the caller's context is cancelled:
\* the call returns and releases the lease.
Interruptible ==
    { "load", "exchange", "gate", "record", "adopt", "recheck", "existing",
      "invLoad", "invMark", "invClear", "invUnmark", "outGrant", "outGrantSlot",
      "outMark", "outClearGrant", "outClient", "outClientSlot", "outClearClient",
      "outLegacyClient", "outLegacyGrant" }

Fails(p) ==
    /\ call[p].at \in Interruptible /\ Fault
    /\ Fail(p)
    /\ UNCHANGED <<lease, store, keyring, upstream, history>>

\* A crash leaves the lease row to expire, and the slot in hand to nobody.
Crash(p) ==
    /\ ~At(p, "idle") /\ Fault
    /\ call' = [call EXCEPT ![p] = NoCall]
    /\ lease' = IF lease.owner = p THEN [lease EXCEPT !.owner = Dead] ELSE lease
    /\ leaked' = leaked \union { l \in {<<call[p].kind, call[p].slot>>} : l[2] # 0 /\ keyring[l] # 0 }
    /\ UNCHANGED <<store, keyring, stalled, adopted>>
    /\ Forget

\* The lease of a crashed process lapses.
Lapse ==
    /\ lease.owner = Dead /\ lease.left > 0
    /\ lease' = Elapse(lease)
    /\ UNCHANGED <<store, keyring, upstream, call, faults, history>>

\* A process stalls inside its call for longer than its lease lasts.
Stall ==
    /\ lease.owner \in Proc /\ lease.left > 0 /\ Fault
    /\ lease' = Elapse(lease)
    /\ stalled' = TRUE
    /\ UNCHANGED <<store, keyring, upstream, call, leaked, adopted>>

\* The secret of the registered client expires; its grant is revoked.
Expire ==
    /\ Committed("client") \notin expired \union {0}
    /\ expired' = expired \union {Committed("client")}
    /\ UNCHANGED <<lease, store, keyring, grants, call, faults, history>>

Revoke ==
    /\ Fault
    /\ LiveGrant # 0 /\ grants[LiveGrant] # 0
    /\ grants' = [grants EXCEPT ![LiveGrant] = 0]
    /\ UNCHANGED <<lease, store, keyring, expired, call, history>>

Start(p) == StartRefresh(p) \/ StartLogin(p) \/ StartLogout(p)

Step(p) ==
    \/ Claim(p) \/ Contended(p) \/ LoadCredential(p) \/ ExchangeRefresh(p)
    \/ ExchangeRejected(p) \/ ExchangeCode(p) \/ Gate(p)
    \/ CurrentRecord(p) \/ Adopt(p) \/ Recheck(p) \/ PostRefused(p)
    \/ PostRegistration(p) \/ LoadExisting(p)
    \/ SetSlot(p) \/ Sweep(p) \/ ReadClientFence(p) \/ Commit(p)
    \/ CommitRejected(p) \/ Rollback(p) \/ UnmarkCommitted(p) \/ DropLegacy(p) \/ DropPrevious(p)
    \/ InvalidateLoad(p) \/ Mark(p) \/ InvalidateClear(p) \/ InvalidateSlot(p)
    \/ InvalidateLegacy(p) \/ InvalidateUnmark(p)
    \/ LogoutRead(p) \/ LogoutSlot(p) \/ LogoutClear(p) \/ LogoutLegacy(p) \/ LogoutUnmark(p)
    \/ Release(p) \/ Consent(p)

Next ==
    \/ \E p \in Proc : \/ Start(p) \/ Step(p) \/ Fails(p) \/ Crash(p)
                       \/ ExchangeLost(p) \/ ScopeMismatch(p)
    \/ Lapse \/ Stall \/ Expire \/ Revoke

Spec == Init /\ [][Next]_vars

-----------------------------------------------------------------------------
(* Properties.                                                             *)

\* A readable grant was issued to the registered client ("never pairs the new
\* client with a grant issued under the old one", register.go): the legacy grant
\* unless a process outlived its lease, a committed one even then, unless a
\* refresh took the legacy grant after that.  (Such a refresh may still present
\* the client record it read before the lease, which a login has replaced.)
GrantMatchesClient ==
    LET client == Committed("client") IN
    /\ LiveGrant # 0 /\ client # 0
    /\ IF fence["refresh"].slot # 0 THEN ~adopted ELSE ~stalled
    => grants[LiveGrant] \in {0, client}

\* A slot that holds a secret is named by its fence, recorded for retirement or
\* in the hands of its writer; only a crash of the writer before its commit, or
\* a rollback whose record fails too, leaves a secret nothing refers to.
NothingStranded ==
    \A l \in Label : l[2] # 0 /\ keyring[l] # 0 =>
        \/ fence[l[1]].slot = l[2]
        \/ l \in retired \union leaked
        \/ \E p \in Proc : l = <<call[p].kind, call[p].slot>>

\* A logout that reaches its last step in its epoch has left no fence and no
\* legacy secret: nothing that stalled before it has reinstalled a credential.
LogoutLeavesNothing ==
    \A p \in Proc : At(p, "outSweep") /\ Holds(p) =>
        /\ \A k \in Kind : fence[k].slot = 0 /\ keyring[<<k, 0>>] = 0
        /\ LiveGrant = 0 /\ RegisteredClient = 0

\* Without faults the readable grant is spent upstream only while the refresh
\* that spent it is on its way to commit the replacement.
NoSpentGrant ==
    faults = 0 /\ LiveGrant # 0 /\ grants[LiveGrant] = 0 =>
        \E p \in Proc : /\ call[p].op = "refresh"
                        /\ call[p].at \in {"gate", "set", "sweep", "commit"}

\* Two logins never both create a client: the registration is posted, in its
\* epoch, only while no usable client is stored.
SingleRegistration ==
    \A p \in Proc : At(p, "post") /\ Holds(p) => RegisteredClient = 0

\* Unless a process outlived its lease, a grant becomes readable only by a
\* commit: clearing the fence never brings back the legacy grant.
NoResurrection ==
    [][ LiveGrant' \notin {0, LiveGrant} /\ ~stalled'
        => fence'["refresh"].slot \notin {0, fence["refresh"].slot} ]_vars
=============================================================================
