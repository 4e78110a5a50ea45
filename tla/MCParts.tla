------------------------------ MODULE MCParts ------------------------------
(***************************************************************************)
(* Instance for TLC of five small components: the lease protocol and,      *)
(* beside the submission path, Repair, Login, Progress and StateOpen.      *)
(* They share no state, so a behaviour is one of a single component,       *)
(* `part`, and the variables of the others keep one value: Leases' its     *)
(* initial one, the rest 0.  `held`, `call` and `faults` are Repair's or   *)
(* Login's, whose leases last one tick.                                    *)
(***************************************************************************)
EXTENDS Leases, TLC

CONSTANTS Dead, MaxFaults,
          Repairer, Writer, Slot, FirstSlot, OldSlot, Label, StateKey,
          Process, Port, NoPort, MaxAttempt, MaxRequests,
          Runner, MaxEvents, EventBytes, EventsBytes, Size, MaxSequence,
          Opener, MaxFile, MaxKey, MaxHits

\* The state key, the label of old credentials and the slots differ, and so do the
\* owners of the credential lease; two slots are in use before the writer's.
ASSUME PartsAssumption ==
    /\ MaxFile \in Nat \ {0} /\ MaxAttempt \in Nat /\ MaxEvents \in Nat
    /\ Label \notin Slot /\ StateKey \notin Slot \union {Label}
    /\ FirstSlot \in Slot /\ OldSlot \in Slot \ {FirstSlot}
    /\ Writer \notin Repairer /\ {NoOwner, Dead} \cap (Repairer \union {Writer}) = {}

VARIABLES part, held, call, faults,
          legacy, dest, live, retired, writer, stalled,
          client, socket, tabs, requests, attempts, accepted, redeemed,
          row, seen, await, cursor, received,
          named, files, db, writing, keyring, created, deleted, store, hits

R == INSTANCE Repair WITH lease <- held, TTL <- 1
L == INSTANCE Login WITH lease <- held, TTL <- 1
P == INSTANCE Progress
S == INSTANCE StateOpen

shared == <<held, call, faults>>
repairOnly == <<legacy, dest, live, retired, writer, stalled>>
loginOnly == <<client, socket, tabs, requests, attempts, accepted, redeemed>>
progressOnly == <<row, seen, await, cursor, received>>
openOnly == <<named, files, db, writing, keyring, created, deleted, store, hits>>

PartInit ==
    /\ part \in {"leases", "repair", "login", "progress", "open"}
    /\ Init
    /\ CASE part = "repair" -> R!Init
         [] part = "login" -> L!Init
         [] OTHER -> held = 0 /\ call = 0 /\ faults = 0
    /\ IF part = "repair" THEN TRUE
       ELSE legacy = 0 /\ dest = 0 /\ live = 0 /\ retired = 0 /\ writer = 0 /\ stalled = 0
    /\ IF part = "login" THEN TRUE
       ELSE /\ client = 0 /\ socket = 0 /\ tabs = 0 /\ requests = 0 /\ attempts = 0
            /\ accepted = 0 /\ redeemed = 0
    /\ IF part = "progress" THEN P!Init
       ELSE row = 0 /\ seen = 0 /\ await = 0 /\ cursor = 0 /\ received = 0
    /\ IF part = "open" THEN S!Init
       ELSE /\ named = 0 /\ files = 0 /\ db = 0 /\ writing = 0 /\ keyring = 0
            /\ created = 0 /\ deleted = 0 /\ store = 0 /\ hits = 0

PartNext ==
    \/ /\ part = "leases" /\ Next
       /\ UNCHANGED <<part, shared, repairOnly, loginOnly, progressOnly, openOnly>>
    \/ /\ part = "repair" /\ R!Next
       /\ UNCHANGED <<part, vars, loginOnly, progressOnly, openOnly>>
    \/ /\ part = "login" /\ L!Next
       /\ UNCHANGED <<part, vars, repairOnly, progressOnly, openOnly>>
    \/ /\ part = "progress" /\ P!Next
       /\ UNCHANGED <<part, vars, shared, repairOnly, loginOnly, openOnly>>
    \/ /\ part = "open" /\ S!Next
       /\ UNCHANGED <<part, vars, shared, repairOnly, loginOnly, progressOnly>>

partVars == <<part, vars, shared, repairOnly, loginOnly, progressOnly, openOnly>>

PartSpec == PartInit /\ [][PartNext]_partVars

\* The same processes play the repairers, logins, runners and openers, and two of
\* the lease owners, so that one permutation is a symmetry of every part.
Symmetry == Permutations(Process) \union Permutations(Port)

-----------------------------------------------------------------------------
(* The properties, each of its part; NoStaleCommit and                     *)
(* OvertakenOutlivedLease are those of Leases.                             *)

\* Repair: the state key is readable only after every live credential is, so a
\* migration cut short leaves a profile that cannot open, never half of one.
KeyLast == part = "repair" => R!KeyLast

\* Repair: without a stall, MigrateLegacyKeyring and the OAuth writer never
\* leave two items under one key of the default collection.
NoSecondCopy == part = "repair" => R!NoSecondCopy

\* Repair: an interrupted migration can be run again; its checks refuse only a
\* damaged keyring or a fence that moved since the plan was read.
FailsForCause == part = "repair" => R!FailsForCause

\* Login: racing callbacks get one accept page per attempt, and an attempt
\* exchanges only the accepted code that answers its own request, although
\* earlier attempts' tabs call back on the same port.
OneOwnCode == part = "login" => L!OneOwnCode

\* Login: a request's client is registered for its redirect, even if another
\* process registers between bindCallbackListener and RegisterForRedirect.
RegistrationServes == part = "login" => L!RegistrationServes

\* Progress: a client that follows its cursor gets each retained event once and
\* in order, whatever stale runners append, and Await never refuses its cursor.
FollowsTheLog == part = "progress" => P!FollowsTheLog

\* StateOpen: a committed database's key is in the keyring unless the user
\* deleted it, and all of it is sealed under that key, whatever opens, crashes
\* and failed commits interleave.
OneKey == part = "open" => S!OneKey
=============================================================================
