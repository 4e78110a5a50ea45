----------------------------- MODULE Bootstrap -----------------------------
(***************************************************************************)
(* internal/bootstrap: processes that create one profile, resume or        *)
(* discard its creation.  The journal is the durable record of a creation  *)
(* under way; the profile file is published once, without replacement; the *)
(* database file holds the bootstrap lease and the credential fence.       *)
(*                                                                         *)
(* A database file has an identity: a session goes on using the file it    *)
(* opened after the path was removed, and the next session creates another *)
(* file.  A journal id or a file nothing refers to may be used again.      *)
(*                                                                         *)
(* Opening and claiming, publication, cleanup and discard take the         *)
(* publication lock; saving the journal, and removing it for a winner      *)
(* already published, do not.  Faults: a crash, a failed logout, and a     *)
(* process that stalls until its lease lapses.                             *)
(***************************************************************************)
EXTENDS LeaseTable

CONSTANTS Proc,      \* login invocations
          Dead,      \* the owner in the lease row of a crashed process
          MaxId,     \* bound on the journal ids in use at once
          MaxFile,   \* bound on the database files in use at once
          MaxFaults  \* bound on the faults of a behaviour

ASSUME BootstrapAssumption ==
    /\ NoOwner \notin Proc /\ Dead \notin Proc \union {NoOwner}
    /\ MaxId \in Nat \ {0} /\ MaxFile \in Nat \ {0} /\ MaxFaults \in Nat

VARIABLES journal,    \* the staging file: the id of the bootstrap and its stage
          published,  \* the profile file exists
          db,         \* the file at the database path, 0 for none
          files,      \* the lease row and the credential of each file
          lock,       \* the process in a section under the publication lock
          call,       \* the invocation of each process
          faults,
          stalled,    \* history: a process outlived its lease
          overrun,    \* history: a process that had lost its lease cleaned up or saved
          discarded   \* history: ids a user discarded that a process still runs

history == <<stalled, overrun, discarded>>
vars == <<journal, published, db, files, lock, call, faults, history>>

NoJournal == [id |-> 0, stage |-> "none"]
NoCall == [at |-> "idle", op |-> "none", id |-> 0, file |-> 0, gen |-> 0]
Empty == [lease |-> NoLease, cred |-> FALSE]

TypeOK ==
    /\ journal \in [id : 0..MaxId, stage : {"none", "reserved", "authorized"}]
    /\ published \in BOOLEAN
    /\ db \in 0..MaxFile
    /\ files \in [1..MaxFile -> [lease : LeaseRow(Proc \union {Dead}), cred : BOOLEAN]]
    /\ lock \in Proc \union {NoOwner}
    /\ call \in [Proc -> [ at : { "idle", "reserve", "finish", "open", "authorize", "save",
                                  "ready", "gate", "publish", "confirm", "winner", "retire",
                                  "cleanup", "discard", "logout", "removeDb", "removeJournal" },
                           op : {"none", "finish", "discard"},
                           id : 0..MaxId, file : 0..MaxFile, gen : Nat ]]
    /\ faults \in 0..MaxFaults
    /\ stalled \in BOOLEAN /\ overrun \in BOOLEAN
    /\ discarded \subseteq 1..MaxId

Init ==
    /\ journal = NoJournal /\ published = FALSE
    /\ db = 0 /\ files = [f \in 1..MaxFile |-> Empty]
    /\ lock = NoOwner
    /\ call = [p \in Proc |-> NoCall]
    /\ faults = 0 /\ stalled = FALSE /\ overrun = FALSE /\ discarded = {}

Fault == faults < MaxFaults /\ faults' = faults + 1

At(p, l) == call[p].at = l
Goto(p, l) == call' = [call EXCEPT ![p].at = l]
Done(p) == call' = [call EXCEPT ![p] = NoCall]

UsedIds == {journal.id} \union {call[p].id : p \in Proc} \union discarded
UsedFiles == {db} \union {call[p].file : p \in Proc} \union {f \in 1..MaxFile : files[f].cred}
Least(n, S) == n \in S /\ \A m \in S : n <= m

\* OpenSession: the file at the path, or a new empty one.
Opens(f) ==
    \/ f = db
    \/ db = 0 /\ Least(f, (1..MaxFile) \ UsedFiles)
FileAt(f) == IF db = 0 THEN Empty ELSE files[f]

\* The session of p: its lease row and its credential.
Holds(p) == HoldsEpoch(files[call[p].file].lease, p, call[p].gen)
Passes(p, wait) == CommitLease(files[call[p].file].lease, p, call[p].gen, wait)
HasCredential(p) == files[call[p].file].cred
Released(p) ==
    IF call[p].file = 0 THEN files
    ELSE [files EXCEPT ![call[p].file].lease = ReleaseLease(@, p)]

\* Every return of finish releases the lease and closes the session.
Return(p) == Done(p) /\ files' = Released(p)

-----------------------------------------------------------------------------
(* Starting an invocation.                                                 *)

\* create: no profile and no journal of that name when it looked.
Create(p) ==
    /\ At(p, "idle") /\ ~published /\ journal = NoJournal
    /\ call' = [call EXCEPT ![p].at = "reserve", ![p].op = "finish"]
    /\ UNCHANGED <<journal, published, db, files, lock, faults, history>>

\* reserve: the journal is created without replacement.
Reserve(p) ==
    /\ At(p, "reserve")
    /\ IF journal # NoJournal THEN Done(p) /\ UNCHANGED journal
       ELSE \E i \in 1..MaxId :
              /\ Least(i, (1..MaxId) \ UsedIds)
              /\ journal' = [id |-> i, stage |-> "reserved"]
              /\ call' = [call EXCEPT ![p].at = "finish", ![p].id = i]
    /\ UNCHANGED <<published, db, files, lock, faults, history>>

\* recoverOutstanding: the user resumes, or discards, the journal found.
Recover(p) ==
    /\ At(p, "idle") /\ journal # NoJournal
    /\ \E op \in {"finish", "discard"} :
         call' = [call EXCEPT ![p] = [NoCall EXCEPT !.op = op, !.at = op, !.id = journal.id]]
    /\ UNCHANGED <<journal, published, db, files, lock, faults, history>>

\* finish: a profile published meanwhile is completed, not created.
Finish(p) ==
    /\ At(p, "finish")
    /\ Goto(p, IF published THEN "winner" ELSE "open")
    /\ UNCHANGED <<journal, published, db, files, lock, faults, history>>

-----------------------------------------------------------------------------
(* finish.                                                                 *)

\* openClaimedSession, under the lock: the journal is still the one of this
\* bootstrap; the session is opened and the lease claimed, or the call is busy.
OpenClaimed(p) ==
    /\ At(p, "open") /\ lock = NoOwner
    /\ IF journal.id # call[p].id THEN Done(p) /\ UNCHANGED <<db, files>>
       ELSE \E f \in 1..MaxFile :
              /\ Opens(f)
              /\ db' = f
              /\ LET row == FileAt(f).lease IN
                 IF ~Claimable(row, p) THEN Done(p) /\ UNCHANGED files
                 ELSE /\ files' = [files EXCEPT ![f] =
                                     [FileAt(f) EXCEPT !.lease = ClaimLease(row, p, 0)]]
                      /\ call' = [call EXCEPT
                             ![p].at = IF journal.stage = "authorized" THEN "ready" ELSE "authorize",
                             ![p].file = f, ![p].gen = ClaimLease(row, p, 0).gen]
    /\ UNCHANGED <<journal, published, lock, faults, history>>

\* The browser login: it commits a credential to the session's file, or fails,
\* as it also does when a renewal finds the lease lost.
Authorize(p) ==
    /\ At(p, "authorize")
    /\ \/ /\ files' = [files EXCEPT ![call[p].file].cred = TRUE]
          /\ Goto(p, "save")
       \/ Goto(p, "cleanup") /\ UNCHANGED files
    /\ UNCHANGED <<journal, published, db, lock, faults, history>>

\* record.save replaces whatever journal there is, outside the lock, or fails.
Save(p) ==
    /\ At(p, "save")
    /\ \/ /\ journal' = [id |-> call[p].id, stage |-> "authorized"]
          /\ Goto(p, "ready")
          /\ overrun' = (overrun \/ ~Holds(p))
          /\ UNCHANGED files
       \/ Return(p) /\ UNCHANGED <<journal, overrun>>
    /\ UNCHANGED <<published, db, lock, faults, stalled, discarded>>

\* Ready, Token, the catalog and the profile built from it; any may fail.
Prepare(p) ==
    /\ At(p, "ready")
    /\ \/ HasCredential(p) /\ Goto(p, "gate") /\ UNCHANGED files
       \/ Return(p)
    /\ UNCHANGED <<journal, published, db, lock, faults, history>>

\* The generation gate before the publication lock.
Gate(p) ==
    /\ At(p, "gate")
    /\ \E wait \in {0, 1} :
         IF Passes(p, wait) THEN Goto(p, "publish") /\ UNCHANGED files ELSE Return(p)
    /\ UNCHANGED <<journal, published, db, lock, faults, history>>

\* Mutated form: publication trusts the gate before the lock.
MayPublishGated(p, wait) == TRUE

\* Under the lock: the journal is still this bootstrap's and the lease is held.
MayPublish(p, wait) == journal.id = call[p].id /\ Passes(p, wait)

\* profile.Publish never replaces a profile.
Publish(p) ==
    /\ At(p, "publish") /\ lock = NoOwner
    /\ \E wait \in {0, 1} :
         CASE ~MayPublish(p, wait) -> Return(p) /\ UNCHANGED <<published, lock>>
           [] MayPublish(p, wait) /\ published ->
                Goto(p, "winner") /\ UNCHANGED <<published, files, lock>>
           [] OTHER -> published' = TRUE /\ lock' = p /\ Goto(p, "confirm") /\ UNCHANGED files
    /\ UNCHANGED <<journal, db, faults, history>>

\* Still under the lock: the credential is there, and the journal is removed.
Confirm(p) ==
    /\ At(p, "confirm")
    /\ journal' = IF HasCredential(p) THEN NoJournal ELSE journal
    /\ lock' = NoOwner
    /\ Return(p)
    /\ UNCHANGED <<published, db, faults, history>>

\* completePublished, reconcileWinner: the published profile must have its
\* credential and be the reviewed candidate; then the journal is removed.
Reconcile(p) ==
    /\ At(p, "winner")
    /\ \E f \in 1..MaxFile :
         /\ Opens(f) /\ db' = f
         /\ \/ FileAt(f).cred /\ Goto(p, "retire") /\ UNCHANGED files
            \/ /\ Done(p)
               /\ files' = IF db = 0 THEN [Released(p) EXCEPT ![f] = Empty] ELSE Released(p)
    /\ UNCHANGED <<journal, published, lock, faults, history>>

Retire(p) ==
    /\ At(p, "retire")
    /\ journal' = NoJournal
    /\ Return(p)
    /\ UNCHANGED <<published, db, lock, faults, history>>

-----------------------------------------------------------------------------
(* Cleanup and discard.                                                    *)

\* afterAuthorizeFailure: a credential that is ready keeps the bootstrap;
\* otherwise it logs out and releases the lease, its own or none, and goes on to
\* remove the database and the journal without asking whose they are by now.
Cleanup(p) ==
    /\ At(p, "cleanup") /\ lock = NoOwner
    /\ IF HasCredential(p) THEN Return(p) /\ UNCHANGED <<lock, overrun>>
       ELSE /\ lock' = p /\ files' = Released(p)
            /\ Goto(p, "removeDb")
            /\ overrun' = (overrun \/ ~Holds(p))
    /\ UNCHANGED <<journal, published, db, faults, stalled, discarded>>

\* Mutated form: the journal alone decides.
PreservesNothing == FALSE

\* discardLocked: a published profile is preserved and only the journal goes;
\* otherwise the lease is claimed.
Preserves == published

Discard(p) ==
    /\ At(p, "discard") /\ lock = NoOwner
    /\ IF Preserves
       THEN journal' = NoJournal /\ Done(p) /\ UNCHANGED <<db, files, lock>>
       ELSE \E f \in 1..MaxFile :
              /\ Opens(f) /\ db' = f /\ UNCHANGED journal
              /\ LET row == FileAt(f).lease IN
                 IF ~Claimable(row, p) THEN Done(p) /\ UNCHANGED <<files, lock>>
                 ELSE /\ files' = [files EXCEPT ![f] =
                                     [FileAt(f) EXCEPT !.lease = ClaimLease(row, p, 0)]]
                      /\ lock' = p
                      /\ call' = [call EXCEPT ![p].at = "logout", ![p].file = f]
    /\ UNCHANGED <<published, faults, history>>

\* Mutated form: the database goes without a logout.
LoggedOutKept(p) == Released(p)

LoggedOut(p) == [Released(p) EXCEPT ![call[p].file].cred = FALSE]

DiscardLogout(p) ==
    /\ At(p, "logout")
    /\ files' = LoggedOut(p)
    /\ Goto(p, "removeDb")
    /\ UNCHANGED <<journal, published, db, lock, faults, history>>

\* The database path is removed, whichever file is there.
RemoveDatabase(p) ==
    /\ At(p, "removeDb")
    /\ db' = 0
    /\ Goto(p, "removeJournal")
    /\ UNCHANGED <<journal, published, files, lock, faults, history>>

RemoveJournal(p) ==
    /\ At(p, "removeJournal")
    /\ journal' = NoJournal
    /\ lock' = NoOwner
    /\ Done(p)
    /\ discarded' = { i \in discarded \union (IF call[p].op = "discard" THEN {journal.id} ELSE {}) :
                        \E q \in Proc \ {p} : call[q].id = i /\ i # 0 }
    /\ UNCHANGED <<published, db, files, faults, stalled, overrun>>

-----------------------------------------------------------------------------
(* Faults and time.                                                        *)

\* A logout fails: the section ends and the journal stays.
LogoutFails(p) ==
    /\ Fault
    /\ \/ At(p, "cleanup") /\ lock = NoOwner /\ ~HasCredential(p)
       \/ At(p, "logout")
    /\ Return(p)
    /\ lock' = NoOwner
    /\ UNCHANGED <<journal, published, db, history>>

\* A crash frees the lock and leaves the lease row to expire.
Crash(p) ==
    /\ ~At(p, "idle") /\ Fault
    /\ Done(p)
    /\ lock' = IF lock = p THEN NoOwner ELSE lock
    /\ files' = [f \in 1..MaxFile |-> IF files[f].lease.owner = p
                                      THEN [files[f] EXCEPT !.lease.owner = Dead] ELSE files[f]]
    /\ UNCHANGED <<journal, published, db, history>>

Lapse ==
    /\ \E f \in 1..MaxFile :
         /\ files[f].lease.owner = Dead /\ files[f].lease.left > 0
         /\ files' = [files EXCEPT ![f].lease = Elapse(@)]
    /\ UNCHANGED <<journal, published, db, lock, call, faults, history>>

Stall ==
    /\ Fault
    /\ \E f \in 1..MaxFile :
         /\ files[f].lease.owner \in Proc /\ files[f].lease.left > 0
         /\ files' = [files EXCEPT ![f].lease = Elapse(@)]
    /\ stalled' = TRUE
    /\ UNCHANGED <<journal, published, db, lock, call, overrun, discarded>>

Step(p) ==
    \/ Create(p) \/ Reserve(p) \/ Recover(p) \/ Finish(p) \/ OpenClaimed(p)
    \/ Authorize(p) \/ Save(p) \/ Prepare(p) \/ Gate(p) \/ Publish(p) \/ Confirm(p)
    \/ Reconcile(p) \/ Retire(p) \/ Cleanup(p) \/ Discard(p) \/ DiscardLogout(p)
    \/ RemoveDatabase(p) \/ RemoveJournal(p)

Next == Lapse \/ Stall \/ \E p \in Proc : Step(p) \/ LogoutFails(p) \/ Crash(p)

Spec == Init /\ [][Next]_vars

-----------------------------------------------------------------------------
(* Properties.                                                             *)

\* A published profile has its database and its credential, whoever cleans up,
\* discards, stalls or crashes around it, unless a process that had lost its
\* lease cleaned up or saved its journal all the same.
PublishedHasCredential ==
    published /\ ~overrun => db # 0 /\ files[db].cred

\* Unless a process outlived its lease, a crash never strands a credential: the
\* database that refers to it is at its path, and until the profile is there the
\* journal is, so that the next login offers to resume or discard it.
Recoverable ==
    ~stalled => \A f \in 1..MaxFile : files[f].cred =>
                    f = db /\ (published \/ journal # NoJournal)

\* With the same exception, a bootstrap the user discarded is never published,
\* although a process may pass the lease gate, stall, and publish after another
\* process claimed the lease and finished the discard.
DiscardIsFinal ==
    [][ published' # published /\ ~overrun =>
          \A p \in Proc : lock' = p => call[p].id \notin discarded ]_vars

\* What the publication lock is for (publish_lock_unix.go: "so cleanup cannot
\* delete state another process is starting to use"): a process removes the
\* database only while no other holds its lease.
CleanupSparesOthers ==
    [][ db # 0 /\ db' = 0 =>
          \A q \in Proc \ {lock} : ~Live(files[db].lease, q) ]_vars
=============================================================================
