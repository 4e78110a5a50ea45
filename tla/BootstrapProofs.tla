-------------------------- MODULE BootstrapProofs --------------------------
(***************************************************************************)
(* Proofs about Bootstrap, for any number of logins, any lease duration,   *)
(* any number of faults and any bounds on the ids and files in use.        *)
(***************************************************************************)
EXTENDS Bootstrap, TLAPS

-----------------------------------------------------------------------------
(* The inductive invariant.                                                *)

\* Where an invocation has no session, works in one it has claimed, and is in a
\* section under the publication lock.
Sessionless == {"idle", "reserve", "finish", "open", "discard"}
Claimed == {"authorize", "save", "ready", "gate", "publish", "cleanup"}
Removing == {"logout", "removeDb", "removeJournal"}
InSection == Removing \union {"confirm"}

\* No other process claimed the lease since p did, be it live or not: what a
\* gate that waited for the write lock accepts.
Owns(p) ==
    LET row == files[call[p].file].lease IN row.owner = p /\ row.gen = call[p].gen

Holding(p) == call[p].at \in Claimed /\ Owns(p)

\* A check inside the lease transaction and a gate outside it both need the row.
LEMMA OwnersPass ==
    ASSUME NEW p \in Proc
    PROVE  /\ Holds(p) <=> Owns(p) /\ files[call[p].file].lease.left > 0
           /\ \A wait \in {0, 1} : Passes(p, wait) => Owns(p)
  BY DEF Holds, Passes, Owns, HoldsEpoch, CommitLease, Live

\* What an invocation at each place has in hand.
InHand ==
    /\ journal # NoJournal => journal.id # 0
    /\ \A p \in Proc :
          /\ call[p].at \in Sessionless => call[p].file = 0
          /\ call[p].at \in Claimed \union {"logout"} => call[p].file # 0
          /\ call[p].at \notin {"idle", "reserve"} => call[p].id # 0
          /\ call[p].at \in {"confirm", "winner", "retire"} => published

\* One invocation at a time is in a section under the lock.
Locking == \A p \in Proc : lock = p <=> call[p].at \in InSection

\* A lease row names a process only for the session it has open, not once it has
\* released it to remove the database; and a discard under way owns the row of the
\* database it is about to remove.
RowsAreOpen ==
    /\ \A f \in 1..MaxFile, p \in Proc : files[f].lease.owner = p => call[p].file = f
    /\ \A f \in 1..MaxFile, p \in Proc :
          call[p].at \in {"removeDb", "removeJournal"} => files[f].lease.owner # p
    /\ \A p \in Proc : At(p, "logout") => call[p].file = db /\ files[db].lease.owner = p

\* Until a process without its lease cleans up or saves: a holder has the file at
\* the path; what is removed was claimed, so no holder is left in it; nothing is
\* removed once the profile is there; and a holder about to publish has its
\* credential and a bootstrap nobody discarded.
Guarded(p) ==
    /\ Holding(p) => call[p].file = db /\ call[p].id \notin discarded
    /\ Holding(p) /\ call[p].at \in {"gate", "publish"} => files[db].cred
    /\ At(p, "removeDb") => db # 0 /\ files[db].lease.owner = NoOwner
    /\ At(p, "removeJournal") => db = 0
    /\ call[p].at \in Removing => ~published

Fenced == ~overrun => journal.id \notin discarded /\ \A p \in Proc : Guarded(p)

\* Until a process outlives its lease, whoever works in a session holds its
\* lease, so nothing is cleaned up or saved without it, a holder's journal is
\* there until the profile is, and a database is removed without a credential.
Leased(p) ==
    /\ call[p].at \in Claimed => Owns(p) /\ (published \/ journal # NoJournal)
    /\ At(p, "removeDb") => ~files[db].cred

Unlapsed ==
    ~stalled =>
        /\ ~overrun
        /\ \A f \in 1..MaxFile : files[f].lease.owner \in Proc => files[f].lease.left > 0
        /\ \A p \in Proc : Leased(p)

IInv ==
    /\ TypeOK /\ InHand /\ Locking /\ RowsAreOpen /\ Fenced /\ Unlapsed
    /\ PublishedHasCredential /\ Recoverable

-----------------------------------------------------------------------------
(* Types.                                                                  *)

Place == { "idle", "reserve", "finish", "open", "authorize", "save", "ready", "gate",
           "publish", "confirm", "winner", "retire", "cleanup", "discard", "logout",
           "removeDb", "removeJournal" }
Op == {"none", "finish", "discard"}
CallType == [at : Place, op : Op, id : 0..MaxId, file : 0..MaxFile, gen : Nat]
FileType == [lease : LeaseRow(Proc \union {Dead}), cred : BOOLEAN]
JournalType == [id : 0..MaxId, stage : {"none", "reserved", "authorized"}]

LEMMA TypeParts ==
    TypeOK <=> /\ journal \in JournalType /\ published \in BOOLEAN /\ db \in 0..MaxFile
               /\ files \in [1..MaxFile -> FileType]
               /\ lock \in Proc \union {NoOwner}
               /\ call \in [Proc -> CallType]
               /\ faults \in 0..MaxFaults
               /\ stalled \in BOOLEAN /\ overrun \in BOOLEAN
               /\ discarded \subseteq 1..MaxId
  BY DEF TypeOK, JournalType, FileType, CallType, Place, Op

LEMMA Constants ==
    /\ MaxId \in Nat \ {0} /\ MaxFile \in Nat \ {0} /\ MaxFaults \in Nat /\ TTL \in Nat \ {0}
    /\ NoOwner \notin Proc /\ Dead \notin Proc /\ Dead # NoOwner
  BY BootstrapAssumption, TTLAssumption

LEMMA CallFields ==
    ASSUME NEW c \in CallType
    PROVE  /\ c.at \in Place /\ c.op \in Op /\ c.id \in 0..MaxId
           /\ c.file \in 0..MaxFile /\ c.gen \in Nat
           /\ \A l \in Place : [c EXCEPT !.at = l] \in CallType
  BY DEF CallType

LEMMA NoCallType ==
    /\ NoCall \in CallType /\ NoCall.at = "idle" /\ NoCall.file = 0 /\ NoCall.id = 0
    /\ NoCall.op = "none" /\ NoCall.gen = 0
  BY Constants DEF NoCall, CallType, Place, Op

\* The statements of lease.go on a typed row.
LEMMA RowFacts ==
    ASSUME NEW row \in LeaseRow(Proc \union {Dead}), NEW p \in Proc
    PROVE  /\ row.owner \in Proc \union {Dead, NoOwner} /\ row.left \in 0..TTL /\ row.gen \in Nat
           /\ NoLease \in LeaseRow(Proc \union {Dead}) /\ NoLease.owner = NoOwner
           /\ ClaimLease(row, p, 0) \in LeaseRow(Proc \union {Dead})
           /\ ClaimLease(row, p, 0).owner = p /\ ClaimLease(row, p, 0).left = TTL
           /\ ReleaseLease(row, p) \in LeaseRow(Proc \union {Dead})
           /\ Elapse(row) \in LeaseRow(Proc \union {Dead})
           /\ Elapse(row).owner = row.owner /\ Elapse(row).gen = row.gen
           /\ Elapse(row).left > 0 => row.left > 0
           /\ [row EXCEPT !.owner = Dead] \in LeaseRow(Proc \union {Dead})
           /\ [row EXCEPT !.owner = Dead].owner = Dead
  BY Constants DEF NoLease, LeaseRow, ClaimLease, ReleaseLease, Elapse

LEMMA FileFields ==
    ASSUME NEW r \in FileType
    PROVE  /\ r.lease \in LeaseRow(Proc \union {Dead}) /\ r.cred \in BOOLEAN
           /\ \A l \in LeaseRow(Proc \union {Dead}) :
                 LET s == [r EXCEPT !.lease = l] IN s \in FileType /\ s.lease = l /\ s.cred = r.cred
           /\ \A b \in BOOLEAN :
                 LET s == [r EXCEPT !.cred = b] IN s \in FileType /\ s.lease = r.lease /\ s.cred = b
  BY DEF FileType

LEMMA EmptyType == Empty \in FileType /\ Empty.lease = NoLease /\ Empty.cred = FALSE
  BY Constants DEF Empty, FileType, NoLease, LeaseRow

-----------------------------------------------------------------------------
(* What the parts of a step do.                                            *)

LEMMA GotoFacts ==
    ASSUME TypeOK, NEW p \in Proc, NEW l \in Place, Goto(p, l)
    PROVE  /\ call' \in [Proc -> CallType]
           /\ call'[p].at = l /\ call'[p].id = call[p].id /\ call'[p].file = call[p].file
           /\ call'[p].gen = call[p].gen /\ call'[p].op = call[p].op
           /\ \A q \in Proc \ {p} : call'[q] = call[q]
  <1>1. call \in [Proc -> CallType] /\ call[p] \in CallType
    BY TypeParts
  <1>2. call' = [call EXCEPT ![p] = [call[p] EXCEPT !.at = l]]
    BY <1>1 DEF Goto
  <1>3. [call[p] EXCEPT !.at = l] \in CallType
    BY <1>1, CallFields
  <1>4. QED
    BY <1>1, <1>2, <1>3 DEF CallType

LEMMA DoneFacts ==
    ASSUME TypeOK, NEW p \in Proc, Done(p)
    PROVE  /\ call' \in [Proc -> CallType]
           /\ call'[p].at = "idle" /\ call'[p].id = 0 /\ call'[p].file = 0 /\ call'[p].gen = 0
           /\ \A q \in Proc \ {p} : call'[q] = call[q]
  BY TypeParts, NoCallType DEF Done

\* Releasing a session takes the process out of every row: it has no other.
LEMMA ReleasedFacts ==
    ASSUME TypeOK, RowsAreOpen, NEW p \in Proc
    PROVE  /\ Released(p) \in [1..MaxFile -> FileType]
           /\ \A f \in 1..MaxFile :
                 /\ Released(p)[f].cred = files[f].cred
                 /\ Released(p)[f].lease = IF files[f].lease.owner = p THEN NoLease
                                           ELSE files[f].lease
  <1> USE TypeParts
  <1> DEFINE n == call[p].file
  <1>0. n \in 0..MaxFile
    BY CallFields
  <1>1. CASE n = 0
    <2>1. Released(p) = files
      BY <1>1 DEF Released
    <2>2. \A f \in 1..MaxFile : files[f].lease.owner # p
      BY <1>1, Constants DEF RowsAreOpen
    <2>3. QED
      BY <2>1, <2>2
  <1>2. CASE n # 0
    <2>1. n \in 1..MaxFile
      BY <1>0, <1>2, Constants
    <2>2. Released(p) = [files EXCEPT ![n] =
                           [files[n] EXCEPT !.lease = ReleaseLease(files[n].lease, p)]]
      BY <1>2 DEF Released
    <2>3. files[n] \in FileType /\ files[n].lease \in LeaseRow(Proc \union {Dead})
      BY <2>1, FileFields
    <2>4. /\ ReleaseLease(files[n].lease, p) \in LeaseRow(Proc \union {Dead})
          /\ ReleaseLease(files[n].lease, p) = IF files[n].lease.owner = p THEN NoLease
                                               ELSE files[n].lease
      BY <2>3, RowFacts DEF ReleaseLease
    <2>5. \A f \in 1..MaxFile : f # n => files[f].lease.owner # p
      BY DEF RowsAreOpen
    <2> DEFINE s == [files[n] EXCEPT !.lease = ReleaseLease(files[n].lease, p)]
    <2>6. s \in FileType /\ s.lease = ReleaseLease(files[n].lease, p) /\ s.cred = files[n].cred
      BY <2>3, <2>4, FileFields
    <2>7. Released(p) = [files EXCEPT ![n] = s]
      BY <2>2
    <2> HIDE DEF s, n
    <2>8. QED
      BY <2>1, <2>4, <2>5, <2>6, <2>7
  <1>3. QED
    BY <1>1, <1>2

LEMMA ReturnFacts ==
    ASSUME TypeOK, RowsAreOpen, NEW p \in Proc, Return(p)
    PROVE  /\ call' \in [Proc -> CallType]
           /\ call'[p].at = "idle" /\ call'[p].id = 0 /\ call'[p].file = 0 /\ call'[p].gen = 0
           /\ \A q \in Proc \ {p} : call'[q] = call[q]
           /\ files' \in [1..MaxFile -> FileType]
           /\ \A f \in 1..MaxFile :
                 /\ files'[f].cred = files[f].cred
                 /\ files'[f].lease = IF files[f].lease.owner = p THEN NoLease
                                      ELSE files[f].lease
  BY DoneFacts, ReleasedFacts DEF Return

\* A file that OpenSession opens is the one at the path or one nothing refers to.
LEMMA OpensFacts ==
    ASSUME TypeOK, NEW f \in 1..MaxFile, Opens(f)
    PROVE  /\ f = db \/ (db = 0 /\ ~files[f].cred /\ \A q \in Proc : call[q].file # f)
           /\ f # 0
           /\ FileAt(f) \in FileType
           /\ db # 0 => FileAt(f) = files[f]
           /\ db = 0 => FileAt(f) = Empty
  BY TypeParts, Constants, EmptyType DEF Opens, Least, UsedFiles, FileAt

\* A claim takes the row of the file for p, and nothing else.
LEMMA ClaimFacts ==
    ASSUME TypeOK, NEW p \in Proc, NEW f \in 1..MaxFile, Opens(f),
           files' = [files EXCEPT ![f] =
                       [FileAt(f) EXCEPT !.lease = ClaimLease(FileAt(f).lease, p, 0)]]
    PROVE  /\ files' \in [1..MaxFile -> FileType]
           /\ files'[f].lease.owner = p /\ files'[f].lease.left > 0
           /\ files'[f].lease.gen = ClaimLease(FileAt(f).lease, p, 0).gen
           /\ ClaimLease(FileAt(f).lease, p, 0).gen \in Nat
           /\ files'[f].cred = FileAt(f).cred
           /\ \A g \in 1..MaxFile \ {f} : files'[g] = files[g]
  <1>1. FileAt(f) \in FileType /\ FileAt(f).lease \in LeaseRow(Proc \union {Dead})
    BY OpensFacts, FileFields
  <1> DEFINE l == ClaimLease(FileAt(f).lease, p, 0)
  <1>2. /\ l \in LeaseRow(Proc \union {Dead}) /\ l.owner = p /\ l.left = TTL /\ l.gen \in Nat
    BY <1>1, RowFacts DEF LeaseRow
  <1> DEFINE s == [FileAt(f) EXCEPT !.lease = l]
  <1> HIDE DEF l
  <1>3. s \in FileType /\ s.lease = l /\ s.cred = FileAt(f).cred
    BY <1>1, <1>2, FileFields
  <1>4. files' = [files EXCEPT ![f] = s]
    BY DEF l
  <1> HIDE DEF s
  <1>5. QED
    BY <1>2, <1>3, <1>4, TypeParts, Constants DEF l

-----------------------------------------------------------------------------
(* What each step does, field by field.                                    *)

\* The invocation of p goes on at l, or has returned; no other changes.
Moved(p, l) ==
    /\ call' \in [Proc -> CallType]
    /\ call'[p].at = l /\ call'[p].id = call[p].id /\ call'[p].file = call[p].file
    /\ call'[p].gen = call[p].gen
    /\ \A q \in Proc \ {p} : call'[q] = call[q]

Ended(p) ==
    /\ call' \in [Proc -> CallType]
    /\ call'[p].at = "idle" /\ call'[p].id = 0 /\ call'[p].file = 0 /\ call'[p].gen = 0
    /\ \A q \in Proc \ {p} : call'[q] = call[q]

\* The rows p owns are released; p has claimed the row of the file it opened.
RowsReleased(p) ==
    /\ files' \in [1..MaxFile -> FileType]
    /\ \A f \in 1..MaxFile :
          /\ files'[f].cred = files[f].cred
          /\ files'[f].lease = IF files[f].lease.owner = p THEN NoLease ELSE files[f].lease

RowClaimed(p, f) ==
    /\ f = db \/ (db = 0 /\ ~files[f].cred /\ \A q \in Proc : call[q].file # f)
    /\ f = db => /\ files[f].lease.owner \notin Proc \/ files[f].lease.left = 0
                    \/ files[f].lease.owner = p
                 /\ files'[f].cred = files[f].cred
    /\ db = 0 => ~files'[f].cred
    /\ db' = f
    /\ files' \in [1..MaxFile -> FileType]
    /\ files'[f].lease.owner = p /\ files'[f].lease.left > 0
    /\ \A g \in 1..MaxFile \ {f} : files'[g] = files[g]

others == <<journal, published, db, files, lock, faults, history>>

LEMMA StartFacts ==
    ASSUME TypeOK, NEW p \in Proc
    PROVE  /\ Create(p) => At(p, "idle") /\ Moved(p, "reserve") /\ UNCHANGED others
           /\ Finish(p) => /\ At(p, "finish") /\ UNCHANGED others
                           /\ (published /\ Moved(p, "winner")) \/ Moved(p, "open")
  <1>1. ASSUME Create(p)
        PROVE  At(p, "idle") /\ Moved(p, "reserve") /\ UNCHANGED others
    <2>1. call[p] \in CallType
      BY TypeParts
    <2> DEFINE c == [call[p] EXCEPT !.at = "reserve", !.op = "finish"]
    <2>2. c \in CallType /\ c.at = "reserve" /\ c.id = call[p].id /\ c.file = call[p].file
          /\ c.gen = call[p].gen
      BY <2>1 DEF CallType, Place, Op
    <2>3. call' = [call EXCEPT ![p] = c]
      BY <1>1, TypeParts DEF Create
    <2> HIDE DEF c
    <2>4. Moved(p, "reserve")
      BY <2>2, <2>3, TypeParts DEF Moved
    <2>5. QED
      BY <1>1, <2>4 DEF Create, others
  <1>2. ASSUME Finish(p)
        PROVE  /\ At(p, "finish") /\ UNCHANGED others
               /\ (published /\ Moved(p, "winner")) \/ Moved(p, "open")
    <2>1. {"winner", "open"} \subseteq Place
      BY DEF Place
    <2>2. QED
      BY <1>2, <2>1, GotoFacts DEF Finish, Moved, others
  <1>3. QED
    BY <1>1, <1>2

LEMMA ReserveFacts ==
    ASSUME TypeOK, NEW p \in Proc, Reserve(p)
    PROVE  /\ At(p, "reserve") /\ UNCHANGED <<published, db, files, lock, faults, history>>
           /\ \/ Ended(p) /\ UNCHANGED journal
              \/ /\ journal = NoJournal
                 /\ journal' \in JournalType /\ journal'.id # 0 /\ journal'.id \notin discarded
                 /\ call' \in [Proc -> CallType]
                 /\ call'[p].at = "finish" /\ call'[p].id # 0 /\ call'[p].file = call[p].file
                 /\ \A q \in Proc \ {p} : call'[q] = call[q]
  <1>1. CASE journal # NoJournal
    BY <1>1, DoneFacts DEF Reserve, Ended
  <1>2. CASE journal = NoJournal
    <2>1. PICK i \in 1..MaxId :
            /\ Least(i, (1..MaxId) \ UsedIds)
            /\ journal' = [id |-> i, stage |-> "reserved"]
            /\ call' = [call EXCEPT ![p].at = "finish", ![p].id = i]
      BY <1>2 DEF Reserve
    <2>2. i \notin discarded /\ i \in 0..MaxId /\ i # 0
      BY <2>1, Constants DEF Least, UsedIds
    <2>3. call[p] \in CallType
      BY TypeParts
    <2> DEFINE c == [call[p] EXCEPT !.at = "finish", !.id = i]
    <2>4. c \in CallType /\ c.at = "finish" /\ c.id = i /\ c.file = call[p].file
      BY <2>2, <2>3 DEF CallType, Place
    <2>5. call' = [call EXCEPT ![p] = c]
      BY <2>1, TypeParts
    <2>6. journal' \in JournalType /\ journal'.id = i
      BY <2>1, <2>2 DEF JournalType
    <2> HIDE DEF c
    <2>7. QED
      BY <1>2, <2>2, <2>4, <2>5, <2>6, TypeParts DEF Reserve
  <1>3. QED
    BY <1>1, <1>2

LEMMA RecoverFacts ==
    ASSUME TypeOK, NEW p \in Proc, Recover(p)
    PROVE  /\ At(p, "idle") /\ journal # NoJournal /\ UNCHANGED others
           /\ call' \in [Proc -> CallType]
           /\ call'[p].at \in {"finish", "discard"} /\ call'[p].id = journal.id
           /\ call'[p].file = 0
           /\ \A q \in Proc \ {p} : call'[q] = call[q]
  <1>1. PICK op \in {"finish", "discard"} :
          call' = [call EXCEPT ![p] = [NoCall EXCEPT !.op = op, !.at = op, !.id = journal.id]]
    BY DEF Recover
  <1>2. journal.id \in 0..MaxId
    BY TypeParts DEF JournalType
  <1> DEFINE c == [NoCall EXCEPT !.op = op, !.at = op, !.id = journal.id]
  <1>3. c \in CallType /\ c.at = op /\ c.id = journal.id /\ c.file = 0
    <2>1. op \in Place /\ op \in Op
      BY DEF Place, Op
    <2>2. NoCall \in CallType /\ NoCall.file = 0
      BY NoCallType
    <2>3. QED
      BY <1>2, <2>1, <2>2 DEF CallType
  <1>4. call' = [call EXCEPT ![p] = c]
    BY <1>1
  <1> HIDE DEF c
  <1>5. QED
    BY <1>3, <1>4, TypeParts DEF Recover, others

LEMMA ClaimRow ==
    ASSUME TypeOK, NEW p \in Proc, NEW f \in 1..MaxFile, Opens(f), db' = f,
           Claimable(FileAt(f).lease, p),
           files' = [files EXCEPT ![f] =
                       [FileAt(f) EXCEPT !.lease = ClaimLease(FileAt(f).lease, p, 0)]]
    PROVE  RowClaimed(p, f)
  <1>1. CASE f = db
    <2>1. FileAt(f) = files[f] /\ db # 0
      BY <1>1, OpensFacts
    <2>2. \/ files[f].lease.owner \notin Proc \/ files[f].lease.left = 0
          \/ files[f].lease.owner = p
      BY <2>1, Constants DEF Claimable
    <2>3. QED
      BY <1>1, <2>1, <2>2, ClaimFacts DEF RowClaimed
  <1>2. CASE f # db
    BY <1>2, OpensFacts, ClaimFacts, EmptyType DEF RowClaimed
  <1>3. QED
    BY <1>1, <1>2

\* A refused claim is one of the file at the path: a new file has no row.
LEMMA BusyRow ==
    ASSUME TypeOK, NEW p \in Proc, NEW f \in 1..MaxFile, Opens(f),
           ~Claimable(FileAt(f).lease, p)
    PROVE  f = db
  BY OpensFacts, EmptyType DEF Claimable, NoLease

LEMMA OpenFacts ==
    ASSUME TypeOK, NEW p \in Proc, OpenClaimed(p)
    PROVE  /\ At(p, "open") /\ lock = NoOwner
           /\ UNCHANGED <<journal, published, lock, faults, history>>
           /\ \/ Ended(p) /\ UNCHANGED <<db, files>>
              \/ \E f \in 1..MaxFile :
                    /\ RowClaimed(p, f) /\ journal.id = call[p].id
                    /\ call' \in [Proc -> CallType]
                    /\ call'[p].at \in {"ready", "authorize"} /\ call'[p].id = call[p].id
                    /\ call'[p].file = f /\ call'[p].gen = files'[f].lease.gen
                    /\ \A q \in Proc \ {p} : call'[q] = call[q]
  <1>1. CASE journal.id # call[p].id
    BY <1>1, DoneFacts DEF OpenClaimed, Ended
  <1>2. CASE journal.id = call[p].id
    <2>1. PICK f \in 1..MaxFile :
            /\ Opens(f) /\ db' = f
            /\ IF ~Claimable(FileAt(f).lease, p) THEN Done(p) /\ UNCHANGED files
               ELSE /\ files' = [files EXCEPT ![f] =
                          [FileAt(f) EXCEPT !.lease = ClaimLease(FileAt(f).lease, p, 0)]]
                    /\ call' = [call EXCEPT
                         ![p].at = IF journal.stage = "authorized" THEN "ready" ELSE "authorize",
                         ![p].file = f, ![p].gen = ClaimLease(FileAt(f).lease, p, 0).gen]
      BY <1>2 DEF OpenClaimed
    <2>2. CASE ~Claimable(FileAt(f).lease, p)
      BY <2>1, <2>2, BusyRow, DoneFacts DEF OpenClaimed, Ended
    <2>3. CASE Claimable(FileAt(f).lease, p)
      <3> DEFINE g == ClaimLease(FileAt(f).lease, p, 0).gen
                 l == IF journal.stage = "authorized" THEN "ready" ELSE "authorize"
                 c == [call[p] EXCEPT !.at = l, !.file = f, !.gen = g]
      <3>1. RowClaimed(p, f) /\ files'[f].lease.gen = g /\ g \in Nat
        BY <2>1, <2>3, ClaimRow, ClaimFacts
      <3>2. call[p] \in CallType /\ f \in 0..MaxFile
        BY TypeParts, Constants
      <3>3. call' = [call EXCEPT ![p] = c]
        BY <2>1, <2>3, TypeParts
      <3> HIDE DEF g
      <3>4. c \in CallType /\ c.at \in {"ready", "authorize"} /\ c.id = call[p].id /\ c.file = f
            /\ c.gen = g
        BY <3>1, <3>2 DEF CallType, Place
      <3> HIDE DEF c
      <3>5. QED
        BY <1>2, <3>1, <3>3, <3>4, TypeParts DEF OpenClaimed
    <2>4. QED
      BY <2>2, <2>3
  <1>3. QED
    BY <1>1, <1>2

LEMMA AuthorizeFacts ==
    ASSUME TypeOK, InHand, NEW p \in Proc, Authorize(p)
    PROVE  /\ At(p, "authorize") /\ UNCHANGED <<journal, published, db, lock, faults, history>>
           /\ call[p].file \in 1..MaxFile
           /\ \/ Moved(p, "cleanup") /\ UNCHANGED files
              \/ /\ Moved(p, "save")
                 /\ files' \in [1..MaxFile -> FileType]
                 /\ files'[call[p].file].cred
                 /\ \A f \in 1..MaxFile :
                       /\ files'[f].lease = files[f].lease
                       /\ f # call[p].file => files'[f].cred = files[f].cred
  <1> DEFINE n == call[p].file
  <1>1. n \in 1..MaxFile
    BY TypeParts, CallFields, Constants DEF InHand, Authorize, At, Claimed
  <1>2. {"save", "cleanup"} \subseteq Place
    BY DEF Place
  <1>3. CASE Goto(p, "cleanup") /\ UNCHANGED files
    BY <1>1, <1>2, <1>3, GotoFacts DEF Authorize, Moved
  <1>4. CASE files' = [files EXCEPT ![n].cred = TRUE] /\ Goto(p, "save")
    <2>1. files[n] \in FileType
      BY <1>1, TypeParts
    <2> DEFINE s == [files[n] EXCEPT !.cred = TRUE]
    <2>2. s \in FileType /\ s.lease = files[n].lease /\ s.cred = TRUE
      BY <2>1, FileFields
    <2>3. files' = [files EXCEPT ![n] = s]
      BY <1>4
    <2>4. Moved(p, "save")
      BY <1>2, <1>4, GotoFacts DEF Moved
    <2> HIDE DEF s, n
    <2>5. /\ files' \in [1..MaxFile -> FileType] /\ files'[n].cred
          /\ \A f \in 1..MaxFile : /\ files'[f].lease = files[f].lease
                                   /\ f # n => files'[f].cred = files[f].cred
      BY <1>1, <2>2, <2>3, TypeParts
    <2>6. QED
      BY <1>1, <2>4, <2>5 DEF Authorize, n
  <1>5. QED
    BY <1>3, <1>4 DEF Authorize

LEMMA ReturnEnds ==
    ASSUME TypeOK, RowsAreOpen, NEW p \in Proc, Return(p)
    PROVE  Ended(p) /\ RowsReleased(p)
  BY ReturnFacts DEF Ended, RowsReleased

\* What a save that succeeds does.
Saved(p) ==
    /\ Moved(p, "ready")
    /\ journal' \in JournalType /\ journal'.id = call[p].id
    /\ overrun' = (overrun \/ ~Holds(p))
    /\ UNCHANGED files

LEMMA SaveFacts ==
    ASSUME TypeOK, RowsAreOpen, NEW p \in Proc, Save(p)
    PROVE  /\ At(p, "save") /\ UNCHANGED <<published, db, lock, faults, stalled, discarded>>
           /\ \/ Saved(p)
              \/ Ended(p) /\ RowsReleased(p) /\ UNCHANGED <<journal, overrun>>
  <1>1. "ready" \in Place
    BY DEF Place
  <1>2. call[p].id \in 0..MaxId
    BY TypeParts, CallFields
  <1>3. CASE Return(p) /\ UNCHANGED <<journal, overrun>>
    BY <1>3, ReturnEnds DEF Save
  <1>4. CASE /\ journal' = [id |-> call[p].id, stage |-> "authorized"]
             /\ Goto(p, "ready") /\ overrun' = (overrun \/ ~Holds(p)) /\ UNCHANGED files
    BY <1>1, <1>2, <1>4, GotoFacts DEF Save, Saved, Moved, JournalType
  <1>5. QED
    BY <1>3, <1>4 DEF Save

LEMMA PrepareFacts ==
    ASSUME TypeOK, RowsAreOpen, NEW p \in Proc, Prepare(p)
    PROVE  /\ At(p, "ready") /\ UNCHANGED <<journal, published, db, lock, faults, history>>
           /\ \/ HasCredential(p) /\ Moved(p, "gate") /\ UNCHANGED files
              \/ Ended(p) /\ RowsReleased(p)
  <1>1. "gate" \in Place
    BY DEF Place
  <1>2. QED
    BY <1>1, GotoFacts, ReturnEnds DEF Prepare, Moved

LEMMA GateFacts ==
    ASSUME TypeOK, RowsAreOpen, NEW p \in Proc, Gate(p)
    PROVE  /\ At(p, "gate") /\ UNCHANGED <<journal, published, db, lock, faults, history>>
           /\ \/ Moved(p, "publish") /\ UNCHANGED files
              \/ Ended(p) /\ RowsReleased(p)
  <1>1. "publish" \in Place
    BY DEF Place
  <1>2. PICK wait \in {0, 1} :
          IF Passes(p, wait) THEN Goto(p, "publish") /\ UNCHANGED files ELSE Return(p)
    BY DEF Gate
  <1>3. QED
    BY <1>1, <1>2, GotoFacts, ReturnEnds DEF Gate, Moved

LEMMA PublishFacts ==
    ASSUME TypeOK, RowsAreOpen, NEW p \in Proc, Publish(p)
    PROVE  /\ At(p, "publish") /\ lock = NoOwner /\ UNCHANGED <<journal, db, faults, history>>
           /\ \/ Ended(p) /\ RowsReleased(p) /\ UNCHANGED <<published, lock>>
              \/ published /\ Moved(p, "winner") /\ UNCHANGED <<published, files, lock>>
              \/ /\ ~published /\ Owns(p) /\ journal.id = call[p].id
                 /\ published' = TRUE /\ lock' = p /\ Moved(p, "confirm") /\ UNCHANGED files
  <1>1. {"winner", "confirm"} \subseteq Place
    BY DEF Place
  <1>0. PICK wait \in {0, 1} :
          CASE ~MayPublish(p, wait) -> Return(p) /\ UNCHANGED <<published, lock>>
            [] MayPublish(p, wait) /\ published ->
                 Goto(p, "winner") /\ UNCHANGED <<published, files, lock>>
            [] OTHER -> published' = TRUE /\ lock' = p /\ Goto(p, "confirm") /\ UNCHANGED files
    BY DEF Publish
  <1>2. CASE ~MayPublish(p, wait)
    BY <1>0, <1>2, ReturnEnds DEF Publish
  <1>3. CASE MayPublish(p, wait) /\ published
    BY <1>0, <1>1, <1>3, GotoFacts DEF Publish, Moved
  <1>4. CASE MayPublish(p, wait) /\ ~published
    BY <1>0, <1>1, <1>4, GotoFacts, OwnersPass DEF Publish, MayPublish, Moved
  <1>5. QED
    BY <1>2, <1>3, <1>4

LEMMA ConfirmFacts ==
    ASSUME TypeOK, RowsAreOpen, NEW p \in Proc, Confirm(p) \/ Retire(p)
    PROVE  /\ Ended(p) /\ RowsReleased(p) /\ UNCHANGED <<published, db, faults, history>>
           /\ journal' = NoJournal \/ journal' = journal
           /\ \/ At(p, "confirm") /\ lock' = NoOwner
              \/ At(p, "retire") /\ UNCHANGED lock
  BY ReturnEnds DEF Confirm, Retire

LEMMA ReconcileFacts ==
    ASSUME TypeOK, RowsAreOpen, NEW p \in Proc, Reconcile(p)
    PROVE  /\ At(p, "winner") /\ UNCHANGED <<journal, published, lock, faults, history>>
           /\ \/ Moved(p, "retire") /\ UNCHANGED <<db, files>>
              \/ Ended(p) /\ RowsReleased(p) /\ UNCHANGED db
              \/ /\ db = 0 /\ Ended(p) /\ db' \in 1..MaxFile
                 /\ \A q \in Proc : call[q].file # db'
                 /\ files' \in [1..MaxFile -> FileType]
                 /\ files'[db'].cred = FALSE /\ files'[db'].lease = NoLease
                 /\ \A f \in 1..MaxFile \ {db'} :
                       /\ files'[f].cred = files[f].cred
                       /\ files'[f].lease = IF files[f].lease.owner = p THEN NoLease
                                            ELSE files[f].lease
  <1>1. PICK f \in 1..MaxFile :
          /\ Opens(f) /\ db' = f
          /\ \/ FileAt(f).cred /\ Goto(p, "retire") /\ UNCHANGED files
             \/ /\ Done(p)
                /\ files' = IF db = 0 THEN [Released(p) EXCEPT ![f] = Empty] ELSE Released(p)
    BY DEF Reconcile
  <1>2. "retire" \in Place
    BY DEF Place
  <1>3. CASE FileAt(f).cred /\ Goto(p, "retire") /\ UNCHANGED files
    <2>1. db = f
      BY <1>1, <1>3, OpensFacts, EmptyType
    <2>2. Moved(p, "retire")
      BY <1>2, <1>3, GotoFacts DEF Moved
    <2>3. QED
      BY <1>1, <1>3, <2>1, <2>2 DEF Reconcile
  <1>4. CASE Done(p) /\ db # 0 /\ files' = Released(p)
    <2>1. db = f
      BY <1>1, <1>4, OpensFacts
    <2>2. Ended(p) /\ RowsReleased(p)
      BY <1>4, DoneFacts, ReleasedFacts DEF Ended, RowsReleased
    <2>3. QED
      BY <1>1, <2>1, <2>2 DEF Reconcile
  <1>5. CASE Done(p) /\ db = 0 /\ files' = [Released(p) EXCEPT ![f] = Empty]
    <2>1. Ended(p)
      BY <1>5, DoneFacts DEF Ended
    <2>2. \A q \in Proc : call[q].file # f
      BY <1>1, <1>5, OpensFacts
    <2>3. /\ files' \in [1..MaxFile -> FileType] /\ files'[f].cred = FALSE
          /\ files'[f].lease = NoLease
          /\ \A g \in 1..MaxFile \ {f} : files'[g] = Released(p)[g]
      BY <1>5, ReleasedFacts, EmptyType
    <2>4. \A g \in 1..MaxFile \ {f} :
             /\ files'[g].cred = files[g].cred
             /\ files'[g].lease = IF files[g].lease.owner = p THEN NoLease ELSE files[g].lease
      BY <2>3, ReleasedFacts
    <2>5. db' = f /\ UNCHANGED <<journal, published, lock, faults, history>> /\ At(p, "winner")
      BY <1>1 DEF Reconcile
    <2>6. QED
      BY <1>5, <2>1, <2>2, <2>3, <2>4, <2>5
  <1>6. QED
    BY <1>1, <1>3, <1>4, <1>5

LEMMA CleanupFacts ==
    ASSUME TypeOK, RowsAreOpen, NEW p \in Proc, Cleanup(p)
    PROVE  /\ At(p, "cleanup") /\ lock = NoOwner
           /\ UNCHANGED <<journal, published, db, faults, stalled, discarded>>
           /\ RowsReleased(p)
           /\ \/ Ended(p) /\ UNCHANGED <<lock, overrun>>
              \/ /\ ~HasCredential(p) /\ lock' = p /\ Moved(p, "removeDb")
                 /\ overrun' = (overrun \/ ~Holds(p))
  <1>1. "removeDb" \in Place
    BY DEF Place
  <1>2. CASE HasCredential(p)
    BY <1>2, ReturnEnds DEF Cleanup
  <1>3. CASE ~HasCredential(p)
    BY <1>1, <1>3, GotoFacts, ReleasedFacts DEF Cleanup, Moved, RowsReleased
  <1>4. QED
    BY <1>2, <1>3

LEMMA DiscardFacts ==
    ASSUME TypeOK, NEW p \in Proc, Discard(p)
    PROVE  /\ At(p, "discard") /\ lock = NoOwner /\ UNCHANGED <<published, faults, history>>
           /\ \/ /\ Ended(p) /\ UNCHANGED <<db, files, lock>>
                 /\ (published /\ journal' = NoJournal) \/ UNCHANGED journal
              \/ \E f \in 1..MaxFile :
                    /\ ~published /\ RowClaimed(p, f) /\ lock' = p /\ UNCHANGED journal
                    /\ call' \in [Proc -> CallType]
                    /\ call'[p].at = "logout" /\ call'[p].file = f /\ call'[p].id = call[p].id
                    /\ \A q \in Proc \ {p} : call'[q] = call[q]
  <1>1. CASE published
    BY <1>1, DoneFacts DEF Discard, Preserves, Ended
  <1>2. CASE ~published
    <2>1. PICK f \in 1..MaxFile :
            /\ Opens(f) /\ db' = f /\ UNCHANGED journal
            /\ IF ~Claimable(FileAt(f).lease, p) THEN Done(p) /\ UNCHANGED <<files, lock>>
               ELSE /\ files' = [files EXCEPT ![f] =
                          [FileAt(f) EXCEPT !.lease = ClaimLease(FileAt(f).lease, p, 0)]]
                    /\ lock' = p
                    /\ call' = [call EXCEPT ![p].at = "logout", ![p].file = f]
      BY <1>2 DEF Discard, Preserves
    <2>2. CASE ~Claimable(FileAt(f).lease, p)
      BY <2>1, <2>2, BusyRow, DoneFacts DEF Discard, Ended
    <2>3. CASE Claimable(FileAt(f).lease, p)
      <3> DEFINE c == [call[p] EXCEPT !.at = "logout", !.file = f]
      <3>1. RowClaimed(p, f)
        BY <2>1, <2>3, ClaimRow
      <3>2. call[p] \in CallType /\ f \in 0..MaxFile
        BY TypeParts, Constants
      <3>3. call' = [call EXCEPT ![p] = c]
        BY <2>1, <2>3, TypeParts
      <3>4. c \in CallType /\ c.at = "logout" /\ c.id = call[p].id /\ c.file = f
        BY <3>2 DEF CallType, Place
      <3> HIDE DEF c
      <3>5. QED
        BY <1>2, <2>1, <2>3, <3>1, <3>3, <3>4, TypeParts DEF Discard
    <2>4. QED
      BY <2>2, <2>3
  <1>3. QED
    BY <1>1, <1>2

LEMMA LogoutFacts ==
    ASSUME TypeOK, RowsAreOpen, InHand, NEW p \in Proc, DiscardLogout(p)
    PROVE  /\ At(p, "logout") /\ UNCHANGED <<journal, published, db, lock, faults, history>>
           /\ Moved(p, "removeDb") /\ call[p].file \in 1..MaxFile
           /\ files' \in [1..MaxFile -> FileType]
           /\ files'[call[p].file].cred = FALSE
           /\ \A f \in 1..MaxFile :
                 /\ f # call[p].file => files'[f].cred = files[f].cred
                 /\ files'[f].lease = IF files[f].lease.owner = p THEN NoLease
                                      ELSE files[f].lease
  <1> DEFINE n == call[p].file
  <1>1. n \in 1..MaxFile
    BY TypeParts, CallFields, Constants DEF InHand, DiscardLogout, At, Claimed
  <1>2. "removeDb" \in Place
    BY DEF Place
  <1>3. Moved(p, "removeDb")
    BY <1>2, GotoFacts DEF DiscardLogout, Moved
  <1> DEFINE R == Released(p)
             s == [R[n] EXCEPT !.cred = FALSE]
  <1>4. /\ R \in [1..MaxFile -> FileType]
        /\ \A f \in 1..MaxFile :
              /\ R[f].cred = files[f].cred
              /\ R[f].lease = IF files[f].lease.owner = p THEN NoLease ELSE files[f].lease
    BY ReleasedFacts
  <1>5. files' = [R EXCEPT ![n] = s]
    BY DEF DiscardLogout, LoggedOut
  <1> HIDE DEF R
  <1>6. s \in FileType /\ s.lease = R[n].lease /\ s.cred = FALSE
    BY <1>1, <1>4, FileFields
  <1> HIDE DEF s, n
  <1>7. /\ files' \in [1..MaxFile -> FileType] /\ files'[n].cred = FALSE
        /\ files'[n].lease = R[n].lease
        /\ \A f \in 1..MaxFile \ {n} : files'[f] = R[f]
    BY <1>1, <1>4, <1>5, <1>6
  <1>8. QED
    BY <1>1, <1>3, <1>4, <1>7 DEF DiscardLogout, n

LEMMA RemoveFacts ==
    ASSUME TypeOK, NEW p \in Proc, RemoveDatabase(p)
    PROVE  /\ At(p, "removeDb") /\ db' = 0 /\ Moved(p, "removeJournal")
           /\ UNCHANGED <<journal, published, files, lock, faults, history>>
  <1>1. "removeJournal" \in Place
    BY DEF Place
  <1>2. QED
    BY <1>1, GotoFacts DEF RemoveDatabase, Moved

LEMMA ForgetFacts ==
    ASSUME TypeOK, NEW p \in Proc, RemoveJournal(p)
    PROVE  /\ At(p, "removeJournal") /\ journal' = NoJournal /\ lock' = NoOwner /\ Ended(p)
           /\ discarded' \subseteq (discarded \union {journal.id}) \ {0}
           /\ UNCHANGED <<published, db, files, faults, stalled, overrun>>
  BY TypeParts, DoneFacts, Constants DEF RemoveJournal, Ended

LEMMA FaultFacts ==
    ASSUME TypeOK, RowsAreOpen, NEW p \in Proc
    PROVE  /\ LogoutFails(p) =>
                /\ (At(p, "cleanup") /\ lock = NoOwner) \/ At(p, "logout")
                /\ Ended(p) /\ RowsReleased(p) /\ lock' = NoOwner
                /\ faults' \in 0..MaxFaults /\ UNCHANGED <<journal, published, db, history>>
           /\ Crash(p) =>
                /\ Ended(p) /\ lock' = (IF lock = p THEN NoOwner ELSE lock)
                /\ files' \in [1..MaxFile -> FileType]
                /\ \A f \in 1..MaxFile :
                      /\ files'[f].cred = files[f].cred
                      /\ files[f].lease.owner = p => files'[f].lease.owner = Dead
                      /\ files[f].lease.owner # p => files'[f].lease = files[f].lease
                /\ faults' \in 0..MaxFaults /\ UNCHANGED <<journal, published, db, history>>
  <1>1. Fault => faults' \in 0..MaxFaults
    BY TypeParts, Constants DEF Fault
  <1>2. ASSUME Crash(p)
        PROVE  /\ files' \in [1..MaxFile -> FileType]
               /\ \A f \in 1..MaxFile :
                      /\ files'[f].cred = files[f].cred
                      /\ files[f].lease.owner = p => files'[f].lease.owner = Dead
                      /\ files[f].lease.owner # p => files'[f].lease = files[f].lease
    <2> DEFINE s(f) == [files[f] EXCEPT !.lease = [files[f].lease EXCEPT !.owner = Dead]]
    <2>1. files' = [f \in 1..MaxFile |-> IF files[f].lease.owner = p THEN s(f) ELSE files[f]]
      BY <1>2 DEF Crash
    <2>2. \A f \in 1..MaxFile : s(f) \in FileType /\ s(f).lease.owner = Dead
                                /\ s(f).cred = files[f].cred
      <3> TAKE f \in 1..MaxFile
      <3>1. files[f] \in FileType /\ files[f].lease \in LeaseRow(Proc \union {Dead})
        BY TypeParts, FileFields
      <3>2. /\ [files[f].lease EXCEPT !.owner = Dead] \in LeaseRow(Proc \union {Dead})
            /\ [files[f].lease EXCEPT !.owner = Dead].owner = Dead
        BY <3>1, RowFacts
      <3> DEFINE l == [files[f].lease EXCEPT !.owner = Dead]
      <3> HIDE DEF l
      <3>3. [files[f] EXCEPT !.lease = l] \in FileType /\ [files[f] EXCEPT !.lease = l].lease = l
            /\ [files[f] EXCEPT !.lease = l].cred = files[f].cred
        BY <3>1, <3>2, FileFields DEF l
      <3>4. QED
        BY <3>2, <3>3 DEF l
    <2> HIDE DEF s
    <2>3. QED
      BY <2>1, <2>2, TypeParts
  <1>3. QED
    BY <1>1, <1>2, DoneFacts, ReturnEnds DEF LogoutFails, Crash, Ended

\* Time takes from one row: of a crashed process, or of one that stalls.
LEMMA TimeFacts ==
    ASSUME TypeOK, Lapse \/ Stall
    PROVE  /\ files' \in [1..MaxFile -> FileType]
           /\ \A f \in 1..MaxFile :
                 /\ files'[f].cred = files[f].cred
                 /\ files'[f].lease.owner = files[f].lease.owner
                 /\ files'[f].lease.gen = files[f].lease.gen
                 /\ files'[f].lease.left > 0 => files[f].lease.left > 0
                 /\ ~stalled' /\ files[f].lease.owner \in Proc => files'[f].lease = files[f].lease
           /\ stalled => stalled'
           /\ faults' \in 0..MaxFaults /\ stalled' \in BOOLEAN
           /\ UNCHANGED <<journal, published, db, lock, call, overrun, discarded>>
  <1>1. PICK f \in 1..MaxFile : files' = [files EXCEPT ![f].lease = Elapse(@)]
                              /\ (Lapse => files[f].lease.owner = Dead)
    BY DEF Lapse, Stall
  <1> DEFINE s == [files[f] EXCEPT !.lease = Elapse(files[f].lease)]
  <1>2. files[f] \in FileType /\ files[f].lease \in LeaseRow(Proc \union {Dead})
    BY TypeParts, FileFields
  <1>3. /\ Elapse(files[f].lease) \in LeaseRow(Proc \union {Dead})
        /\ Elapse(files[f].lease).owner = files[f].lease.owner
        /\ Elapse(files[f].lease).gen = files[f].lease.gen
        /\ Elapse(files[f].lease).left > 0 => files[f].lease.left > 0
    <2>1. Dead \in Proc \union {Dead}
      OBVIOUS
    <2>2. QED
      BY <1>2, Constants DEF LeaseRow, Elapse
  <1>4. s \in FileType /\ s.lease = Elapse(files[f].lease) /\ s.cred = files[f].cred
    BY <1>2, <1>3, FileFields
  <1>5. files' = [files EXCEPT ![f] = s]
    BY <1>1
  <1> HIDE DEF s
  <1>6. /\ files' \in [1..MaxFile -> FileType]
        /\ files'[f].cred = files[f].cred
        /\ files'[f].lease = Elapse(files[f].lease)
        /\ \A g \in 1..MaxFile \ {f} : files'[g] = files[g]
    BY <1>4, <1>5, TypeParts
  <1>7. /\ stalled => stalled'
        /\ ~stalled' => Lapse
        /\ faults' \in 0..MaxFaults /\ stalled' \in BOOLEAN
        /\ UNCHANGED <<journal, published, db, lock, call, overrun, discarded>>
    <2>1. CASE Lapse
      BY <2>1, TypeParts DEF Lapse, history
    <2>2. CASE Stall
      BY <2>2, TypeParts, Constants DEF Stall, Fault
    <2>3. QED
      BY <2>1, <2>2
  <1>8. QED
    BY <1>1, <1>3, <1>6, <1>7, Constants

-----------------------------------------------------------------------------
(* Every step keeps the types and what an invocation has in hand.          *)

LEMMA NextTypes ==
    ASSUME journal' \in JournalType, published' \in BOOLEAN, db' \in 0..MaxFile,
           files' \in [1..MaxFile -> FileType], lock' \in Proc \union {NoOwner},
           call' \in [Proc -> CallType], faults' \in 0..MaxFaults,
           stalled' \in BOOLEAN, overrun' \in BOOLEAN, discarded' \subseteq 1..MaxId
    PROVE  TypeOK'
  BY DEF TypeOK, JournalType, FileType, CallType, Place, Op

LEMMA NoJournalType == NoJournal \in JournalType /\ NoJournal.id = 0
  BY Constants DEF NoJournal, JournalType

LEMMA TypeOKStep ==
    ASSUME TypeOK, InHand, RowsAreOpen, [Next]_vars
    PROVE  TypeOK'
  <1>0. /\ journal \in JournalType /\ published \in BOOLEAN /\ db \in 0..MaxFile
        /\ files \in [1..MaxFile -> FileType] /\ lock \in Proc \union {NoOwner}
        /\ call \in [Proc -> CallType] /\ faults \in 0..MaxFaults
        /\ stalled \in BOOLEAN /\ overrun \in BOOLEAN /\ discarded \subseteq 1..MaxId
        /\ NoJournal \in JournalType /\ 1..MaxFile \subseteq 0..MaxFile /\ 0 \in 0..MaxFile
    BY TypeParts, NoJournalType, Constants
  <1>1. ASSUME NEW p \in Proc, Create(p) \/ Finish(p) PROVE TypeOK'
    BY <1>0, <1>1, StartFacts, NextTypes DEF Moved, others, history
  <1>2. ASSUME NEW p \in Proc, Reserve(p) PROVE TypeOK'
    BY <1>0, <1>2, ReserveFacts, NextTypes DEF Ended, history
  <1>3. ASSUME NEW p \in Proc, Recover(p) PROVE TypeOK'
    BY <1>0, <1>3, RecoverFacts, NextTypes DEF others, history
  <1>4. ASSUME NEW p \in Proc, OpenClaimed(p) PROVE TypeOK'
    <2>1. /\ call' \in [Proc -> CallType] /\ files' \in [1..MaxFile -> FileType]
          /\ db' \in 0..MaxFile
      BY <1>0, <1>4, OpenFacts DEF Ended, RowClaimed
    <2>2. QED
      BY <1>0, <1>4, <2>1, OpenFacts, NextTypes DEF history
  <1>5. ASSUME NEW p \in Proc, Authorize(p) PROVE TypeOK'
    BY <1>0, <1>5, AuthorizeFacts, NextTypes DEF Moved, history
  <1>6. ASSUME NEW p \in Proc, Save(p) PROVE TypeOK'
    <2>1. CASE Saved(p)
      <3>1. overrun' \in BOOLEAN
        BY <2>1 DEF Saved
      <3>2. QED
        BY <1>0, <1>6, <2>1, <3>1, SaveFacts, NextTypes DEF Saved, Moved
    <2>2. CASE Ended(p) /\ RowsReleased(p) /\ UNCHANGED <<journal, overrun>>
      BY <1>0, <1>6, <2>2, SaveFacts, NextTypes DEF Ended, RowsReleased
    <2>3. QED
      BY <1>0, <1>6, <2>1, <2>2, SaveFacts
  <1>7. ASSUME NEW p \in Proc, Prepare(p) \/ Gate(p) PROVE TypeOK'
    BY <1>0, <1>7, PrepareFacts, GateFacts, NextTypes DEF Moved, Ended, RowsReleased, history
  <1>8. ASSUME NEW p \in Proc, Publish(p) PROVE TypeOK'
    BY <1>0, <1>8, PublishFacts, NextTypes DEF Moved, Ended, RowsReleased, history
  <1>9. ASSUME NEW p \in Proc, Confirm(p) \/ Retire(p) PROVE TypeOK'
    BY <1>0, <1>9, ConfirmFacts, NextTypes DEF Ended, RowsReleased, history
  <1>10. ASSUME NEW p \in Proc, Reconcile(p) PROVE TypeOK'
    BY <1>0, <1>10, ReconcileFacts, NextTypes DEF Moved, Ended, RowsReleased, history
  <1>11. ASSUME NEW p \in Proc, Cleanup(p) PROVE TypeOK'
    <2>1. overrun' \in BOOLEAN
      BY <1>0, <1>11, CleanupFacts
    <2>2. QED
      BY <1>0, <1>11, <2>1, CleanupFacts, NextTypes DEF Moved, Ended, RowsReleased
  <1>12. ASSUME NEW p \in Proc, Discard(p) PROVE TypeOK'
    <2>1. /\ call' \in [Proc -> CallType] /\ files' \in [1..MaxFile -> FileType]
          /\ db' \in 0..MaxFile
      BY <1>0, <1>12, DiscardFacts DEF Ended, RowClaimed
    <2>2. QED
      BY <1>0, <1>12, <2>1, DiscardFacts, NextTypes DEF history
  <1>13. ASSUME NEW p \in Proc, DiscardLogout(p) PROVE TypeOK'
    BY <1>0, <1>13, LogoutFacts, NextTypes DEF Moved, history
  <1>14. ASSUME NEW p \in Proc, RemoveDatabase(p) PROVE TypeOK'
    BY <1>0, <1>14, RemoveFacts, NextTypes DEF Moved, history
  <1>15. ASSUME NEW p \in Proc, RemoveJournal(p) PROVE TypeOK'
    <2>1. journal.id \in 0..MaxId
      BY <1>0 DEF JournalType
    <2>2. discarded' \subseteq 1..MaxId
      <3>1. discarded' \subseteq (discarded \union {journal.id}) \ {0}
        BY <1>15, ForgetFacts
      <3>2. \A i \in 0..MaxId : i # 0 => i \in 1..MaxId
        BY Constants
      <3>3. QED
        BY <1>0, <2>1, <3>1, <3>2
    <2>3. QED
      BY <1>0, <1>15, <2>2, ForgetFacts, NextTypes DEF Ended
  <1>16. ASSUME NEW p \in Proc, LogoutFails(p) \/ Crash(p) PROVE TypeOK'
    <2>1. lock' \in Proc \union {NoOwner}
      BY <1>0, <1>16, FaultFacts
    <2>2. QED
      BY <1>0, <1>16, <2>1, FaultFacts, NextTypes DEF Ended, RowsReleased, history
  <1>17. CASE Lapse \/ Stall
    BY <1>0, <1>17, TimeFacts, NextTypes
  <1>18. CASE UNCHANGED vars
    BY <1>0, <1>18, NextTypes DEF vars, history
  <1>19. QED
    BY <1>1, <1>2, <1>3, <1>4, <1>5, <1>6, <1>7, <1>8, <1>9, <1>10, <1>11, <1>12, <1>13,
       <1>14, <1>15, <1>16, <1>17, <1>18 DEF Next, Step

\* InHand for one invocation, as what its call and the profile must satisfy.
Handy(c, there) ==
    /\ c.at \in Sessionless => c.file = 0
    /\ c.at \in Claimed \union {"logout"} => c.file # 0
    /\ c.at \notin {"idle", "reserve"} => c.id # 0
    /\ c.at \in {"confirm", "winner", "retire"} => there

LEMMA HandyStep ==
    ASSUME \A q \in Proc : Handy(call[q], published), NEW p \in Proc,
           \A q \in Proc \ {p} : call'[q] = call[q],
           published => published',
           Handy(call'[p], published'),
           journal' # NoJournal => journal'.id # 0
    PROVE  InHand'
  BY DEF InHand, Handy, Claimed, Sessionless

LEMMA InHandStep ==
    ASSUME TypeOK, InHand, RowsAreOpen, [Next]_vars
    PROVE  InHand'
  <1>0. /\ \A q \in Proc : Handy(call[q], published)
        /\ journal # NoJournal => journal.id # 0
        /\ NoJournal.id = 0
    BY NoJournalType DEF InHand, Handy
  <1> USE DEF Handy, Claimed, Sessionless, At
  <1>1. ASSUME NEW p \in Proc, Create(p) \/ Finish(p) PROVE InHand'
    BY <1>0, <1>1, StartFacts, HandyStep DEF Moved, others, history
  <1>2. ASSUME NEW p \in Proc, Reserve(p) PROVE InHand'
    BY <1>0, <1>2, ReserveFacts, HandyStep DEF Ended, history
  <1>3. ASSUME NEW p \in Proc, Recover(p) PROVE InHand'
    BY <1>0, <1>3, RecoverFacts, HandyStep DEF others, history
  <1>4. ASSUME NEW p \in Proc, OpenClaimed(p) PROVE InHand'
    <2>1. \A f \in 1..MaxFile : f # 0
      BY Constants
    <2>2. QED
      BY <1>0, <1>4, <2>1, OpenFacts, HandyStep DEF Ended, history
  <1>5. ASSUME NEW p \in Proc, Authorize(p) PROVE InHand'
    BY <1>0, <1>5, AuthorizeFacts, HandyStep DEF Moved, history
  <1>6. ASSUME NEW p \in Proc, Save(p) PROVE InHand'
    BY <1>0, <1>6, SaveFacts, HandyStep DEF Saved, Moved, Ended
  <1>7. ASSUME NEW p \in Proc, Prepare(p) \/ Gate(p) PROVE InHand'
    BY <1>0, <1>7, PrepareFacts, GateFacts, HandyStep DEF Moved, Ended, history
  <1>8. ASSUME NEW p \in Proc, Publish(p) PROVE InHand'
    <2>1. /\ \A q \in Proc \ {p} : call'[q] = call[q]
          /\ published => published'
          /\ UNCHANGED journal
      BY <1>8, PublishFacts DEF Moved, Ended, history
    <2>2. Handy(call'[p], published')
      <3>1. CASE Ended(p)
        BY <3>1 DEF Ended
      <3>2. call[p].id # 0
        BY <1>0, <1>8, PublishFacts
      <3>3. CASE published' /\ (Moved(p, "winner") \/ Moved(p, "confirm"))
        BY <3>2, <3>3 DEF Moved
      <3>4. QED
        BY <1>8, <2>1, <3>1, <3>3, PublishFacts
    <2>3. QED
      BY <1>0, <2>1, <2>2, HandyStep
  <1>9. ASSUME NEW p \in Proc, Confirm(p) \/ Retire(p) PROVE InHand'
    BY <1>0, <1>9, ConfirmFacts, HandyStep DEF Ended, history
  <1>10. ASSUME NEW p \in Proc, Reconcile(p) PROVE InHand'
    <2>1. /\ \A q \in Proc \ {p} : call'[q] = call[q]
          /\ published => published'
          /\ UNCHANGED journal
      BY <1>10, ReconcileFacts DEF Moved, Ended, history
    <2>2. Handy(call'[p], published')
      <3>1. CASE Ended(p)
        BY <3>1 DEF Ended
      <3>2. call[p].id # 0 /\ published
        BY <1>0, <1>10, ReconcileFacts
      <3>3. CASE published' /\ Moved(p, "retire")
        BY <3>2, <3>3 DEF Moved
      <3>4. QED
        BY <1>10, <2>1, <3>1, <3>2, <3>3, ReconcileFacts
    <2>3. QED
      BY <1>0, <2>1, <2>2, HandyStep
  <1>11. ASSUME NEW p \in Proc, Cleanup(p) PROVE InHand'
    BY <1>0, <1>11, CleanupFacts, HandyStep DEF Moved, Ended
  <1>12. ASSUME NEW p \in Proc, Discard(p) PROVE InHand'
    <2>1. \A f \in 1..MaxFile : f # 0
      BY Constants
    <2>2. QED
      BY <1>0, <1>12, <2>1, DiscardFacts, HandyStep DEF Ended, history
  <1>13. ASSUME NEW p \in Proc, DiscardLogout(p) \/ RemoveDatabase(p) PROVE InHand'
    <2>1. /\ \A q \in Proc \ {p} : call'[q] = call[q]
          /\ published => published'
          /\ UNCHANGED journal
      BY <1>13, LogoutFacts, RemoveFacts DEF Moved, history
    <2>2. Handy(call'[p], published')
      BY <1>0, <1>13, LogoutFacts, RemoveFacts DEF Moved, history
    <2>3. QED
      BY <1>0, <2>1, <2>2, HandyStep
  <1>14. ASSUME NEW p \in Proc, RemoveJournal(p) PROVE InHand'
    BY <1>0, <1>14, ForgetFacts, HandyStep DEF Ended
  <1>15. ASSUME NEW p \in Proc, LogoutFails(p) \/ Crash(p) PROVE InHand'
    BY <1>0, <1>15, FaultFacts, HandyStep DEF Ended, history
  <1>16. CASE UNCHANGED <<journal, published, call>>
    BY <1>0, <1>16 DEF InHand
  <1>17. CASE Lapse \/ Stall
    BY <1>16, <1>17, TimeFacts
  <1>18. QED
    BY <1>1, <1>2, <1>3, <1>4, <1>5, <1>6, <1>7, <1>8, <1>9, <1>10, <1>11, <1>12, <1>13,
       <1>14, <1>15, <1>16, <1>17 DEF Next, Step, vars

\* Every step enters and leaves a section with the lock.
LEMMA LockingStep ==
    ASSUME TypeOK, InHand, RowsAreOpen, Locking, [Next]_vars
    PROVE  Locking'
  <1>0. \A q \in Proc : q # NoOwner /\ (lock = q <=> call[q].at \in InSection)
    BY Constants DEF Locking
  <1>a. ASSUME NEW p \in Proc, \A q \in Proc \ {p} : call'[q] = call[q],
               \/ lock' = lock /\ (call'[p].at \in InSection <=> call[p].at \in InSection)
               \/ lock = NoOwner /\ lock' = p /\ call'[p].at \in InSection
               \/ lock \in {p, NoOwner} /\ lock' = NoOwner /\ call'[p].at \notin InSection
        PROVE  Locking'
    BY <1>0, <1>a DEF Locking
  <1> USE DEF InSection, Removing, At
  <1>1. ASSUME NEW p \in Proc, Create(p) \/ Finish(p) PROVE Locking'
    BY <1>a, <1>1, StartFacts DEF Moved, others
  <1>2. ASSUME NEW p \in Proc, Reserve(p) PROVE Locking'
    BY <1>a, <1>2, ReserveFacts DEF Ended
  <1>3. ASSUME NEW p \in Proc, Recover(p) PROVE Locking'
    BY <1>a, <1>3, RecoverFacts DEF others
  <1>4. ASSUME NEW p \in Proc, OpenClaimed(p) PROVE Locking'
    BY <1>a, <1>4, OpenFacts DEF Ended
  <1>5. ASSUME NEW p \in Proc, Authorize(p) PROVE Locking'
    BY <1>a, <1>5, AuthorizeFacts DEF Moved
  <1>6. ASSUME NEW p \in Proc, Save(p) PROVE Locking'
    BY <1>a, <1>6, SaveFacts DEF Saved, Moved, Ended
  <1>7. ASSUME NEW p \in Proc, Prepare(p) \/ Gate(p) PROVE Locking'
    BY <1>a, <1>7, PrepareFacts, GateFacts DEF Moved, Ended
  <1>8. ASSUME NEW p \in Proc, Publish(p) PROVE Locking'
    BY <1>a, <1>8, PublishFacts DEF Moved, Ended
  <1>9. ASSUME NEW p \in Proc, Confirm(p) \/ Retire(p) PROVE Locking'
    BY <1>0, <1>a, <1>9, ConfirmFacts DEF Ended
  <1>10. ASSUME NEW p \in Proc, Reconcile(p) PROVE Locking'
    BY <1>a, <1>10, ReconcileFacts DEF Moved, Ended
  <1>11. ASSUME NEW p \in Proc, Cleanup(p) PROVE Locking'
    BY <1>a, <1>11, CleanupFacts DEF Moved, Ended
  <1>12. ASSUME NEW p \in Proc, Discard(p) PROVE Locking'
    BY <1>a, <1>12, DiscardFacts DEF Ended
  <1>13. ASSUME NEW p \in Proc, DiscardLogout(p) \/ RemoveDatabase(p) PROVE Locking'
    BY <1>a, <1>13, LogoutFacts, RemoveFacts DEF Moved
  <1>14. ASSUME NEW p \in Proc, RemoveJournal(p) PROVE Locking'
    BY <1>0, <1>a, <1>14, ForgetFacts DEF Ended
  <1>15. ASSUME NEW p \in Proc, LogoutFails(p) \/ Crash(p) PROVE Locking'
    BY <1>0, <1>a, <1>15, FaultFacts DEF Ended
  <1>16. CASE UNCHANGED <<lock, call>>
    BY <1>0, <1>16 DEF Locking
  <1>17. CASE Lapse \/ Stall
    BY <1>16, <1>17, TimeFacts
  <1>18. QED
    BY <1>1, <1>2, <1>3, <1>4, <1>5, <1>6, <1>7, <1>8, <1>9, <1>10, <1>11, <1>12, <1>13,
       <1>14, <1>15, <1>16, <1>17 DEF Next, Step, vars

\* A step of p keeps the rows of the others, and what a discard under the lock
\* relies on.
LEMMA RowsStep ==
    ASSUME InHand, Locking, RowsAreOpen, NEW p \in Proc, db \in 0..MaxFile,
           \A q \in Proc \ {p} : call'[q] = call[q],
           \A f \in 1..MaxFile :
              /\ files'[f].lease.owner \in {files[f].lease.owner, p, NoOwner, Dead}
              /\ files'[f].lease.owner = p =>
                    /\ call'[p].file = f
                    /\ call'[p].at \notin {"removeDb", "removeJournal"},
           \/ lock \in {NoOwner, p}
           \/ db # 0 => /\ db' = db
                        /\ \A f \in 1..MaxFile : files[f].lease.owner # p =>
                              files'[f].lease.owner = files[f].lease.owner,
           call'[p].at = "logout" => call'[p].file = db' /\ files'[db'].lease.owner = p
    PROVE  RowsAreOpen'
  <1>1. ASSUME NEW f \in 1..MaxFile, NEW q \in Proc, files'[f].lease.owner = q
        PROVE  call'[q].file = f /\ call'[q].at \notin {"removeDb", "removeJournal"}
    <2>1. q # NoOwner /\ q # Dead
      BY Constants
    <2>2. CASE q = p
      BY <1>1, <2>2
    <2>3. CASE q # p
      <3>1. files[f].lease.owner = q
        BY <1>1, <2>1, <2>3
      <3>2. QED
        BY <2>3, <3>1 DEF RowsAreOpen
    <2>4. QED
      BY <2>2, <2>3
  <1>2. ASSUME NEW q \in Proc, call'[q].at = "logout"
        PROVE  call'[q].file = db' /\ files'[db'].lease.owner = q
    <2>1. CASE q = p
      BY <1>2, <2>1
    <2>2. CASE q # p
      <3>1. call'[q] = call[q] /\ call[q].at = "logout"
        BY <1>2, <2>2
      <3>2. lock = q /\ q # NoOwner
        BY <3>1, Constants DEF Locking, InSection, Removing
      <3>3. call[q].file = db /\ files[db].lease.owner = q /\ db # 0
        BY <3>1 DEF RowsAreOpen, At, InHand
      <3>4. db \in 1..MaxFile
        BY <3>3, Constants
      <3>5. QED
        BY <2>2, <3>1, <3>2, <3>3, <3>4
    <2>3. QED
      BY <2>1, <2>2
  <1>3. QED
    BY <1>1, <1>2 DEF RowsAreOpen, At

LEMMA RowsAreOpenStep ==
    ASSUME TypeOK, InHand, Locking, RowsAreOpen, [Next]_vars
    PROVE  RowsAreOpen'
  <1>0. /\ db \in 0..MaxFile /\ NoLease.owner = NoOwner
        /\ \A p \in Proc : p # NoOwner /\ p # Dead
        /\ \A f \in 1..MaxFile, p \in Proc : files[f].lease.owner = p => call[p].file = f
    BY TypeParts, Constants DEF NoLease, RowsAreOpen
  <1>a. ASSUME NEW p \in Proc, Ended(p), RowsReleased(p), UNCHANGED db
        PROVE  RowsAreOpen'
    <2>1. \A f \in 1..MaxFile :
             /\ files'[f].lease.owner = IF files[f].lease.owner = p THEN NoOwner
                                        ELSE files[f].lease.owner
      BY <1>0, <1>a DEF RowsReleased
    <2>2. call'[p].at = "idle" /\ \A q \in Proc \ {p} : call'[q] = call[q]
      BY <1>a DEF Ended
    <2>3. QED
      BY <1>0, <1>a, <2>1, <2>2, RowsStep
  <1>b. ASSUME NEW p \in Proc, UNCHANGED <<db, files>>,
               \A q \in Proc \ {p} : call'[q] = call[q],
               call'[p].at \notin {"logout", "removeDb", "removeJournal"},
               call'[p].file = call[p].file \/ call[p].file = 0
        PROVE  RowsAreOpen'
    <2>1. \A f \in 1..MaxFile : files[f].lease.owner = p => call'[p].file = f
      BY <1>0, <1>b, Constants
    <2>2. QED
      BY <1>0, <1>b, <2>1, RowsStep
  <1>c. ASSUME NEW p \in Proc, NEW f \in 1..MaxFile, RowClaimed(p, f), lock = NoOwner,
               call[p].file = 0, call'[p].file = f,
               call'[p].at \notin {"removeDb", "removeJournal"},
               \A q \in Proc \ {p} : call'[q] = call[q]
        PROVE  RowsAreOpen'
    <2>1. \A g \in 1..MaxFile : files[g].lease.owner # p
      BY <1>0, <1>c, Constants
    <2>2. /\ db' = f /\ files'[f].lease.owner = p
          /\ \A g \in 1..MaxFile \ {f} : files'[g].lease.owner = files[g].lease.owner
      BY <1>c DEF RowClaimed
    <2>3. \A g \in 1..MaxFile :
              /\ files'[g].lease.owner \in {files[g].lease.owner, p, NoOwner, Dead}
              /\ files'[g].lease.owner = p => call'[p].file = g
      BY <2>1, <2>2, <1>c
    <2>4. QED
      BY <1>0, <1>c, <2>2, <2>3, RowsStep
  <1>d. \A p \in Proc : call[p].at \in Sessionless => call[p].file = 0
    BY DEF InHand
  <1> USE DEF At, Sessionless
  <1>1. ASSUME NEW p \in Proc, Create(p) \/ Finish(p) PROVE RowsAreOpen'
    BY <1>b, <1>1, StartFacts DEF Moved, others
  <1>2. ASSUME NEW p \in Proc, Reserve(p) PROVE RowsAreOpen'
    BY <1>b, <1>d, <1>2, ReserveFacts DEF Ended
  <1>3. ASSUME NEW p \in Proc, Recover(p) PROVE RowsAreOpen'
    BY <1>b, <1>d, <1>3, RecoverFacts DEF others
  <1>4. ASSUME NEW p \in Proc, OpenClaimed(p) PROVE RowsAreOpen'
    <2>1. CASE Ended(p) /\ UNCHANGED <<db, files>>
      BY <1>b, <1>d, <1>4, <2>1, OpenFacts DEF Ended
    <2>2. CASE ~(Ended(p) /\ UNCHANGED <<db, files>>)
      BY <1>c, <1>d, <1>4, <2>2, OpenFacts
    <2>3. QED
      BY <2>1, <2>2
  <1>5. ASSUME NEW p \in Proc, Authorize(p) PROVE RowsAreOpen'
    <2>1. \A f \in 1..MaxFile : files'[f].lease = files[f].lease
      BY <1>5, AuthorizeFacts
    <2>2. /\ call'[p].file = call[p].file /\ db' = db
          /\ call'[p].at \notin {"logout", "removeDb", "removeJournal"}
          /\ \A q \in Proc \ {p} : call'[q] = call[q]
      BY <1>5, AuthorizeFacts DEF Moved
    <2>3. QED
      BY <1>0, <2>1, <2>2, RowsStep
  <1>6. ASSUME NEW p \in Proc, Save(p) PROVE RowsAreOpen'
    BY <1>a, <1>b, <1>6, SaveFacts DEF Saved, Moved
  <1>7. ASSUME NEW p \in Proc, Prepare(p) \/ Gate(p) PROVE RowsAreOpen'
    BY <1>a, <1>b, <1>7, PrepareFacts, GateFacts DEF Moved
  <1>8. ASSUME NEW p \in Proc, Publish(p) PROVE RowsAreOpen'
    BY <1>a, <1>b, <1>8, PublishFacts DEF Moved
  <1>9. ASSUME NEW p \in Proc, Confirm(p) \/ Retire(p) PROVE RowsAreOpen'
    BY <1>a, <1>9, ConfirmFacts
  <1>10. ASSUME NEW p \in Proc, Reconcile(p) PROVE RowsAreOpen'
    <2>1. CASE Moved(p, "retire") /\ UNCHANGED <<db, files>>
      BY <1>b, <2>1 DEF Moved
    <2>2. CASE Ended(p) /\ RowsReleased(p) /\ UNCHANGED db
      BY <1>a, <2>2
    <2>3. CASE /\ db = 0 /\ Ended(p) /\ db' \in 1..MaxFile
               /\ files'[db'].lease = NoLease
               /\ \A f \in 1..MaxFile \ {db'} :
                     files'[f].lease = IF files[f].lease.owner = p THEN NoLease
                                       ELSE files[f].lease
      <3>1. \A f \in 1..MaxFile :
               files'[f].lease.owner \in {files[f].lease.owner, NoOwner} \ {p}
        BY <1>0, <2>3
      <3>2. QED
        BY <1>0, <2>3, <3>1, RowsStep DEF Ended
    <2>4. QED
      BY <1>10, <2>1, <2>2, <2>3, ReconcileFacts
  <1>11. ASSUME NEW p \in Proc, Cleanup(p) PROVE RowsAreOpen'
    <2>1. CASE Ended(p)
      BY <1>a, <1>11, <2>1, CleanupFacts
    <2>2. CASE Moved(p, "removeDb")
      <3>1. \A f \in 1..MaxFile :
               files'[f].lease.owner \in {files[f].lease.owner, NoOwner} \ {p}
        BY <1>0, <1>11, CleanupFacts DEF RowsReleased
      <3>2. QED
        BY <1>0, <1>11, <2>2, <3>1, CleanupFacts, RowsStep DEF Moved
    <2>3. QED
      BY <1>11, <2>1, <2>2, CleanupFacts
  <1>12. ASSUME NEW p \in Proc, Discard(p) PROVE RowsAreOpen'
    <2>1. CASE Ended(p) /\ UNCHANGED <<db, files>>
      BY <1>b, <1>d, <1>12, <2>1, DiscardFacts DEF Ended
    <2>2. CASE ~(Ended(p) /\ UNCHANGED <<db, files>>)
      BY <1>c, <1>d, <1>12, <2>2, DiscardFacts
    <2>3. QED
      BY <2>1, <2>2
  <1>13. ASSUME NEW p \in Proc, DiscardLogout(p) PROVE RowsAreOpen'
    <2>1. \A f \in 1..MaxFile :
             files'[f].lease.owner \in {files[f].lease.owner, NoOwner} \ {p}
      <3>1. \A f \in 1..MaxFile : files'[f].lease = IF files[f].lease.owner = p THEN NoLease
                                                     ELSE files[f].lease
        BY <1>13, LogoutFacts
      <3>2. QED
        BY <1>0, <3>1
    <2>2. lock = p
      BY <1>13, LogoutFacts DEF Locking, InSection, Removing
    <2>3. QED
      <3>1. db' = db /\ Moved(p, "removeDb")
        BY <1>13, LogoutFacts
      <3>2. QED
        BY <1>0, <2>1, <2>2, <3>1, RowsStep DEF Moved
  <1>14. ASSUME NEW p \in Proc, RemoveDatabase(p) PROVE RowsAreOpen'
    <2>1. lock = p /\ \A f \in 1..MaxFile : files[f].lease.owner # p
      BY <1>14, RemoveFacts DEF Locking, InSection, Removing, RowsAreOpen
    <2>2. QED
      BY <1>0, <1>14, <2>1, RemoveFacts, RowsStep DEF Moved
  <1>15. ASSUME NEW p \in Proc, RemoveJournal(p) PROVE RowsAreOpen'
    <2>1. \A f \in 1..MaxFile : files[f].lease.owner # p
      BY <1>15, ForgetFacts DEF RowsAreOpen
    <2>2. QED
      BY <1>0, <1>15, <2>1, ForgetFacts, RowsStep DEF Ended
  <1>16. ASSUME NEW p \in Proc, LogoutFails(p) PROVE RowsAreOpen'
    BY <1>a, <1>16, FaultFacts
  <1>17. ASSUME NEW p \in Proc, Crash(p) PROVE RowsAreOpen'
    <2>1. \A f \in 1..MaxFile :
             /\ files'[f].lease.owner \in {files[f].lease.owner, Dead} \ {p}
             /\ files[f].lease.owner # p => files'[f].lease.owner = files[f].lease.owner
      BY <1>0, <1>17, FaultFacts
    <2>2. QED
      BY <1>0, <1>17, <2>1, FaultFacts, RowsStep DEF Ended
  <1>18. ASSUME \A f \in 1..MaxFile : files'[f].lease.owner = files[f].lease.owner,
                UNCHANGED <<db, call>>
         PROVE  RowsAreOpen'
    <2>1. \A p \in Proc : At(p, "logout") => db \in 1..MaxFile
      BY <1>0, Constants DEF RowsAreOpen, InHand
    <2>2. QED
      BY <1>18, <2>1 DEF RowsAreOpen
  <1>19. CASE Lapse \/ Stall
    BY <1>18, <1>19, TimeFacts
  <1>20. CASE UNCHANGED vars
    BY <1>18, <1>20 DEF vars
  <1>21. QED
    BY <1>1, <1>2, <1>3, <1>4, <1>5, <1>6, <1>7, <1>8, <1>9, <1>10, <1>11, <1>12, <1>13,
       <1>14, <1>15, <1>16, <1>17, <1>19, <1>20 DEF Next, Step

-----------------------------------------------------------------------------
(* The lease fences what is saved, published and removed.                  *)

\* A step that gives q no row leaves it no more than it held.
LEMMA HoldersKept ==
    ASSUME TypeOK, InHand, NEW q \in Proc, call'[q] = call[q],
           \A f \in 1..MaxFile : files'[f].lease.owner = q =>
              files[f].lease.owner = q /\ files'[f].lease.gen = files[f].lease.gen
    PROVE  Holding(q)' => Holding(q) /\ files'[call[q].file].lease.owner = q
  <1>1. SUFFICES ASSUME Holding(q)'
                 PROVE  Holding(q) /\ files'[call[q].file].lease.owner = q
    OBVIOUS
  <1>2. call[q].at \in Claimed
    BY <1>1 DEF Holding
  <1>3. call[q].file \in 1..MaxFile
    BY <1>2, TypeParts, CallFields, Constants DEF InHand
  <1>4. files'[call[q].file].lease.owner = q /\ files'[call[q].file].lease.gen = call[q].gen
    BY <1>1 DEF Holding, Owns
  <1>5. QED
    BY <1>2, <1>3, <1>4 DEF Holding, Owns

\* What Holding means field by field.
LEMMA HoldingFacts ==
    ASSUME TypeOK, InHand, NEW q \in Proc
    PROVE  /\ call[q].at \in Claimed => call[q].file \in 1..MaxFile
           /\ Holding(q) <=> /\ call[q].at \in Claimed
                             /\ files[call[q].file].lease.owner = q
                             /\ files[call[q].file].lease.gen = call[q].gen
  BY TypeParts, CallFields, Constants DEF InHand, Holding, Owns

\* A step that gives other processes nothing, removes nothing and discards
\* nothing keeps the fence if it keeps it for the process that takes it.
LEMMA QuietStep ==
    ASSUME IInv, ~overrun, NEW p \in Proc,
           \A q \in Proc \ {p} : call'[q] = call[q],
           \A f \in 1..MaxFile, q \in Proc \ {p} :
              files'[f].lease.owner = q => files'[f].lease = files[f].lease,
           \A f \in 1..MaxFile : files[f].cred => files'[f].cred,
           UNCHANGED <<published, db, discarded>>, journal'.id \notin discarded,
           \/ lock \in {NoOwner, p}
           \/ \A f \in 1..MaxFile : files[f].lease.owner = NoOwner =>
                                       files'[f].lease.owner = NoOwner,
           Guarded(p)'
    PROVE  Fenced' /\ PublishedHasCredential'
  <1>1. TypeOK /\ InHand /\ Locking /\ PublishedHasCredential
        /\ \A q \in Proc : Guarded(q)
    BY DEF IInv, Fenced
  <1>2. db \in 0..MaxFile /\ \A q \in Proc : q # NoOwner
    BY <1>1, TypeParts, Constants
  <1>3. ASSUME NEW q \in Proc, q # p PROVE Guarded(q)'
    <2>1. call'[q] = call[q]
      BY <1>3
    <2>2. Holding(q)' => Holding(q)
      BY <1>1, <1>3, HoldersKept
    <2>3. call[q].at \in Removing => lock = q /\ lock \notin {NoOwner, p}
      BY <1>1, <1>2, <1>3 DEF Locking, InSection
    <2>4. Holding(q) => db \in 1..MaxFile
      BY <1>1, HoldingFacts DEF Guarded, Holding
    <2>5. At(q, "removeDb") => db \in 1..MaxFile /\ files'[db].lease.owner = NoOwner
      BY <1>1, <1>2, <2>3, Constants DEF Guarded, At, Removing
    <2>6. QED
      BY <1>1, <2>1, <2>2, <2>4, <2>5 DEF Guarded, At, Removing
  <1>4. published => db \in 1..MaxFile /\ files[db].cred
    BY <1>1, <1>2, Constants DEF PublishedHasCredential
  <1>5. QED
    BY <1>3, <1>4 DEF Fenced, PublishedHasCredential

\* When nobody else holds or removes anything, only p and what is published have
\* to be looked at.
LEMMA AloneStep ==
    ASSUME NEW p \in Proc,
           \A q \in Proc \ {p} : ~Holding(q)' /\ call'[q].at \notin Removing,
           ~published', journal'.id \notin discarded', Guarded(p)'
    PROVE  Fenced' /\ PublishedHasCredential'
  BY DEF Guarded, Fenced, PublishedHasCredential, At, Removing

LEMMA IdleGuarded ==
    ASSUME NEW p \in Proc, call'[p].at \notin Claimed \union Removing
    PROVE  Guarded(p)'
  BY DEF Guarded, Holding, At, Removing

LEMMA ReleasedRows ==
    ASSUME NEW p \in Proc, RowsReleased(p)
    PROVE  /\ \A f \in 1..MaxFile, q \in Proc \ {p} :
                 files'[f].lease.owner = q => files'[f].lease = files[f].lease
           /\ \A f \in 1..MaxFile : /\ files[f].cred => files'[f].cred
                                    /\ files[f].lease.owner = NoOwner =>
                                       files'[f].lease.owner = NoOwner
                                    /\ files'[f].lease.owner # p
  BY Constants DEF RowsReleased, NoLease

\* With a new file at the path nothing was published and nobody else holds or
\* removes anything.
LEMMA ClaimGuards ==
    ASSUME IInv, ~overrun, NEW p \in Proc, NEW f \in 1..MaxFile, RowClaimed(p, f),
           lock = NoOwner, \A q \in Proc \ {p} : call'[q] = call[q],
           UNCHANGED <<published, discarded, journal>>, Guarded(p)'
    PROVE  Fenced' /\ PublishedHasCredential'
  <1>1. TypeOK /\ InHand /\ Locking /\ PublishedHasCredential
        /\ journal.id \notin discarded /\ \A q \in Proc : Guarded(q)
    BY DEF IInv, Fenced
  <1>2. /\ \A g \in 1..MaxFile, q \in Proc \ {p} :
              files'[g].lease.owner = q => files'[g].lease = files[g].lease
        /\ f # 0 /\ db' = f
    BY Constants DEF RowClaimed
  <1>3. CASE f = db
    <2>1. \A g \in 1..MaxFile : files[g].cred => files'[g].cred
      BY <1>3 DEF RowClaimed
    <2>2. QED
      BY <1>1, <1>2, <1>3, <2>1, QuietStep
  <1>4. CASE f # db
    <2>1. db = 0 /\ ~published
      BY <1>1, <1>4 DEF RowClaimed, PublishedHasCredential
    <2>2. ASSUME NEW q \in Proc \ {p}
          PROVE  ~Holding(q)' /\ call'[q].at \notin Removing
      <3>1. Holding(q)' => Holding(q)
        BY <1>1, <1>2, HoldersKept
      <3>2. ~Holding(q)
        BY <1>1, <2>1, Constants, HoldingFacts DEF Guarded, Holding
      <3>3. call[q].at \notin Removing
        BY <1>1, Constants DEF Locking, InSection
      <3>4. QED
        BY <3>1, <3>2, <3>3
    <2>3. QED
      BY <1>1, <2>1, <2>2, AloneStep
  <1>5. QED
    BY <1>3, <1>4

LEMMA FencedStep ==
    ASSUME IInv, [Next]_vars
    PROVE  Fenced' /\ PublishedHasCredential'
  <1>0. /\ TypeOK /\ InHand /\ Locking /\ RowsAreOpen /\ PublishedHasCredential
        /\ NoJournal.id \notin discarded
    BY TypeParts, Constants, NoJournalType DEF IInv
  <1> SUFFICES ASSUME ~overrun' PROVE Fenced' /\ PublishedHasCredential'
    BY DEF Fenced, PublishedHasCredential
  <1>w. ~overrun
    <2>1. ASSUME NEW p \in Proc, Save(p) \/ Cleanup(p) PROVE ~overrun
      BY <1>0, <2>1, SaveFacts, CleanupFacts DEF Saved
    <2>2. CASE UNCHANGED overrun
      BY <2>2
    <2>3. QED
      BY <2>1, <2>2
         DEF Next, Step, vars, history, Lapse, Stall, Create, Reserve, Recover, Finish,
             OpenClaimed, Authorize, Prepare, Gate, Publish, Confirm, Reconcile, Retire,
             Discard, DiscardLogout, RemoveDatabase, RemoveJournal, LogoutFails, Crash
  <1>g. journal.id \notin discarded /\ \A q \in Proc : Guarded(q)
    BY <1>w DEF IInv, Fenced
  <1>n. NoOwner \notin Proc
    BY Constants
  \* Steps that change no row.
  <1>a. ASSUME NEW p \in Proc, \A q \in Proc \ {p} : call'[q] = call[q],
               UNCHANGED <<published, db, discarded, files>>, journal'.id \notin discarded,
               Guarded(p)'
        PROVE  Fenced' /\ PublishedHasCredential'
    BY <1>w, <1>a, QuietStep
  \* Steps that release the rows of p.
  <1>b. ASSUME NEW p \in Proc, \A q \in Proc \ {p} : call'[q] = call[q], RowsReleased(p),
               UNCHANGED <<published, db, discarded>>, journal'.id \notin discarded,
               Guarded(p)'
        PROVE  Fenced' /\ PublishedHasCredential'
    BY <1>w, <1>b, QuietStep, ReleasedRows
  <1>c. ASSUME NEW p \in Proc, Ended(p)
        PROVE  Guarded(p)' /\ \A q \in Proc \ {p} : call'[q] = call[q]
    BY <1>c, IdleGuarded DEF Ended, Claimed, Removing
  <1>1. ASSUME NEW p \in Proc, Create(p) \/ Finish(p)
        PROVE  Fenced' /\ PublishedHasCredential'
    <2>1. Guarded(p)'
      BY <1>0, <1>1, StartFacts, IdleGuarded DEF Moved, Claimed, Removing
    <2>2. QED
      BY <1>0, <1>a, <1>g, <1>1, <2>1, StartFacts DEF Moved, others, history
  <1>2. ASSUME NEW p \in Proc, Reserve(p) PROVE Fenced' /\ PublishedHasCredential'
    <2>1. Guarded(p)'
      BY <1>0, <1>2, ReserveFacts, IdleGuarded DEF Ended, Claimed, Removing
    <2>2. QED
      BY <1>0, <1>a, <1>g, <1>2, <2>1, ReserveFacts DEF Ended, history
  <1>3. ASSUME NEW p \in Proc, Recover(p) PROVE Fenced' /\ PublishedHasCredential'
    <2>1. Guarded(p)'
      BY <1>0, <1>3, RecoverFacts, IdleGuarded DEF Claimed, Removing
    <2>2. QED
      BY <1>0, <1>a, <1>g, <1>3, <2>1, RecoverFacts DEF others, history
  <1>4. ASSUME NEW p \in Proc, OpenClaimed(p) PROVE Fenced' /\ PublishedHasCredential'
    <2>1. CASE Ended(p) /\ UNCHANGED <<db, files>>
      BY <1>0, <1>a, <1>c, <1>g, <1>4, <2>1, OpenFacts DEF history
    <2>2. ASSUME NEW f \in 1..MaxFile,
                 /\ RowClaimed(p, f) /\ journal.id = call[p].id
                 /\ call'[p].at \in {"ready", "authorize"} /\ call'[p].id = call[p].id
                 /\ call'[p].file = f
                 /\ \A q \in Proc \ {p} : call'[q] = call[q]
          PROVE  Fenced' /\ PublishedHasCredential'
      <3>1. lock = NoOwner /\ UNCHANGED <<journal, published, discarded>>
        BY <1>0, <1>4, OpenFacts DEF history
      <3>2. db' = f
        BY <2>2 DEF RowClaimed
      <3>3. Guarded(p)'
        BY <1>g, <2>2, <3>1, <3>2 DEF Guarded, At, Removing
      <3>4. QED
        BY <1>w, <2>2, <3>1, <3>3, ClaimGuards
    <2>3. QED
      BY <1>0, <1>4, <2>1, <2>2, OpenFacts
  <1>5. ASSUME NEW p \in Proc, Authorize(p) PROVE Fenced' /\ PublishedHasCredential'
    <2>1. /\ \A f \in 1..MaxFile : /\ files'[f].lease = files[f].lease
                                   /\ files[f].cred => files'[f].cred
          /\ \A q \in Proc \ {p} : call'[q] = call[q]
          /\ call'[p].at \in {"save", "cleanup"} /\ call'[p].id = call[p].id
          /\ call'[p].file = call[p].file /\ call'[p].gen = call[p].gen
          /\ call[p].at \in Claimed
          /\ UNCHANGED <<published, db, discarded, journal>>
      BY <1>0, <1>5, AuthorizeFacts DEF Moved, history, At, Claimed
    <2>2. Holding(p)' => Holding(p)
      <3>1. call[p].file \in 1..MaxFile
        BY <1>0, <2>1, HoldingFacts
      <3>2. QED
        BY <2>1, <3>1 DEF Holding, Owns
    <2>3. Guarded(p)'
      BY <1>g, <2>1, <2>2 DEF Guarded, At, Removing
    <2>4. QED
      BY <1>g, <1>w, <2>1, <2>3, QuietStep
  <1>6. ASSUME NEW p \in Proc, Save(p) PROVE Fenced' /\ PublishedHasCredential'
    <2>1. CASE Saved(p)
      <3>1. Holding(p)
        BY <1>0, <1>6, <2>1, SaveFacts, OwnersPass DEF Saved, Holding, At, Claimed
      <3>2. /\ call'[p].at = "ready" /\ call'[p].id = call[p].id
            /\ call'[p].file = call[p].file
            /\ \A q \in Proc \ {p} : call'[q] = call[q]
            /\ journal'.id = call[p].id
            /\ UNCHANGED <<published, db, discarded, files>>
        BY <1>0, <1>6, <2>1, SaveFacts DEF Saved, Moved
      <3>3. Guarded(p)'
        BY <1>g, <3>1, <3>2 DEF Guarded, At, Removing
      <3>4. QED
        BY <1>a, <1>g, <3>1, <3>2, <3>3 DEF Guarded
    <2>2. CASE Ended(p) /\ RowsReleased(p) /\ UNCHANGED <<journal, overrun>>
      BY <1>0, <1>b, <1>c, <1>g, <1>6, <2>2, SaveFacts
    <2>3. QED
      BY <1>0, <1>6, <2>1, <2>2, SaveFacts
  <1>7. ASSUME NEW p \in Proc, Prepare(p) \/ Gate(p) PROVE Fenced' /\ PublishedHasCredential'
    <2>1. UNCHANGED <<journal, published, db, discarded>>
      BY <1>0, <1>7, PrepareFacts, GateFacts DEF history
    <2>2. CASE Ended(p) /\ RowsReleased(p)
      BY <1>b, <1>c, <1>g, <2>1, <2>2
    <2>3. ASSUME NEW l \in {"gate", "publish"}, Moved(p, l), UNCHANGED files,
                 call[p].at \in Claimed, Holding(p) => files[call[p].file].cred
          PROVE  Fenced' /\ PublishedHasCredential'
      <3>1. Holding(p)' => Holding(p)
        BY <2>3 DEF Moved, Holding, Owns
      <3>2. Guarded(p)'
        BY <1>g, <2>1, <2>3, <3>1 DEF Guarded, At, Removing, Moved
      <3>3. QED
        BY <1>a, <1>g, <2>1, <2>3, <3>2 DEF Moved
    <2>4. CASE Prepare(p) /\ HasCredential(p) /\ Moved(p, "gate") /\ UNCHANGED files
      BY <1>0, <2>3, <2>4, PrepareFacts DEF HasCredential, At, Claimed
    <2>5. CASE Gate(p) /\ Moved(p, "publish") /\ UNCHANGED files
      <3>1. Holding(p) => files[call[p].file].cred
        BY <1>0, <1>g, <2>5, GateFacts DEF Guarded, At
      <3>2. QED
        BY <1>0, <2>3, <2>5, <3>1, GateFacts DEF At, Claimed
    <2>6. QED
      BY <1>0, <1>7, <2>2, <2>4, <2>5, PrepareFacts, GateFacts
  <1>8. ASSUME NEW p \in Proc, Publish(p) PROVE Fenced' /\ PublishedHasCredential'
    <2>1. UNCHANGED <<journal, db, discarded>> /\ lock = NoOwner /\ At(p, "publish")
      BY <1>0, <1>8, PublishFacts DEF history
    <2>2. CASE Ended(p) /\ RowsReleased(p) /\ UNCHANGED published
      BY <1>b, <1>c, <1>g, <2>1, <2>2
    <2>3. CASE Moved(p, "winner") /\ UNCHANGED <<published, files>>
      <3>1. Guarded(p)'
        BY <2>3, IdleGuarded DEF Moved, Claimed, Removing
      <3>2. QED
        BY <1>a, <1>g, <2>1, <2>3, <3>1 DEF Moved
    <2>4. CASE Owns(p) /\ published' = TRUE /\ Moved(p, "confirm") /\ UNCHANGED files
      <3>1. Holding(p)
        BY <2>1, <2>4 DEF Holding, At, Claimed
      <3>2. db \in 1..MaxFile /\ files[db].cred
        BY <1>0, <1>g, <2>1, <3>1, HoldingFacts DEF Guarded, At, Holding
      <3>3. ASSUME NEW q \in Proc PROVE Guarded(q)'
        <4>1. CASE q = p
          BY <2>4, <4>1, IdleGuarded DEF Moved, Claimed, Removing
        <4>2. CASE q # p
          <5>1. call'[q] = call[q]
            BY <2>4, <4>2 DEF Moved
          <5>2. call[q].at \notin Removing
            BY <1>0, <1>n, <2>1 DEF Locking, InSection
          <5>3. Holding(q)' => Holding(q)
            BY <2>4, <5>1 DEF Holding, Owns
          <5>4. QED
            BY <1>g, <2>1, <2>4, <5>1, <5>2, <5>3 DEF Guarded, At, Removing
        <4>3. QED
          BY <4>1, <4>2
      <3>4. QED
        BY <1>g, <2>1, <2>4, <3>2, <3>3, Constants DEF Fenced, PublishedHasCredential
    <2>5. QED
      BY <1>0, <1>8, <2>2, <2>3, <2>4, PublishFacts
  <1>9. ASSUME NEW p \in Proc, Confirm(p) \/ Retire(p)
        PROVE  Fenced' /\ PublishedHasCredential'
    BY <1>0, <1>b, <1>c, <1>g, <1>9, ConfirmFacts DEF history
  <1>10. ASSUME NEW p \in Proc, Reconcile(p) PROVE Fenced' /\ PublishedHasCredential'
    <2>1. /\ UNCHANGED <<journal, published, discarded>> /\ published /\ db # 0
      BY <1>0, <1>w, <1>10, ReconcileFacts DEF history, At, InHand, PublishedHasCredential
    <2>2. CASE Moved(p, "retire") /\ UNCHANGED <<db, files>>
      <3>1. Guarded(p)'
        BY <2>2, IdleGuarded DEF Moved, Claimed, Removing
      <3>2. QED
        BY <1>a, <1>g, <2>1, <2>2, <3>1 DEF Moved
    <2>3. CASE Ended(p) /\ RowsReleased(p) /\ UNCHANGED db
      BY <1>b, <1>c, <1>g, <2>1, <2>3
    <2>4. QED
      BY <1>0, <1>10, <2>1, <2>2, <2>3, ReconcileFacts
  <1>11. ASSUME NEW p \in Proc, Cleanup(p) PROVE Fenced' /\ PublishedHasCredential'
    <2>1. /\ UNCHANGED <<journal, published, db, discarded>> /\ RowsReleased(p)
          /\ lock = NoOwner /\ At(p, "cleanup")
      BY <1>0, <1>11, CleanupFacts
    <2>2. CASE Ended(p)
      BY <1>b, <1>c, <1>g, <2>1, <2>2
    <2>3. CASE /\ ~HasCredential(p) /\ Moved(p, "removeDb")
               /\ overrun' = (overrun \/ ~Holds(p))
      <3>1. Holding(p)
        BY <2>1, <2>3, OwnersPass DEF Holding, At, Claimed
      <3>2. call[p].file = db /\ db \in 1..MaxFile /\ files[db].lease.owner = p
        BY <1>0, <1>g, <3>1, HoldingFacts DEF Guarded
      <3>3. ~published
        BY <1>0, <1>w, <2>3, <3>2 DEF HasCredential, PublishedHasCredential
      <3>4. files'[db].lease.owner = NoOwner
        BY <2>1, <3>2 DEF RowsReleased, NoLease
      <3>5. Guarded(p)'
        BY <2>1, <2>3, <3>2, <3>3, <3>4, Constants
           DEF Guarded, Holding, At, Claimed, Removing, Moved
      <3>6. QED
        BY <1>b, <1>g, <2>1, <2>3, <3>5 DEF Moved
    <2>4. QED
      BY <1>0, <1>11, <2>2, <2>3, CleanupFacts
  <1>12. ASSUME NEW p \in Proc, Discard(p) PROVE Fenced' /\ PublishedHasCredential'
    <2>1. lock = NoOwner /\ UNCHANGED <<published, discarded>>
      BY <1>0, <1>12, DiscardFacts DEF history
    <2>2. CASE Ended(p) /\ UNCHANGED <<db, files>> /\ (journal' = NoJournal \/ UNCHANGED journal)
      BY <1>0, <1>a, <1>c, <1>g, <2>1, <2>2
    <2>3. ASSUME NEW f \in 1..MaxFile,
                 /\ ~published /\ RowClaimed(p, f) /\ UNCHANGED journal
                 /\ call'[p].at = "logout"
                 /\ \A q \in Proc \ {p} : call'[q] = call[q]
          PROVE  Fenced' /\ PublishedHasCredential'
      <3>1. Guarded(p)'
        BY <2>1, <2>3 DEF Guarded, Holding, At, Claimed
      <3>2. QED
        BY <1>w, <2>1, <2>3, <3>1, ClaimGuards
    <2>4. QED
      BY <1>0, <1>12, <2>2, <2>3, DiscardFacts
  <1>13. ASSUME NEW p \in Proc, DiscardLogout(p) \/ RemoveDatabase(p) \/ RemoveJournal(p)
         PROVE  Fenced' /\ PublishedHasCredential'
    <2>1. /\ call[p].at \in Removing /\ UNCHANGED published
          /\ \A q \in Proc \ {p} : call'[q] = call[q]
      BY <1>0, <1>13, LogoutFacts, RemoveFacts, ForgetFacts DEF At, Removing, Moved, Ended
    <2>2. ~published /\ lock = p
      BY <1>0, <1>g, <2>1 DEF Guarded, Locking, InSection
    <2>3. ASSUME NEW q \in Proc \ {p} PROVE call'[q].at \notin Removing
      BY <1>0, <2>1, <2>2 DEF Locking, InSection
    <2>4. /\ \A f \in 1..MaxFile, q \in Proc \ {p} :
                files'[f].lease.owner = q => files'[f].lease = files[f].lease
          /\ At(p, "logout") => files'[db].lease.owner = NoOwner /\ db \in 1..MaxFile
          /\ ~At(p, "logout") => UNCHANGED files
      <3>1. CASE DiscardLogout(p)
        <4>1. /\ \A f \in 1..MaxFile :
                    files'[f].lease = IF files[f].lease.owner = p THEN NoLease
                                      ELSE files[f].lease
              /\ At(p, "logout") /\ call[p].file \in 1..MaxFile
          BY <1>0, <3>1, LogoutFacts
        <4>2. db \in 1..MaxFile /\ files[db].lease.owner = p
          BY <1>0, <4>1 DEF RowsAreOpen
        <4>3. QED
          BY <1>n, <4>1, <4>2 DEF NoLease
      <3>2. CASE RemoveDatabase(p) \/ RemoveJournal(p)
        BY <1>0, <3>2, RemoveFacts, ForgetFacts DEF At
      <3>3. QED
        BY <1>13, <3>1, <3>2
    <2>5. ASSUME NEW q \in Proc \ {p} PROVE ~Holding(q)'
      <3>1. SUFFICES ASSUME Holding(q)' PROVE FALSE
        OBVIOUS
      <3>2. Holding(q) /\ files'[call[q].file].lease.owner = q
        BY <1>0, <2>1, <2>4, <3>1, HoldersKept
      <3>3. call[q].file = db /\ db \in 1..MaxFile /\ files[db].lease.owner = q
        BY <1>0, <1>g, <3>2, HoldingFacts DEF Guarded
      <3>4. CASE At(p, "logout")
        BY <1>n, <2>4, <3>2, <3>3, <3>4
      <3>5. CASE At(p, "removeDb")
        BY <1>g, <1>n, <3>3, <3>5 DEF Guarded
      <3>6. CASE At(p, "removeJournal")
        BY <1>g, <3>3, <3>6, Constants DEF Guarded
      <3>7. QED
        BY <2>1, <3>4, <3>5, <3>6 DEF At, Removing
    <2>6. Guarded(p)'
      <3>1. CASE DiscardLogout(p)
        <4>1. /\ At(p, "logout") /\ call'[p].at = "removeDb" /\ db' = db
          BY <1>0, <3>1, LogoutFacts DEF Moved
        <4>2. QED
          BY <2>1, <2>2, <2>4, <4>1, Constants DEF Guarded, Holding, At, Claimed
      <3>2. CASE RemoveDatabase(p)
        <4>1. call'[p].at = "removeJournal" /\ db' = 0
          BY <1>0, <3>2, RemoveFacts DEF Moved
        <4>2. QED
          BY <2>1, <2>2, <4>1 DEF Guarded, Holding, At, Claimed
      <3>3. CASE RemoveJournal(p)
        BY <1>0, <1>c, <3>3, ForgetFacts
      <3>4. QED
        BY <1>13, <3>1, <3>2, <3>3
    <2>7. journal'.id \notin discarded'
      <3>1. CASE DiscardLogout(p) \/ RemoveDatabase(p)
        <4>1. UNCHANGED <<journal, discarded>>
          BY <3>1 DEF DiscardLogout, RemoveDatabase, history
        <4>2. QED
          BY <1>g, <4>1
      <3>2. CASE RemoveJournal(p)
        BY <1>0, <3>2, ForgetFacts, NoJournalType
      <3>3. QED
        BY <1>13, <3>1, <3>2
    <2>8. QED
      BY <2>1, <2>2, <2>3, <2>5, <2>6, <2>7, AloneStep
  <1>14. ASSUME NEW p \in Proc, LogoutFails(p) PROVE Fenced' /\ PublishedHasCredential'
    BY <1>0, <1>b, <1>c, <1>g, <1>14, FaultFacts DEF history
  <1>15. ASSUME NEW p \in Proc, Crash(p) PROVE Fenced' /\ PublishedHasCredential'
    <2>1. /\ \A f \in 1..MaxFile : /\ files'[f].cred = files[f].cred
                                   /\ files[f].lease.owner = p => files'[f].lease.owner = Dead
                                   /\ files[f].lease.owner # p =>
                                      files'[f].lease = files[f].lease
          /\ Ended(p) /\ UNCHANGED <<journal, published, db, discarded>>
      BY <1>0, <1>15, FaultFacts DEF history
    <2>2. \A f \in 1..MaxFile :
             /\ \A q \in Proc \ {p} :
                   files'[f].lease.owner = q => files'[f].lease = files[f].lease
             /\ files[f].lease.owner = NoOwner => files'[f].lease.owner = NoOwner
      BY <2>1, Constants
    <2>3. QED
      BY <1>c, <1>g, <1>w, <2>1, <2>2, QuietStep
  <1>16. CASE Lapse \/ Stall
    <2>1. /\ \A f \in 1..MaxFile :
                /\ files'[f].cred = files[f].cred
                /\ files'[f].lease.owner = files[f].lease.owner
                /\ files'[f].lease.gen = files[f].lease.gen
                /\ files'[f].lease.left > 0 => files[f].lease.left > 0
          /\ UNCHANGED <<journal, published, db, call, discarded>>
      BY <1>0, <1>16, TimeFacts
    <2>2. ASSUME NEW q \in Proc PROVE Guarded(q)'
      <3>1. Holding(q)' => Holding(q)
        BY <1>0, <2>1, HoldersKept
      <3>2. Holding(q) \/ At(q, "removeDb") => db \in 1..MaxFile
        BY <1>0, <1>g, HoldingFacts, TypeParts, Constants DEF Guarded, Holding
      <3>3. QED
        BY <1>g, <2>1, <3>1, <3>2 DEF Guarded, At
    <2>3. published => db \in 1..MaxFile /\ files[db].cred
      BY <1>0, <1>w, TypeParts, Constants DEF PublishedHasCredential
    <2>4. QED
      BY <1>g, <2>1, <2>2, <2>3 DEF Fenced, PublishedHasCredential
  <1>17. CASE UNCHANGED vars
    BY <1>0, <1>17, <1>g, <1>w
       DEF vars, history, Fenced, Guarded, Holding, Owns, At, PublishedHasCredential
  <1>18. QED
    BY <1>1, <1>2, <1>3, <1>4, <1>5, <1>6, <1>7, <1>8, <1>9, <1>10, <1>11, <1>12, <1>13,
       <1>14, <1>15, <1>16, <1>17 DEF Next, Step

-----------------------------------------------------------------------------
(* Until a process outlives its lease, nothing is stranded.                *)

\* What the parts of the invariant say while nobody has stalled.
LEMMA Unstalled ==
    ASSUME IInv, ~stalled
    PROVE  /\ ~overrun
           /\ \A f \in 1..MaxFile : files[f].lease.owner \in Proc => files[f].lease.left > 0
           /\ \A q \in Proc : Leased(q) /\ Guarded(q)
           /\ \A q \in Proc : call[q].at \in Claimed =>
                 /\ Holding(q) /\ call[q].file = db /\ db \in 1..MaxFile
                 /\ files[db].lease.owner = q
           /\ \A f \in 1..MaxFile : files[f].cred => f = db /\ (published \/ journal # NoJournal)
  <1>1. ~overrun /\ (\A q \in Proc : Leased(q) /\ Guarded(q)) /\ TypeOK /\ InHand
    BY DEF IInv, Unlapsed, Fenced
  <1>2. ASSUME NEW q \in Proc, call[q].at \in Claimed
        PROVE  /\ Holding(q) /\ call[q].file = db /\ db \in 1..MaxFile
               /\ files[db].lease.owner = q
    <2>1. Holding(q)
      BY <1>1, <1>2 DEF Leased, Holding
    <2>2. QED
      BY <1>1, <1>2, <2>1, HoldingFacts DEF Guarded
  <1>3. QED
    BY <1>1, <1>2 DEF IInv, Unlapsed, Recoverable

\* A step of p that takes no row of another, brings no credential and loses no
\* journal before the profile is there.
LEMMA QuietLease ==
    ASSUME IInv, ~stalled, NEW p \in Proc, ~overrun',
           \A q \in Proc \ {p} : call'[q] = call[q],
           \A f \in 1..MaxFile : \/ files'[f].lease = files[f].lease
                                 \/ /\ files[f].lease.owner \notin Proc \ {p}
                                    /\ files'[f].lease.owner \notin Proc \/ files'[f].lease.left > 0,
           published => published',
           journal # NoJournal => published' \/ journal' # NoJournal,
           \/ db' = db /\ \A f \in 1..MaxFile : files'[f].cred => files[f].cred
           \/ lock = NoOwner /\ \A f \in 1..MaxFile : ~files'[f].cred,
           Leased(p)'
    PROVE  Unlapsed' /\ Recoverable'
  <1>0. /\ TypeOK /\ InHand /\ Locking /\ ~overrun
        /\ \A f \in 1..MaxFile : files[f].lease.owner \in Proc => files[f].lease.left > 0
        /\ \A q \in Proc : Leased(q) /\ Guarded(q)
        /\ \A f \in 1..MaxFile : files[f].cred => f = db /\ (published \/ journal # NoJournal)
    BY Unstalled DEF IInv
  <1>1. ASSUME NEW q \in Proc PROVE Leased(q)'
    <2>1. CASE q = p
      BY <2>1
    <2>2. CASE q # p
      <3>1. call'[q] = call[q]
        BY <2>2
      <3>2. ASSUME call[q].at \in Claimed PROVE Owns(q)'
        <4>1. /\ call[q].file \in 1..MaxFile /\ files[call[q].file].lease.owner = q
              /\ files[call[q].file].lease.gen = call[q].gen
          BY <1>0, <3>2, HoldingFacts DEF Leased, Holding
        <4>2. files'[call[q].file].lease = files[call[q].file].lease
          BY <2>2, <4>1
        <4>3. QED
          BY <3>1, <4>1, <4>2 DEF Owns
      <3>3. ASSUME At(q, "removeDb") PROVE ~files'[db'].cred
        <4>1. lock # NoOwner /\ db \in 1..MaxFile /\ ~files[db].cred
          BY <1>0, <3>3, TypeParts, Constants
             DEF Locking, InSection, Removing, At, Guarded, Leased
        <4>2. QED
          BY <4>1
      <3>4. QED
        BY <1>0, <3>1, <3>2, <3>3 DEF Leased, At
    <2>3. QED
      BY <2>1, <2>2
  <1>2. \A f \in 1..MaxFile : files'[f].lease.owner \in Proc => files'[f].lease.left > 0
    BY <1>0
  <1>3. \A f \in 1..MaxFile : files'[f].cred => f = db' /\ (published' \/ journal' # NoJournal)
    BY <1>0
  <1>4. QED
    BY <1>1, <1>2, <1>3 DEF Unlapsed, Recoverable

LEMMA IdleLeased ==
    ASSUME NEW p \in Proc, call'[p].at \notin Claimed, call'[p].at # "removeDb"
    PROVE  Leased(p)'
  BY DEF Leased, At

\* Releasing the rows of p takes none of another and gives none.
LEMMA ReleasedLeases ==
    ASSUME NEW p \in Proc, RowsReleased(p)
    PROVE  \A f \in 1..MaxFile :
              /\ \/ files'[f].lease = files[f].lease
                 \/ files[f].lease.owner \notin Proc \ {p} /\ files'[f].lease.owner \notin Proc
              /\ files'[f].cred => files[f].cred
  BY Constants DEF RowsReleased, NoLease

\* A claim of p takes a row no other process owns.
LEMMA ClaimedLeases ==
    ASSUME IInv, ~stalled, NEW p \in Proc, NEW f \in 1..MaxFile, RowClaimed(p, f)
    PROVE  /\ \A g \in 1..MaxFile :
                 \/ files'[g].lease = files[g].lease
                 \/ /\ files[g].lease.owner \notin Proc \ {p}
                    /\ files'[g].lease.owner \notin Proc \/ files'[g].lease.left > 0
           /\ \/ db' = db /\ \A g \in 1..MaxFile : files'[g].cred => files[g].cred
              \/ \A g \in 1..MaxFile : ~files'[g].cred
  <1>1. /\ \A g \in 1..MaxFile : files[g].lease.owner \in Proc => files[g].lease.left > 0
        /\ \A g \in 1..MaxFile : files[g].cred => g = db
        /\ \A g \in 1..MaxFile, q \in Proc : files[g].lease.owner = q => call[q].file = g
    BY Unstalled DEF IInv, RowsAreOpen
  <1>2. /\ \A g \in 1..MaxFile \ {f} : files'[g] = files[g]
        /\ files'[f].lease.left > 0 /\ db' = f
    BY DEF RowClaimed
  <1>3. CASE f = db
    <2>1. /\ \/ files[f].lease.owner \notin Proc \/ files[f].lease.left = 0
             \/ files[f].lease.owner = p
          /\ files'[f].cred = files[f].cred
      BY <1>3 DEF RowClaimed
    <2>2. QED
      BY <1>1, <1>2, <1>3, <2>1
  <1>4. CASE f # db
    <2>1. /\ db = 0 /\ ~files[f].cred /\ ~files'[f].cred
          /\ \A q \in Proc : call[q].file # f
      BY <1>4 DEF RowClaimed
    <2>2. files[f].lease.owner \notin Proc
      BY <1>1, <2>1
    <2>3. \A g \in 1..MaxFile : ~files'[g].cred
      BY <1>1, <1>2, <2>1, Constants
    <2>4. QED
      BY <1>2, <2>2, <2>3
  <1>5. QED
    BY <1>3, <1>4

LEMMA UnlapsedStep ==
    ASSUME IInv, [Next]_vars
    PROVE  Unlapsed' /\ Recoverable'
  <1>0. TypeOK /\ InHand /\ Locking /\ RowsAreOpen /\ PublishedHasCredential
    BY DEF IInv
  <1> SUFFICES ASSUME ~stalled' PROVE Unlapsed' /\ Recoverable'
    BY DEF Unlapsed, Recoverable
  <1>w. ~stalled
    <2>1. ASSUME Lapse \/ Stall PROVE ~stalled
      BY <1>0, <2>1, TimeFacts
    <2>2. CASE UNCHANGED stalled
      BY <2>2
    <2>3. QED
      BY <2>1, <2>2
         DEF Next, Step, vars, history, Create, Reserve, Recover, Finish, OpenClaimed,
             Authorize, Save, Prepare, Gate, Publish, Confirm, Reconcile, Retire, Cleanup,
             Discard, DiscardLogout, RemoveDatabase, RemoveJournal, LogoutFails, Crash
  <1>u. /\ ~overrun
        /\ \A f \in 1..MaxFile : files[f].lease.owner \in Proc => files[f].lease.left > 0
        /\ \A q \in Proc : Leased(q) /\ Guarded(q)
        /\ \A q \in Proc : call[q].at \in Claimed =>
              /\ Holding(q) /\ call[q].file = db /\ db \in 1..MaxFile
              /\ files[db].lease.owner = q
        /\ \A f \in 1..MaxFile : files[f].cred => f = db /\ (published \/ journal # NoJournal)
    BY <1>w, Unstalled
  <1>n. NoOwner \notin Proc
    BY Constants
  \* Steps that change neither rows nor credentials, or only release those of p.
  <1>a. ASSUME NEW p \in Proc, ~overrun', \A q \in Proc \ {p} : call'[q] = call[q],
               UNCHANGED files \/ RowsReleased(p), UNCHANGED db,
               published => published', journal # NoJournal => published' \/ journal' # NoJournal,
               Leased(p)'
        PROVE  Unlapsed' /\ Recoverable'
    BY <1>w, <1>a, QuietLease, ReleasedLeases
  <1>c. ASSUME NEW p \in Proc, Ended(p)
        PROVE  Leased(p)' /\ \A q \in Proc \ {p} : call'[q] = call[q]
    BY <1>c, IdleLeased DEF Ended, Claimed
  <1>1. ASSUME NEW p \in Proc, Create(p) \/ Finish(p) PROVE Unlapsed' /\ Recoverable'
    <2>1. Leased(p)'
      BY <1>0, <1>1, StartFacts, IdleLeased DEF Moved, Claimed
    <2>2. QED
      BY <1>0, <1>a, <1>u, <1>1, <2>1, StartFacts DEF Moved, others, history
  <1>2. ASSUME NEW p \in Proc, Reserve(p) PROVE Unlapsed' /\ Recoverable'
    <2>1. Leased(p)'
      BY <1>0, <1>2, ReserveFacts, IdleLeased DEF Ended, Claimed
    <2>2. QED
      BY <1>0, <1>a, <1>u, <1>2, <2>1, ReserveFacts DEF Ended, history
  <1>3. ASSUME NEW p \in Proc, Recover(p) PROVE Unlapsed' /\ Recoverable'
    <2>1. Leased(p)'
      BY <1>0, <1>3, RecoverFacts, IdleLeased DEF Claimed
    <2>2. QED
      BY <1>0, <1>a, <1>u, <1>3, <2>1, RecoverFacts DEF others, history
  <1>4. ASSUME NEW p \in Proc, OpenClaimed(p) PROVE Unlapsed' /\ Recoverable'
    <2>1. CASE Ended(p) /\ UNCHANGED <<db, files>>
      BY <1>0, <1>a, <1>c, <1>u, <1>4, <2>1, OpenFacts DEF history
    <2>2. ASSUME NEW f \in 1..MaxFile,
                 /\ RowClaimed(p, f) /\ journal.id = call[p].id
                 /\ call'[p].at \in {"ready", "authorize"}
                 /\ call'[p].file = f /\ call'[p].gen = files'[f].lease.gen
                 /\ \A q \in Proc \ {p} : call'[q] = call[q]
          PROVE  Unlapsed' /\ Recoverable'
      <3>1. lock = NoOwner /\ UNCHANGED <<journal, published, overrun>> /\ At(p, "open")
        BY <1>0, <1>4, OpenFacts DEF history
      <3>2. journal # NoJournal
        BY <1>0, <2>2, <3>1, NoJournalType DEF InHand, At
      <3>3. Owns(p)'
        BY <2>2 DEF RowClaimed, Owns
      <3>4. Leased(p)'
        BY <2>2, <3>1, <3>2, <3>3 DEF Leased, At
      <3>5. QED
        BY <1>u, <1>w, <2>2, <3>1, <3>2, <3>4, QuietLease, ClaimedLeases
    <2>3. QED
      BY <1>0, <1>4, <2>1, <2>2, OpenFacts
  <1>5. ASSUME NEW p \in Proc, Authorize(p) PROVE Unlapsed' /\ Recoverable'
    <2>1. /\ \A f \in 1..MaxFile : files'[f].lease = files[f].lease
          /\ \A q \in Proc \ {p} : call'[q] = call[q]
          /\ call'[p].at \in {"save", "cleanup"}
          /\ call'[p].file = call[p].file /\ call'[p].gen = call[p].gen
          /\ call[p].at \in Claimed
          /\ \A f \in 1..MaxFile : files'[f].cred => f = call[p].file \/ files[f].cred
          /\ UNCHANGED <<published, db, overrun, journal>>
      BY <1>0, <1>5, AuthorizeFacts DEF Moved, history, At, Claimed
    <2>2. /\ call[p].file = db /\ db \in 1..MaxFile /\ files[db].lease.owner = p /\ Holding(p)
          /\ published \/ journal # NoJournal
      BY <1>u, <2>1 DEF Leased
    <2>3. ASSUME NEW q \in Proc PROVE Leased(q)'
      <3>1. Owns(q) /\ call[q].file \in 1..MaxFile => Owns(q)'
        <4>1. call'[q].file = call[q].file /\ call'[q].gen = call[q].gen
          BY <2>1
        <4>2. QED
          BY <2>1, <4>1 DEF Owns
      <3>2. ~At(q, "removeDb") /\ call'[q].at # "removeDb"
        BY <1>n, <1>u, <2>1, <2>2 DEF Guarded, At
      <3>3. call'[q].at \in Claimed => call[q].at \in Claimed
        BY <2>1
      <3>4. QED
        BY <1>u, <2>1, <2>2, <3>1, <3>2, <3>3 DEF Leased, At
    <2>4. QED
      BY <1>u, <2>1, <2>2, <2>3 DEF Unlapsed, Recoverable
  <1>6. ASSUME NEW p \in Proc, Save(p) PROVE Unlapsed' /\ Recoverable'
    <2>1. CASE Saved(p)
      <3>1. /\ call[p].at \in Claimed /\ call[p].id # 0
            /\ call'[p].at = "ready" /\ call'[p].file = call[p].file
            /\ call'[p].gen = call[p].gen
            /\ \A q \in Proc \ {p} : call'[q] = call[q]
            /\ journal'.id = call[p].id
            /\ UNCHANGED <<published, db, files>>
            /\ overrun' = (overrun \/ ~Holds(p))
        BY <1>0, <1>6, <2>1, SaveFacts DEF Saved, Moved, At, Claimed, InHand
      <3>2. journal' # NoJournal
        BY <3>1, NoJournalType
      <3>3. Holds(p) /\ Owns(p)'
        BY <1>u, <3>1, OwnersPass DEF Leased, Owns
      <3>4. Leased(p)'
        BY <3>1, <3>2, <3>3 DEF Leased, At
      <3>5. QED
        BY <1>a, <1>u, <3>1, <3>2, <3>3, <3>4
    <2>2. CASE Ended(p) /\ RowsReleased(p) /\ UNCHANGED <<journal, overrun>>
      BY <1>0, <1>a, <1>c, <1>u, <1>6, <2>2, SaveFacts
    <2>3. QED
      BY <1>0, <1>6, <2>1, <2>2, SaveFacts
  <1>7. ASSUME NEW p \in Proc, Prepare(p) \/ Gate(p) PROVE Unlapsed' /\ Recoverable'
    <2>1. UNCHANGED <<journal, published, db, overrun>>
      BY <1>0, <1>7, PrepareFacts, GateFacts DEF history
    <2>2. CASE Ended(p) /\ RowsReleased(p)
      BY <1>a, <1>c, <1>u, <2>1, <2>2
    <2>3. ASSUME NEW l \in {"gate", "publish"}, Moved(p, l), UNCHANGED files,
                 call[p].at \in Claimed
          PROVE  Unlapsed' /\ Recoverable'
      <3>1. Leased(p)'
        BY <1>u, <2>1, <2>3 DEF Leased, At, Moved, Owns
      <3>2. QED
        BY <1>a, <1>u, <2>1, <2>3, <3>1 DEF Moved
    <2>4. QED
      BY <1>0, <1>7, <2>2, <2>3, PrepareFacts, GateFacts DEF At, Claimed
  <1>8. ASSUME NEW p \in Proc, Publish(p) PROVE Unlapsed' /\ Recoverable'
    <2>1. UNCHANGED <<journal, db, overrun>>
      BY <1>0, <1>8, PublishFacts DEF history
    <2>2. CASE Ended(p) /\ RowsReleased(p) /\ UNCHANGED published
      BY <1>a, <1>c, <1>u, <2>1, <2>2
    <2>3. ASSUME NEW l \in {"winner", "confirm"}, Moved(p, l), UNCHANGED files,
                 published => published'
          PROVE  Unlapsed' /\ Recoverable'
      <3>1. Leased(p)'
        BY <2>3, IdleLeased DEF Moved, Claimed
      <3>2. QED
        BY <1>a, <1>u, <2>1, <2>3, <3>1 DEF Moved
    <2>4. CASE published /\ Moved(p, "winner") /\ UNCHANGED <<published, files>>
      BY <2>3, <2>4
    <2>5. CASE published' = TRUE /\ Moved(p, "confirm") /\ UNCHANGED files
      BY <2>3, <2>5
    <2>6. QED
      BY <1>0, <1>8, <2>2, <2>4, <2>5, PublishFacts
  <1>9. ASSUME NEW p \in Proc, Confirm(p) \/ Retire(p) PROVE Unlapsed' /\ Recoverable'
    <2>1. published /\ UNCHANGED <<published, db, overrun>> /\ Ended(p) /\ RowsReleased(p)
      BY <1>0, <1>9, ConfirmFacts DEF history, At, InHand
    <2>2. QED
      BY <1>a, <1>c, <1>u, <2>1
  <1>10. ASSUME NEW p \in Proc, Reconcile(p) PROVE Unlapsed' /\ Recoverable'
    <2>1. UNCHANGED <<journal, published, overrun>> /\ published /\ db # 0
      BY <1>0, <1>u, <1>10, ReconcileFacts DEF history, At, InHand, PublishedHasCredential
    <2>2. CASE Moved(p, "retire") /\ UNCHANGED <<db, files>>
      <3>1. Leased(p)'
        BY <2>2, IdleLeased DEF Moved, Claimed
      <3>2. QED
        BY <1>a, <1>u, <2>1, <2>2, <3>1 DEF Moved
    <2>3. CASE Ended(p) /\ RowsReleased(p) /\ UNCHANGED db
      BY <1>a, <1>c, <1>u, <2>1, <2>3
    <2>4. QED
      BY <1>0, <1>10, <2>1, <2>2, <2>3, ReconcileFacts
  <1>11. ASSUME NEW p \in Proc, Cleanup(p) PROVE Unlapsed' /\ Recoverable'
    <2>1. /\ UNCHANGED <<journal, published, db>> /\ RowsReleased(p)
          /\ overrun' \in {overrun, overrun \/ ~Holds(p)} /\ call[p].at \in Claimed
      BY <1>0, <1>11, CleanupFacts DEF At, Claimed
    <2>2. ~overrun' /\ call[p].file = db /\ db \in 1..MaxFile
      BY <1>u, <2>1, OwnersPass DEF Leased
    <2>3. CASE Ended(p)
      BY <1>a, <1>c, <1>u, <2>1, <2>2, <2>3
    <2>4. CASE ~HasCredential(p) /\ Moved(p, "removeDb")
      <3>1. ~files'[db'].cred
        BY <2>1, <2>2, <2>4 DEF HasCredential, RowsReleased
      <3>2. Leased(p)'
        BY <2>4, <3>1 DEF Leased, At, Moved, Claimed
      <3>3. QED
        BY <1>a, <1>u, <2>1, <2>2, <2>4, <3>2 DEF Moved
    <2>5. QED
      BY <1>0, <1>11, <2>3, <2>4, CleanupFacts
  <1>12. ASSUME NEW p \in Proc, Discard(p) PROVE Unlapsed' /\ Recoverable'
    <2>1. lock = NoOwner /\ UNCHANGED <<published, overrun>>
      BY <1>0, <1>12, DiscardFacts DEF history
    <2>2. CASE /\ Ended(p) /\ UNCHANGED <<db, files>>
               /\ (published /\ journal' = NoJournal) \/ UNCHANGED journal
      BY <1>a, <1>c, <1>u, <2>1, <2>2
    <2>3. ASSUME NEW f \in 1..MaxFile,
                 /\ RowClaimed(p, f) /\ UNCHANGED journal
                 /\ call'[p].at = "logout"
                 /\ \A q \in Proc \ {p} : call'[q] = call[q]
          PROVE  Unlapsed' /\ Recoverable'
      <3>1. Leased(p)'
        BY <2>3, IdleLeased DEF Claimed
      <3>2. QED
        BY <1>u, <1>w, <2>1, <2>3, <3>1, QuietLease, ClaimedLeases
    <2>4. QED
      BY <1>0, <1>12, <2>2, <2>3, DiscardFacts
  <1>13. ASSUME NEW p \in Proc, DiscardLogout(p) PROVE Unlapsed' /\ Recoverable'
    <2>1. /\ UNCHANGED <<journal, published, db, overrun>> /\ Moved(p, "removeDb")
          /\ files'[call[p].file].cred = FALSE /\ call[p].file \in 1..MaxFile
          /\ \A f \in 1..MaxFile :
                /\ f # call[p].file => files'[f].cred = files[f].cred
                /\ files'[f].lease = IF files[f].lease.owner = p THEN NoLease
                                     ELSE files[f].lease
          /\ At(p, "logout")
      BY <1>0, <1>13, LogoutFacts DEF history
    <2>2. \A f \in 1..MaxFile :
             /\ \/ files'[f].lease = files[f].lease
                \/ files[f].lease.owner \notin Proc \ {p} /\ files'[f].lease.owner \notin Proc
             /\ files'[f].cred => files[f].cred
      BY <1>n, <2>1 DEF NoLease
    <2>3. call[p].file = db
      BY <1>0, <2>1 DEF RowsAreOpen
    <2>4. Leased(p)'
      BY <2>1, <2>3 DEF Leased, At, Moved, Claimed
    <2>5. QED
      BY <1>u, <1>w, <2>1, <2>2, <2>4, QuietLease DEF Moved
  <1>14. ASSUME NEW p \in Proc, RemoveDatabase(p) PROVE Unlapsed' /\ Recoverable'
    <2>1. /\ At(p, "removeDb") /\ Moved(p, "removeJournal") /\ db' = 0
          /\ UNCHANGED <<journal, published, files, overrun>>
      BY <1>0, <1>14, RemoveFacts DEF history
    <2>2. \A f \in 1..MaxFile : ~files[f].cred
      BY <1>u, <2>1 DEF Leased
    <2>3. ASSUME NEW q \in Proc PROVE Leased(q)'
      <3>1. CASE q = p
        BY <2>1, <3>1, IdleLeased DEF Moved, Claimed
      <3>2. CASE q # p
        <4>1. call'[q] = call[q] /\ call[q].at # "removeDb"
          BY <1>0, <2>1, <3>2 DEF Moved, Locking, InSection, Removing, At
        <4>2. QED
          BY <1>u, <2>1, <4>1 DEF Leased, Owns, At
      <3>3. QED
        BY <3>1, <3>2
    <2>4. QED
      BY <1>u, <2>1, <2>2, <2>3 DEF Unlapsed, Recoverable
  <1>15. ASSUME NEW p \in Proc, RemoveJournal(p) PROVE Unlapsed' /\ Recoverable'
    <2>1. /\ At(p, "removeJournal") /\ Ended(p)
          /\ UNCHANGED <<published, db, files, overrun>>
      BY <1>0, <1>15, ForgetFacts
    <2>2. db = 0 /\ \A q \in Proc : call[q].at \notin Claimed
      BY <1>u, <2>1, Constants DEF Guarded
    <2>3. \A f \in 1..MaxFile : ~files[f].cred
      BY <1>u, <2>2, Constants
    <2>4. ASSUME NEW q \in Proc PROVE Leased(q)'
      <3>1. call'[q].at \notin Claimed
        BY <2>1, <2>2 DEF Ended, Claimed
      <3>2. call'[q].at # "removeDb"
        BY <1>0, <2>1 DEF Ended, Locking, InSection, Removing, At
      <3>3. QED
        BY <3>1, <3>2, IdleLeased
    <2>5. QED
      BY <1>u, <2>1, <2>3, <2>4 DEF Unlapsed, Recoverable
  <1>16. ASSUME NEW p \in Proc, LogoutFails(p) PROVE Unlapsed' /\ Recoverable'
    BY <1>0, <1>a, <1>c, <1>u, <1>16, FaultFacts DEF history
  <1>17. ASSUME NEW p \in Proc, Crash(p) PROVE Unlapsed' /\ Recoverable'
    <2>1. /\ Ended(p) /\ UNCHANGED <<journal, published, db, overrun>>
          /\ \A f \in 1..MaxFile : /\ files'[f].cred = files[f].cred
                                   /\ files[f].lease.owner = p => files'[f].lease.owner = Dead
                                   /\ files[f].lease.owner # p =>
                                      files'[f].lease = files[f].lease
      BY <1>0, <1>17, FaultFacts DEF history
    <2>2. \A f \in 1..MaxFile :
             \/ files'[f].lease = files[f].lease
             \/ files[f].lease.owner \notin Proc \ {p} /\ files'[f].lease.owner \notin Proc
      BY <2>1, Constants
    <2>3. QED
      BY <1>c, <1>u, <1>w, <2>1, <2>2, QuietLease
  <1>18. CASE Lapse \/ Stall
    <2>1. /\ \A f \in 1..MaxFile :
                /\ files'[f].cred = files[f].cred
                /\ files'[f].lease.owner = files[f].lease.owner
                /\ files[f].lease.owner \in Proc => files'[f].lease = files[f].lease
          /\ UNCHANGED <<journal, published, db, call, overrun>>
      BY <1>0, <1>18, TimeFacts
    <2>2. ASSUME NEW q \in Proc PROVE Leased(q)'
      <3>1. call[q].at \in Claimed => Owns(q)'
        <4>1. SUFFICES ASSUME call[q].at \in Claimed PROVE Owns(q)'
          OBVIOUS
        <4>2. call[q].file = db /\ db \in 1..MaxFile /\ files[db].lease.owner = q /\ Owns(q)
          BY <1>u, <4>1 DEF Holding
        <4>3. files'[db].lease = files[db].lease
          BY <2>1, <4>2
        <4>4. QED
          BY <2>1, <4>2, <4>3 DEF Owns
      <3>2. At(q, "removeDb") => db \in 1..MaxFile
        BY <1>0, <1>u, TypeParts, Constants DEF Guarded
      <3>3. QED
        BY <1>u, <2>1, <3>1, <3>2 DEF Leased, At
    <2>3. QED
      BY <1>u, <2>1, <2>2 DEF Unlapsed, Recoverable
  <1>19. CASE UNCHANGED vars
    BY <1>0, <1>19, <1>u DEF vars, history, Unlapsed, Leased, Owns, At, Recoverable
  <1>20. QED
    BY <1>1, <1>2, <1>3, <1>4, <1>5, <1>6, <1>7, <1>8, <1>9, <1>10, <1>11, <1>12, <1>13,
       <1>14, <1>15, <1>16, <1>17, <1>18, <1>19 DEF Next, Step

-----------------------------------------------------------------------------
(* The theorems.                                                           *)

LEMMA InitIInv == Init => IInv
  <1> SUFFICES ASSUME Init PROVE IInv
    OBVIOUS
  <1>1. /\ journal = NoJournal /\ published = FALSE /\ db = 0 /\ lock = NoOwner
        /\ files = [f \in 1..MaxFile |-> Empty] /\ call = [p \in Proc |-> NoCall]
        /\ faults = 0 /\ stalled = FALSE /\ overrun = FALSE /\ discarded = {}
    BY DEF Init
  <1>2. /\ \A p \in Proc : call[p] = NoCall
        /\ \A f \in 1..MaxFile : files[f] = Empty
    BY <1>1
  <1>3. NoLease.owner = NoOwner
    BY DEF NoLease
  <1>4. TypeOK
    <2>1. /\ journal \in JournalType /\ db \in 0..MaxFile /\ faults \in 0..MaxFaults
      BY <1>1, NoJournalType, Constants
    <2>2. /\ files \in [1..MaxFile -> FileType] /\ call \in [Proc -> CallType]
      BY <1>1, NoCallType, EmptyType
    <2>3. QED
      BY <1>1, <2>1, <2>2, TypeParts
  <1>5. InHand /\ Locking
    BY <1>1, <1>2, NoCallType, Constants
       DEF InHand, Locking, Sessionless, Claimed, InSection, Removing
  <1>6. RowsAreOpen
    BY <1>2, <1>3, NoCallType, EmptyType, Constants DEF RowsAreOpen, At
  <1>7. Fenced
    BY <1>1, <1>2, NoCallType DEF Fenced, Guarded, Holding, Claimed, Removing, At
  <1>8. Unlapsed
    BY <1>1, <1>2, <1>3, NoCallType, EmptyType, Constants DEF Unlapsed, Leased, Claimed, At
  <1>9. PublishedHasCredential /\ Recoverable
    BY <1>1, <1>2, EmptyType DEF PublishedHasCredential, Recoverable
  <1>10. QED
    BY <1>4, <1>5, <1>6, <1>7, <1>8, <1>9 DEF IInv

\* The inductive invariant holds of every behaviour: any number of logins that
\* create, resume, discard, crash and stall.
THEOREM BootstrapInductive == Spec => []IInv
  <1>1. ASSUME IInv, [Next]_vars PROVE IInv'
    <2>1. TypeOK /\ InHand /\ Locking /\ RowsAreOpen
      BY <1>1 DEF IInv
    <2>2. TypeOK' /\ InHand' /\ Locking' /\ RowsAreOpen'
      BY <1>1, <2>1, TypeOKStep, InHandStep, LockingStep, RowsAreOpenStep
    <2>3. QED
      BY <1>1, <2>2, FencedStep, UnlapsedStep DEF IInv
  <1>2. QED
    BY <1>1, InitIInv, PTL DEF Spec

\* No cleanup, discard or resumed login takes the credential from under a
\* published profile (bootstrap.go, afterAuthorizeFailure, discardLocked).
THEOREM ProfileKeepsCredential == Spec => []PublishedHasCredential
  <1>1. IInv => PublishedHasCredential
    BY DEF IInv
  <1>2. QED
    BY <1>1, BootstrapInductive, PTL

\* While no process outlives its lease, a crash at any step leaves what the next
\* login needs to resume or discard the creation (bootstrap.go,
\* recoverOutstanding).
THEOREM CrashIsRecoverable == Spec => []Recoverable
  <1>1. IInv => Recoverable
    BY DEF IInv
  <1>2. QED
    BY <1>1, BootstrapInductive, PTL

\* Only Publish changes the profile.
LEMMA PublishedStep ==
    ASSUME IInv, [Next]_vars, published' # published
    PROVE  \E p \in Proc : Publish(p)
  <1>0. TypeOK /\ InHand /\ RowsAreOpen
    BY DEF IInv
  <1>1. \A p \in Proc : LogoutFails(p) \/ Crash(p) => UNCHANGED published
    BY <1>0, FaultFacts DEF history
  <1>2. Lapse \/ Stall => UNCHANGED published
    BY DEF Lapse, Stall
  <1>3. ASSUME NEW p \in Proc, Step(p) PROVE Publish(p) \/ UNCHANGED published
    BY <1>3 DEF Step, Create, Reserve, Recover, Finish, OpenClaimed, Authorize, Save,
                Prepare, Gate, Confirm, Reconcile, Retire, Cleanup, Discard,
                DiscardLogout, RemoveDatabase, RemoveJournal
  <1>4. QED
    BY <1>1, <1>2, <1>3 DEF Next, vars

\* A bootstrap the user discarded is not published, whatever a process that was
\* past the lease gate does next (bootstrap.go, the second gate in finish).
THEOREM DiscardHolds == Spec => DiscardIsFinal
  <1>1. ASSUME IInv, [Next]_vars
        PROVE  [published' # published /\ ~overrun =>
                  \A p \in Proc : lock' = p => call[p].id \notin discarded]_vars
    <2>0. TypeOK /\ RowsAreOpen /\ (~overrun => journal.id \notin discarded)
      BY <1>1 DEF IInv, Fenced
    <2>1. SUFFICES ASSUME published' # published, ~overrun, NEW p \in Proc, lock' = p
                   PROVE  call[p].id \notin discarded
      OBVIOUS
    <2>2. PICK q \in Proc : Publish(q)
      BY <1>1, <2>1, PublishedStep
    <2>3. lock' = q /\ journal.id = call[q].id
      BY <2>0, <2>1, <2>2, PublishFacts
    <2>4. QED
      BY <2>0, <2>1, <2>3
  <1>2. QED
    BY <1>1, BootstrapInductive, PTL DEF Spec, DiscardIsFinal
=============================================================================
