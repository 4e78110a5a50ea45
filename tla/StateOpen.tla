----------------------------- MODULE StateOpen -----------------------------
(***************************************************************************)
(* internal/store, Open: several processes open one profile's state        *)
(* database, creating it when it is absent.  The file is pinned first and  *)
(* SQLite opens the pinned file, not its name; under the write lock an     *)
(* empty database gets its tables, a new state key in the keyring and the  *)
(* metadata that names that key; any other one is only validated.  The key *)
(* is then read from the keyring, and a key that is not there makes the    *)
(* open fail, never a second key.                                          *)
(*                                                                         *)
(* The database and the keyring do not commit together.  Faults: a crash,  *)
(* a power loss (synchronous=NORMAL may lose the last commits of the WAL), *)
(* a keyring that fails with or without its write, the profile directory   *)
(* removed under an opener (bootstrap's cleanup), and a key the user       *)
(* deletes.                                                                *)
(***************************************************************************)
EXTENDS Naturals

CONSTANTS Opener,    \* processes
          MaxFile,   \* bound on the files created
          MaxKey,    \* bound on the state keys created
          MaxHits    \* bound on the faults of a behaviour

File == 1..MaxFile
Key == 1..MaxKey

VARIABLES named,    \* the file at the state path, 0 for none
          files,    \* the files created so far
          db,       \* the committed content of each file
          writing,  \* the opener that holds each file's write lock, or none
          keyring,  \* the state keys in the keyring
          created,  \* the state keys created so far
          deleted,  \* history: the keys the user deleted
          store,    \* the open of each process
          hits      \* the faults so far

vars == <<named, files, db, writing, keyring, created, deleted, store, hits>>

Empty == [tables |-> "none", meta |-> "none", key |-> 0, sealed |-> {}]
Closed == [at |-> "closed", file |-> 0, keyID |-> 0, cipher |-> 0]

\* No database, an empty file, or one this build does not support: tables of
\* another program, or another schema version.
Init ==
    /\ named \in {0, 1}
    /\ files = named
    /\ \E first \in { Empty, [Empty EXCEPT !.tables = "some"],
                      [Empty EXCEPT !.tables = "all", !.meta = "other"] } :
          db = [f \in File |-> IF f = named THEN first ELSE Empty]
    /\ writing = [f \in File |-> {}]
    /\ keyring = {} /\ created = 0 /\ deleted = {}
    /\ store = [p \in Opener |-> Closed]
    /\ hits = 0

Hit == hits < MaxHits /\ hits' = hits + 1
At(p, l) == store[p].at = l
Mine(p) == store[p].file
Goto(p, l) == store' = [store EXCEPT ![p].at = l]

\* Every error of Open rolls back and closes what it holds.
Shut(p) == store' = [store EXCEPT ![p] = Closed]
Unlocked(p) == [f \in File |-> writing[f] \ {p}]

-----------------------------------------------------------------------------
(* secureStatePath: open the file, else create it exclusively, else it was *)
(* created meanwhile and is opened after all.                              *)

Pin(p, f) == store' = [store EXCEPT ![p].at = "pinned", ![p].file = f]

OpenStateHandles(p) ==
    /\ At(p, "closed")
    /\ \/ named # 0 /\ Pin(p, named)
       \/ named = 0 /\ Goto(p, "create")
    /\ UNCHANGED <<named, files, db, writing, keyring, created, deleted, hits>>

CreateFile(p) ==
    /\ At(p, "create")
    /\ \/ /\ named = 0 /\ files < MaxFile
          /\ files' = files + 1 /\ named' = files + 1
          /\ Pin(p, files + 1)
       \/ /\ named # 0
          /\ Goto(p, "reopen")
          /\ UNCHANGED <<named, files>>
    /\ UNCHANGED <<db, writing, keyring, created, deleted, hits>>

OpenStateAt(p) ==
    /\ At(p, "reopen")
    /\ IF named # 0 THEN Pin(p, named) ELSE Shut(p)
    /\ UNCHANGED <<named, files, db, writing, keyring, created, deleted, hits>>

\* validateHandles or secureSQLiteSidecars refuses what it finds.
ValidateHandles(p) ==
    /\ At(p, "pinned")
    /\ Hit /\ Shut(p)
    /\ UNCHANGED <<named, files, db, writing, keyring, created, deleted>>

-----------------------------------------------------------------------------
(* openSQLite and initializeOrValidate.                                    *)

\* The file SQLite opens: /dev/fd of the pinned handle.
SqlitePinnedPath(p) == Mine(p)

\* BEGIN IMMEDIATE takes the write lock; busy past the timeouts is an error.
Begin(p) ==
    /\ At(p, "pinned")
    /\ LET f == SqlitePinnedPath(p)
       IN  \/ /\ f # 0 /\ writing[f] = {}
              /\ writing' = [writing EXCEPT ![f] = {p}]
              /\ store' = [store EXCEPT ![p].at = "locked", ![p].file = f]
           \/ /\ f = 0 \/ writing[f] # {}
              /\ Shut(p)
              /\ UNCHANGED writing
    /\ UNCHANGED <<named, files, db, keyring, created, deleted, hits>>

\* An open that takes a database without a readable key for a new one.
DatabaseIsUnreadable(p) ==
    db[Mine(p)].tables = "none" \/ db[Mine(p)].key \notin keyring

DatabaseIsEmpty(p) == db[Mine(p)].tables = "none"

\* The tables, their columns and primary keys, and the versions in meta.
Valid(d) == d.tables = "all" /\ d.meta = "current"

\* A fresh random key, stored under its own identifier.
CreateStateKey(k) == keyring \union {k}

\* The key is in the keyring before the metadata names it.
InitializeDatabase(p) ==
    /\ At(p, "locked") /\ DatabaseIsEmpty(p) /\ created < MaxKey
    /\ created' = created + 1
    /\ \/ /\ keyring' = CreateStateKey(created')
          /\ store' = [store EXCEPT ![p].at = "created", ![p].keyID = created',
                                    ![p].cipher = created']
          /\ UNCHANGED <<writing, hits>>
       \* the keyring reports an error, with or without having written
       \/ /\ Hit /\ keyring' \in {keyring, CreateStateKey(created')}
          /\ Shut(p) /\ writing' = Unlocked(p)
    /\ UNCHANGED <<named, files, db, deleted>>

ValidateMeta(p) ==
    /\ At(p, "locked") /\ ~ DatabaseIsEmpty(p)
    /\ \/ /\ Valid(db[Mine(p)])
          /\ store' = [store EXCEPT ![p].at = "validated", ![p].keyID = db[Mine(p)].key]
          /\ UNCHANGED writing
       \/ /\ ~ Valid(db[Mine(p)])
          /\ Shut(p) /\ writing' = Unlocked(p)
    /\ UNCHANGED <<named, files, db, keyring, created, deleted, hits>>

\* COMMIT: the tables and the three metadata rows at once, or the rollback.
Initialized(p) == [ tables |-> "all", meta |-> "current", key |-> store[p].keyID,
                    sealed |-> db[Mine(p)].sealed ]

CommitInitialization(p) ==
    /\ store[p].at \in {"created", "validated"}
    /\ writing' = Unlocked(p)
    /\ \/ /\ db' = IF At(p, "created") THEN [db EXCEPT ![Mine(p)] = Initialized(p)] ELSE db
          /\ Goto(p, "committed")
          /\ UNCHANGED hits
       \/ Hit /\ Shut(p) /\ UNCHANGED db
    /\ UNCHANGED <<named, files, keyring, created, deleted>>

\* GetStateKey: a missing key or a failing backend fails the open, closed.
GetStateKey(p) ==
    /\ At(p, "committed")
    /\ \/ /\ store[p].keyID \in keyring
          /\ store' = [store EXCEPT ![p].at = "open", ![p].cipher = store[p].keyID]
          /\ UNCHANGED hits
       \/ store[p].keyID \notin keyring /\ Shut(p) /\ UNCHANGED hits
       \/ Hit /\ Shut(p)
    /\ UNCHANGED <<named, files, db, writing, keyring, created, deleted>>

-----------------------------------------------------------------------------
(* An open store, and the faults.                                          *)

\* Any write of a sealed column, in its own transaction.
Seal(p) ==
    /\ At(p, "open") /\ writing[Mine(p)] = {}
    /\ db' = [db EXCEPT ![Mine(p)].sealed = @ \union {store[p].cipher}]
    /\ UNCHANGED <<named, files, writing, keyring, created, deleted, store, hits>>

Close(p) ==
    /\ At(p, "open") /\ Shut(p)
    /\ UNCHANGED <<named, files, db, writing, keyring, created, deleted, hits>>

Crash(p) ==
    /\ ~ At(p, "closed") /\ Hit /\ Shut(p)
    /\ writing' = Unlocked(p)
    /\ UNCHANGED <<named, files, db, keyring, created, deleted>>

\* The last commits may be lost: the one that initialized a file and all since,
\* or only blobs written since.
PowerLoss ==
    /\ Hit
    /\ store' = [p \in Opener |-> Closed] /\ writing' = [f \in File |-> {}]
    /\ \E f \in File, lost \in {"nothing", "blobs", "all"} :
          db' = CASE lost = "nothing" -> db
                  [] lost = "blobs" -> [db EXCEPT ![f].sealed = {}]
                  [] lost = "all" -> [db EXCEPT ![f] = IF Valid(@) THEN Empty ELSE @]
    /\ UNCHANGED <<named, files, keyring, created, deleted>>

RemoveProfile ==
    /\ Hit /\ named # 0 /\ named' = 0
    /\ UNCHANGED <<files, db, writing, keyring, created, deleted, store>>

DeleteKey(k) ==
    /\ Hit /\ k \in keyring
    /\ keyring' = keyring \ {k} /\ deleted' = deleted \union {k}
    /\ UNCHANGED <<named, files, db, writing, created, store>>

Next ==
    \/ \E p \in Opener :
          \/ OpenStateHandles(p) \/ CreateFile(p) \/ OpenStateAt(p) \/ ValidateHandles(p)
          \/ Begin(p) \/ InitializeDatabase(p) \/ ValidateMeta(p) \/ CommitInitialization(p)
          \/ GetStateKey(p) \/ Seal(p) \/ Close(p) \/ Crash(p)
    \/ PowerLoss \/ RemoveProfile
    \/ \E k \in Key : DeleteKey(k)

Spec == Init /\ [][Next]_vars
-----------------------------------------------------------------------------

\* store.go: "never falls back to plaintext or a replacement key (D14)".  A
\* committed database names a key the keyring has, unless the user deleted it,
\* everything sealed in it is under that one key, and so is what an open store
\* will seal, however opens, crashes and failed commits interleave.
OneKey ==
    /\ \A f \in File :
          /\ Valid(db[f]) => db[f].key \in keyring \union deleted
          /\ db[f].sealed \subseteq {db[f].key}
    /\ \A p \in Opener : At(p, "open") => store[p].cipher = db[Mine(p)].key
=============================================================================
