-------------------------------- MODULE Boot --------------------------------
(***************************************************************************)
(* Start-up on a database file: hbf_db_init (src/hbf/db/db.c) and          *)
(* overlay_fs_migrate_assets (src/hbf/db/overlay_fs.c), by several         *)
(* processes that share ./hbf.db, with edits by the ones that already      *)
(* serve, crashes, failing statements and power loss.                      *)
(*                                                                         *)
(* The database is what SQLite makes of it: the sequence of states its     *)
(* commits produced since the last synchronised one, one write lock, and   *)
(* the journal mode in the file's header. No connection sets a busy        *)
(* timeout, so a statement that meets a lock fails at once. A call of      *)
(* overlay_fs_write is one step, an append (module OverlayFS has its       *)
(* statements), unless its SELECT fails inside the migration.              *)
(***************************************************************************)
EXTENDS Integers, Sequences, SequencesExt, FiniteSets

CONSTANTS
  Procs,        \* processes started on the same database file
  Bundles,      \* asset bundles embedded in the binaries that may be started
  Garbage,      \* bundles uncompress() refuses, or too short for a count
  Truncated,    \* bundles that end in the middle of an entry
  Entries,      \* bundle -> sequence of [path, data], its complete entries
  Paths,
  Edits,        \* contents that a running server may write
  MaxVersions,  \* bound: no edit of a path that has this many versions, and no
                \* transaction is torn once any path has
  SchemaWrites, \* bound: statements of the schema that take the write lock
  Faults,       \* TRUE when a statement may fail
  Crashes,      \* TRUE when processes may be killed
  PowerLosses,  \* TRUE when commits that are not synchronised may be lost
  NoProc, NoBundle

Damaged == Garbage \cup Truncated
Contents == Edits \cup UNION {{e.data : e \in Range(Entries[b])} : b \in Bundles}

ASSUME EntriesAssumption ==
  Entries \in [Bundles -> Seq([path : Paths, data : Contents])]
ASSUME DamagedAssumption == Garbage \subseteq Bundles /\ Truncated \subseteq Bundles
ASSUME FlagsAssumption ==
  Faults \in BOOLEAN /\ Crashes \in BOOLEAN /\ PowerLosses \in BOOLEAN
ASSUME SchemaAssumption == SchemaWrites \in Nat \ {0}
ASSUME NoneAssumption == NoProc \notin Procs /\ NoBundle \notin Bundles

VARIABLES
  commits,  \* database states since the last synchronised one, newest last
  wal,      \* TRUE once the file's header says WAL, before that a rollback journal
  writer,   \* process that holds the write lock, or NoProc
  work,     \* the state the open transaction has built so far
  written,  \* process -> schema statements, then bundle entries, it has written
  torn,     \* history: bundles whose transaction SQLite rolled back unnoticed
  pc,       \* process -> statement it is about to execute
  bundle    \* process -> bundle of the binary it runs

vars == <<commits, wal, writer, work, written, torn, pc, bundle>>

\* What only the statements of a migration change.
database == <<commits, work, torn>>

\* A write transaction is open in the first of these.
Holding == {"schemaCommit", "entries", "record", "commit"}
\* The statement takes the write lock; the last three commit by themselves.
Locking == {"schema", "begin", "torn", "alone", "aloneRecord"}
BootSteps == Holding \cup Locking \cup {"pragma", "check", "verify"}

Current == Last(commits)

EmptyState == [files |-> [p \in Paths |-> <<>>], applied |-> {}]

Init ==
  /\ commits = <<EmptyState>>
  /\ wal = FALSE
  /\ writer = NoProc
  /\ work = EmptyState
  /\ written = [p \in Procs |-> 0]
  /\ torn = {}
  /\ pc = [p \in Procs |-> "off"]
  /\ bundle = [p \in Procs |-> NoBundle]

Goto(p, step) == pc' = [pc EXCEPT ![p] = step]

\* Its counter is of no use any more.
Forget(p) == written' = [written EXCEPT ![p] = 0]

\* A step after which the process only goes on.
Continue(p, step) ==
  Goto(p, step) /\ UNCHANGED <<database, wal, writer, written, bundle>>

\* hbf_db_init is going to return -1. What the statements hold is released by
\* their ROLLBACK or, when it is COMMIT that failed, by closing the connection.
Fail(p) ==
  /\ Goto(p, "failing")
  /\ Forget(p)
  /\ UNCHANGED <<database, wal, writer, bundle>>

\* The process is gone, and its locks and its uncommitted state with it.
Exit(p) ==
  /\ Goto(p, "off")
  /\ bundle' = [bundle EXCEPT ![p] = NoBundle]
  /\ Forget(p)
  /\ IF writer = p
       THEN writer' = NoProc /\ work' = EmptyState
       ELSE UNCHANGED <<writer, work>>
  /\ UNCHANGED <<commits, wal, torn>>

\* hbf_db_init closes the connection, main returns 1.
Close(p) == pc[p] = "failing" /\ Exit(p)

Connected(p) == pc[p] # "off"
GoesOn(p) == pc[p] \in BootSteps \cup {"running"}

\* sqlite3_open, which does not touch the file yet.
Start(p, b) ==
  /\ pc[p] = "off"
  /\ Goto(p, "pragma")
  /\ bundle' = [bundle EXCEPT ![p] = b]
  /\ UNCHANGED <<database, wal, writer, written>>

\* PRAGMA journal_mode=WAL needs the file for itself unless it has that mode
\* already. Its failure is only logged: the start goes on in the old mode.
SetJournalMode(p) ==
  /\ pc[p] = "pragma"
  /\ \/ (wal \/ writer = NoProc) /\ wal' = TRUE
     \/ /\ Faults \/ \E q \in Procs \ {p} : Connected(q)
        /\ UNCHANGED wal
  /\ Goto(p, "schema")
  /\ UNCHANGED <<database, writer, written, bundle>>

\* A statement meets a lock. In WAL mode these are statements that need the
\* write lock while another process has it, or that find another's commit
\* between their read of the file and their lock. In rollback-journal mode every
\* statement, reads included, holds a lock while it runs: any of them can fail
\* any other, and a COMMIT fails as long as somebody reads.
Refused(p) ==
  /\ \/ /\ wal
        /\ pc[p] \in Locking
        /\ writer # NoProc \/ \E q \in Procs \ {p} : GoesOn(q)
     \/ /\ ~wal
        /\ pc[p] \in BootSteps \ {"pragma"}
        /\ \E q \in Procs \ {p} : Connected(q)
  /\ Fail(p)

\* The next statement of hbf_schema_sql that writes, each a transaction of its
\* own: a CREATE ... IF NOT EXISTS of what is missing, or the bootstrap INSERT.
SchemaStatement(p) ==
  /\ pc[p] = "schema"
  /\ writer = NoProc
  /\ writer' = p
  /\ Goto(p, "schemaCommit")
  /\ UNCHANGED <<database, wal, written, bundle>>

\* A file that has the tables needs fewer of them.
SchemaCommit(p) ==
  /\ pc[p] = "schemaCommit"
  /\ writer' = NoProc
  /\ \/ /\ written[p] + 1 < SchemaWrites
        /\ written' = [written EXCEPT ![p] = @ + 1]
        /\ Goto(p, "schema")
     \/ Forget(p) /\ Goto(p, "check")
  /\ UNCHANGED <<database, wal, bundle>>

\* Mutant: the SELECT without its WHERE clause.
AnyApplied(b) == Current.applied # {}
AlreadyApplied(b) == b \in Current.applied

\* SELECT 1 FROM migrations, before and outside of the transaction; then the
\* bundle is decompressed.
CheckApplied(p) ==
  /\ pc[p] = "check"
  /\ \/ AlreadyApplied(bundle[p]) /\ Continue(p, "verify")
     \/ ~AlreadyApplied(bundle[p]) /\ bundle[p] \in Garbage /\ Fail(p)
     \/ ~AlreadyApplied(bundle[p]) /\ bundle[p] \notin Garbage /\ Continue(p, "begin")

\* A failing step of that SELECT is not ROW: the code goes on as if the bundle
\* was new.
CheckStepFails(p) ==
  /\ Faults
  /\ pc[p] = "check"
  /\ IF bundle[p] \in Garbage THEN Fail(p) ELSE Continue(p, "begin")

\* BEGIN IMMEDIATE
Begin(p) ==
  /\ pc[p] = "begin"
  /\ writer = NoProc
  /\ writer' = p
  /\ work' = Current
  /\ Goto(p, "entries")
  /\ UNCHANGED <<commits, torn, wal, written, bundle>>

\* Mutant: an entry of a path that has a version already is skipped.
StoreOnce(files, e) == [files EXCEPT ![e.path] = IF @ = <<>> THEN <<e.data>> ELSE @]

\* What overlay_fs_write does to the files.
Store(files, e) == [files EXCEPT ![e.path] = Append(@, e.data)]

\* Mutant: the read position advances over two entries.
SkipOne(n) == n + 2
NextEntry(n) == n + 1

HasEntry(p) == written[p] < Len(Entries[bundle[p]])
Entry(p) == Entries[bundle[p]][written[p] + 1]

\* overlay_fs_write in the open transaction.
WriteEntry(p) ==
  /\ pc[p] = "entries"
  /\ HasEntry(p)
  /\ work' = [work EXCEPT !.files = Store(@, Entry(p))]
  /\ written' = [written EXCEPT ![p] = NextEntry(@)]
  /\ UNCHANGED <<commits, torn, wal, writer, pc, bundle>>

\* A SELECT of overlay_fs_write fails with an I/O error or without memory. The
\* code takes that for "no row"; SQLite has rolled the transaction back and the
\* connection commits each of its next statements by itself.
TransactionTorn(p) ==
  /\ Faults
  /\ pc[p] = "entries"
  /\ HasEntry(p)
  /\ \A path \in Paths : Len(Current.files[path]) < MaxVersions
  /\ writer' = NoProc /\ work' = EmptyState
  /\ torn' = torn \cup {bundle[p]}
  /\ Goto(p, "torn")
  /\ UNCHANGED <<commits, wal, written, bundle>>

\* The write of an entry, committed at once. It needs the lock anew. The entry
\* whose SELECT failed is inserted as the first version of a new file, which the
\* keys of the tables refuse when the file exists.
WriteAlone(p) ==
  /\ pc[p] \in {"torn", "alone"}
  /\ HasEntry(p)
  /\ writer = NoProc
  /\ IF pc[p] = "torn" /\ Current.files[Entry(p).path] # <<>>
       THEN Fail(p)
       ELSE /\ commits' = Append(commits, [Current EXCEPT !.files = Store(@, Entry(p))])
            /\ written' = [written EXCEPT ![p] = NextEntry(@)]
            /\ Goto(p, "alone")
            /\ UNCHANGED <<work, torn, wal, writer, bundle>>

\* Mutant: ptr + data_len >= end, which refuses the last entry of any bundle.
LastEntryRefused(b) == Entries[b] # <<>>
ParseFails(b) == b \in Truncated

\* All complete entries are written: the rest of a truncated bundle does not
\* parse and the transaction, if there is one, is rolled back.
EntriesDone(p) ==
  /\ pc[p] \in {"entries", "alone"}
  /\ ~HasEntry(p)
  /\ IF ParseFails(bundle[p])
       THEN Fail(p)
       ELSE Continue(p, IF pc[p] = "alone" THEN "aloneRecord" ELSE "record")

\* bundle_id is the PRIMARY KEY of migrations; mutant: it is not.
NeverRecorded(applied, b) == FALSE
Recorded(applied, b) == b \in applied

\* INSERT INTO migrations
Record(p) ==
  /\ pc[p] = "record"
  /\ IF Recorded(work.applied, bundle[p])
       THEN Fail(p)
       ELSE /\ work' = [work EXCEPT !.applied = @ \cup {bundle[p]}]
            /\ Goto(p, "commit")
            /\ UNCHANGED <<commits, torn, wal, writer, written, bundle>>

\* Without the transaction this INSERT is committed, and it is the COMMIT after
\* it that fails: there is nothing to commit.
RecordAlone(p) ==
  /\ pc[p] = "aloneRecord"
  /\ writer = NoProc
  /\ IF Recorded(Current.applied, bundle[p])
       THEN Fail(p)
       ELSE /\ commits' = Append(commits, [Current EXCEPT !.applied = @ \cup {bundle[p]}])
            /\ Goto(p, "failing")
            /\ Forget(p)
            /\ UNCHANGED <<work, torn, wal, writer, bundle>>

Commit(p) ==
  /\ pc[p] = "commit"
  /\ commits' = Append(commits, work)
  /\ writer' = NoProc /\ work' = EmptyState
  /\ Goto(p, "verify")
  /\ Forget(p)
  /\ UNCHANGED <<torn, wal, bundle>>

\* overlay_fs_check_schema, overlay_fs_init_global
Verify(p) == pc[p] = "verify" /\ Continue(p, "running")

\* A statement of the start-up fails for any other reason; only the pragma's
\* failure is forgiven.
StatementFails(p) ==
  /\ Faults
  /\ pc[p] \in BootSteps \ {"pragma"}
  /\ Fail(p)

\* A running server writes a file; overlay_fs_write reports a taken lock.
Edit(p, path, data) ==
  /\ pc[p] = "running"
  /\ writer = NoProc
  /\ Len(Current.files[path]) < MaxVersions
  /\ commits' = Append(commits,
       [Current EXCEPT !.files = Store(@, [path |-> path, data |-> data])])
  /\ UNCHANGED <<work, torn, wal, writer, written, pc, bundle>>

Stop(p) == pc[p] = "running" /\ Exit(p)

\* kill -9
Crash(p) == Crashes /\ Connected(p) /\ Exit(p)

\* The WAL is synchronised (checkpoint, last close).
Sync ==
  /\ Len(commits) > 1
  /\ commits' = <<Current>>
  /\ UNCHANGED <<work, torn, wal, writer, written, pc, bundle>>

\* The machine goes down. With synchronous=NORMAL a suffix of the commits that
\* were not synchronised may be missing afterwards.
PowerLoss ==
  /\ PowerLosses
  /\ \E k \in 1 .. Len(commits) : commits' = SubSeq(commits, 1, k)
  /\ writer' = NoProc /\ work' = EmptyState
  /\ written' = [p \in Procs |-> 0]
  /\ pc' = [p \in Procs |-> "off"]
  /\ bundle' = [p \in Procs |-> NoBundle]
  /\ UNCHANGED <<torn, wal>>

BootStep(p) ==
  \/ SetJournalMode(p) \/ SchemaStatement(p) \/ SchemaCommit(p)
  \/ CheckApplied(p) \/ CheckStepFails(p)
  \/ Begin(p) \/ WriteEntry(p) \/ EntriesDone(p) \/ Record(p) \/ Commit(p)
  \/ TransactionTorn(p) \/ WriteAlone(p) \/ RecordAlone(p)
  \/ Verify(p) \/ Refused(p) \/ StatementFails(p) \/ Close(p)

StartAny == \E p \in Procs, b \in Bundles : Start(p, b)

Next ==
  \/ StartAny
  \/ \E p \in Procs :
       \/ BootStep(p)
       \/ \E path \in Paths, data \in Edits : Edit(p, path, data)
       \/ Stop(p) \/ Crash(p)
  \/ Sync
  \/ PowerLoss

Spec == Init /\ [][Next]_vars

\* Processes start while others start or serve, none is stopped or killed.
ContestNext ==
  \/ StartAny
  \/ \E p \in Procs :
       \/ BootStep(p)
       \/ \E path \in Paths, data \in Edits : Edit(p, path, data)

\* The operating system runs every process that has not exited.
ContestSpec ==
  Init /\ [][ContestNext]_vars /\ \A p \in Procs : WF_vars(BootStep(p))

-----------------------------------------------------------------------------
(* Properties *)

State == [files : [Paths -> Seq(Contents)], applied : SUBSET Bundles]

\* Type invariant; the write lock is held by the process whose transaction is
\* open, until that process has closed its connection.
TypeOK ==
  /\ commits \in Seq(State) /\ commits # <<>>
  /\ wal \in BOOLEAN
  /\ writer \in Procs \cup {NoProc}
  /\ work \in State
  /\ torn \subseteq Bundles
  /\ pc \in [Procs -> BootSteps \cup {"off", "running", "failing"}]
  /\ bundle \in [Procs -> Bundles \cup {NoBundle}]
  /\ written \in [Procs -> Nat]
  /\ \A p \in Procs :
       /\ pc[p] = "off" <=> bundle[p] = NoBundle
       /\ pc[p] \in Holding => writer = p
       /\ writer = p => pc[p] \in Holding \cup {"failing"}
       /\ pc[p] \in {"off", "pragma", "check", "begin", "verify", "running", "failing"}
            => written[p] = 0
       /\ pc[p] \in {"entries", "record", "commit", "torn", "alone", "aloneRecord"}
            => written[p] <= Len(Entries[bundle[p]])

\* How often a value occurs in a sequence.
Times(s, v) == Cardinality({i \in DOMAIN s : s[i] = v})

\* The contents tell the bundles apart, and from edits (they are labels).
ToldApart ==
  \A b \in Bundles : \A e \in Range(Entries[b]) :
    /\ e.data \notin Edits
    /\ \A c \in Bundles \ {b} : e \notin Range(Entries[c])

\* Every database state that can be found after a crash or a power loss holds
\* each bundle's entries exactly once if the bundle is recorded in migrations
\* and none of them otherwise (if the contents tell bundles apart), however many
\* processes migrate at once: the check for an earlier migration is outside the
\* transaction, the key of the migrations table inside. A migration "inserts all
\* entries" (overlay_fs.h:56) unless SQLite rolled its transaction back under it;
\* what the code then does to that bundle leaves the others alone.
AllOrNothing ==
  \A k \in DOMAIN commits, b \in Bundles \ torn : \A e \in Range(Entries[b]) :
    Times(commits[k].files[e.path], e.data) =
      IF b \in commits[k].applied THEN Times(Entries[b], e) ELSE 0

\* A process that serves has its own bundle in the database, and that bundle is
\* not damaged.
RunningIsApplied ==
  \A p \in Procs :
    pc[p] = "running" => bundle[p] \in Current.applied /\ bundle[p] \notin Damaged

\* The contents that the first n entries of bundle b hold for a path, in their
\* order: the k-th is that of the entry that is the k-th of its path.
Place(b, i) == Cardinality({j \in 1 .. i : Entries[b][j].path = Entries[b][i].path})

FirstPart(b, n, path) ==
  LET mine == {i \in 1 .. n : Entries[b][i].path = path} IN
    [k \in 1 .. Cardinality(mine) |->
       Entries[b][CHOOSE i \in mine : Place(b, i) = k].data]

AddedByBundle ==
  [b \in Bundles |-> [path \in Paths |-> FirstPart(b, Len(Entries[b]), path)]]

\* The committed states go through atomic, at most once migrations and through
\* edits, and a power loss takes whole ones back; a bundle can only come in
\* pieces after SQLite has rolled its transaction back: the statements of the
\* start-up implement AssetStore.
Assets == INSTANCE AssetStore
            WITH history <- commits, lost <- torn, Added <- AddedByBundle,
                 Pieces <- [b \in Bundles |-> Range(Entries[b])]
ImplementsAssetStore == Assets!Spec

\* When processes with good bundles start together on a file that is in WAL
\* mode, and the starts come to an end, their lock conflicts and lost races never
\* make all of them fail.
OnlyStarts ==
  (\E p \in Procs : pc[p] = "pragma") /\ \A p \in Procs : pc[p] \in {"off", "pragma"}

SomeoneServes ==
  <>[][~StartAny]_vars => ((wal /\ OnlyStarts) ~> (\E p \in Procs : pc[p] = "running"))

=============================================================================
