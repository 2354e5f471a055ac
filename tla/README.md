# TLA+ specifications of HBF

HBF is a web server in one binary: CivetWeb for HTTP, QuickJS for the
application's JavaScript, SQLite for everything that is stored, the
application's own files included. This directory holds TLA+ models of the parts
whose correctness depends on the order of steps, TLC configurations that check
them on small instances, and TLAPS proofs that hold for instances of any size.

## The system

| Part | State | Operations | Interacts with |
|---|---|---|---|
| Overlay file system (`hbf/db/overlay_fs.c`, `overlay_schema.sql`) | tables `file_ids`, `file_versions`, `latest_files_meta`; the global connection | `overlay_fs_write`, `_read`, `_read_file`, `_exists`, `_version_count`; triggers | called by start-up, static handler, QuickJS handler, module loader; its tables are written by scripts |
| Start-up and migration (`hbf/db/db.c`, `overlay_fs.c`) | table `migrations`, SQLite's write lock, the journal mode | `hbf_db_init`, `overlay_fs_migrate_assets` | other processes on the same `./hbf.db` |
| HTTP server (`hbf/http/server.c`) | CivetWeb context, registered handlers | start, stop, `/health`, `/static/**` | four worker threads |
| QuickJS handler (`hbf/http/handler.c`) | `handler_mutex`, one runtime at a time | `hbf_qjs_request_handler` | engine, bindings, overlay file system |
| Engine (`hbf/qjs/engine.c`) | configuration, runtimes, start time | create, destroy, evaluate, interrupt | handler |
| Bindings (`hbf/qjs/bindings`) | response record, global class id | `req`, `res.status/set/send/json` | handler, scripts |
| Database module (`hbf/qjs/db_module.c`) | none of its own: the shared connection | `db.query`, `db.execute` | scripts, every table |
| Module loader (`hbf/qjs/module_loader.c`) | none | normalise a name, load a source | engine, `file_versions` |
| Process (`hbf/shell/main.c`, `config.c`, `log.c`) | `running` flag | start, wait for a signal, shut down | everything |
| Asset packer (`tools/asset_packer.c`) | none (build time) | writes the bundle | migration |

What is hard here:

* One SQLite connection is shared by all threads. SQLite makes a statement
  atomic; nothing makes two of them atomic, and `sqlite3_last_insert_rowid`,
  the open transaction and the row counters belong to the connection.
* `overlay_fs_write` is up to five statements, each committed on its own.
* Several processes may start on one database file, without a busy timeout, and
  a start goes on when it could not put the file in WAL mode.
* Errors that the code does not notice: a SELECT that fails counts as one without
  rows, also when SQLite rolled the open transaction back for it.
* Crashes between statements; power loss that takes commits which the WAL has
  not synchronised (`synchronous=NORMAL`, `.bazelrc:47`).
* A mutex that eleven exits of one function have to give back, around a global
  class id that is reset for each runtime.
* Handlers registered while the server already accepts; shutdown while workers
  are inside a handler.
* A copy of a view (`latest_files_meta`) that triggers keep.
* Scripts that loop, queue jobs that queue jobs, and call the response from
  inside the conversion of another call's argument, under one time limit that
  several C functions hide from them and SQL does not heed.
* A bundle format that is written by one program and read by another.

`PROJECT.json` lists these as hazards, at their lines, with the properties that
would show each going wrong.

## Modules

| Module | Models |
|---|---|
| `OverlayFS` | `overlay_fs_write`, one action per SQL statement, any number of threads, failing statements, restarts; both read functions |
| `VersionedFiles` | abstract: a history per path, a write is one atomic append |
| `FileSchema` | the triggers and the bootstrap under multi-row INSERT, REPLACE, IGNORE and DELETE from scripts |
| `Boot` | `hbf_db_init` and `overlay_fs_migrate_assets` by several processes, journal mode, schema, write lock, lost transaction, crash, power loss |
| `AssetStore` | abstract: a bundle is applied completely and at most once, unless its transaction was lost |
| `HbfServer` | main thread, CivetWeb workers, the QuickJS handler step by step, the shared connection's transaction |
| `Bundle` | `tools/asset_packer.c` and the parser of `overlay_fs_migrate_assets`, byte by byte |
| `Script` | one request's JavaScript: module graph, time limit, interrupt handler and what becomes of an interruption, SQL, both job loops, calls of `res` |
| `Response` | what `res.status/set/send/json` do to the response record |
| `ModuleName` | `hbf_qjs_module_normalize`, and what an import means |
| `MC_Boot`, `MC_FileSchema`, `MC_Bundle`, `MC_Script` | values of constants for TLC |
| `OverlayFSProofs`, `OneCreatorProofs`, `FilesRefinementProofs`, `FileSchemaProofs`, `BootProofs`, `BundleProofs`, `ScriptProofs`, `HbfServerProofs` | theorems |

`Script` extends `Response` and `ModuleName`. `Script` and `HbfServer` describe
the same handler at two scales: `HbfServer` has many requests, whose scripts it
takes to do anything; `Script` has one and shows when it ends.
`Bundle` and `Boot` do so for the migration: `Boot` has its processes, statements
and crashes and takes a bundle for a sequence of entries, which `Bundle` shows.

### OverlayFS

`ids`, `versions`, `meta` and `seq` are the tables; `rowid` is what the
connection remembers of its last INSERT; `pc`, `call`, `fileId`, `nextVer` and
`rc` are the locals of each thread inside `overlay_fs_write`. Each action is one
statement with the code that looks at its result: `GetId`, `InsertId`,
`LastRowid` (the call of `sqlite3_last_insert_rowid`, which takes no lock),
`GetVersion`, `InsertVersion` (with its trigger), and for each the ways it can
fail. A failing *step* of a SELECT is not noticed by the code and has actions of
its own (`GetIdStepFails`, `GetVersionStepFails`). `disturbed` is a history
variable: the calls that met a failing statement or another call on their path.
The schema's indexes, times and sizes are left out, contents are told apart
only by equality.

`OneCreatorSpec` restricts the interleavings to those in which the first write
of a path runs alone. This is how the repository uses `overlay_fs_write` today:
its only caller outside the tests is the migration, before the server starts.
`Spec` has no such restriction and is what the header promises for
`overlay_fs_write_file`.

### FileSchema

A statement is a set of rows (`todo`) that is worked off row by row in any
order, each with its trigger; `Fail` and `Close` take the whole statement back.
Init is any `file_versions` table without `latest_files_meta`, which is what an
older release left: the bootstrap INSERT has work to do.

### Boot

`commits` is the sequence of database states since the last synchronised one:
a process crash keeps the last, a power loss any of them. (In rollback-journal
mode a commit is durable at once; the model lets it be lost there, too.) `writer`
is SQLite's write lock, `work` the state the open transaction has built. A bundle
is a sequence of entries; damaged ones are members of `Garbage` (refused before
the transaction) or `Truncated` (refused after their complete entries are
written).

`Start` opens the connection. `SetJournalMode` is the PRAGMA, whose failure the
code only logs: `wal` says what the file's header says in the end.
`SchemaStatement` and `SchemaCommit` are the statements of the schema that write,
each with a write lock of its own; `SchemaWrites` bounds their number, and a file
that has the tables needs fewer. `Refused` is every statement that meets a lock.
In WAL mode these are the ones that write; in rollback-journal mode any statement
of one process may fail any of another. Every error return is `Fail`, then
`Close`: the transaction and its lock are there until the connection is closed,
which stands for the code's ROLLBACKs, too. A serving process may `Edit` a file.

A call of `overlay_fs_write` is one step here. Its SELECTs are the exception:
the code takes a failing one for "no row", and for an I/O error or without memory
SQLite rolls the whole transaction back and is in autocommit mode again. That is
`TransactionTorn`; the write of this and of the next entries is then `WriteAlone`,
which commits, and the record of the migration `RecordAlone`, after which the
COMMIT fails because nothing is open. The next start finds the bundle recorded and
serves without the entries that were rolled back, although `overlay_fs.h:56` says
that the migration inserts all of them. `torn` is a history variable, the
bundles that met this. The version numbers and ids of such a write are not told
apart: one whose second SELECT failed for a path the bundle names twice can leave
a version whose id is no longer in `file_ids`.

`AssetStore` is instantiated with `commits` as its history, `torn` as its `lost`
and, for what a bundle adds to a path, `AddedByBundle`, the contents of its
entries of that path in their order: a migration is one step of it (`Apply`), a
power loss is its `LosePower`, a synchronisation its `Settle`. `TransactionTorn`
is its `LoseTransaction`; only after it may a bundle come as `Piece`s and be
recorded without them (`Mark`).

### Bundle

`AddFile`, `Sort`, `PackCount` and `PackEntry` are the packer, `Embed` is zlib and
the C array, `Decompress`, `ReadCount`, `ReadEntry` and `Commit` the migration. A
byte is a number, a word four of them, and every test of the parser against the
end of the buffer is one conjunct of `EntryAvailable`. `Sort` picks any
arrangement in the order of `strcmp`, because `qsort` is not stable. `Embed` also
delivers every proper prefix of the packed bytes and every change of one byte to
one of `WrongBytes`. Sizes of compressed data are chosen from `Sizes`: how well
zlib does is data. `offsets` is a history variable, used by the proofs. A command
line without files ends in main and is not one of `CommandLines`.

### Script

`Import` and `Linked` load the module graph; `TakeJob`, `Lookup`, `CallHandle`,
`JobsDone` and `Respond` are the C code; between them a script runs (`Running`):
time passes (`Tick`), it queues jobs (`Enqueue`), calls a method of `res` (`Enter`,
then `Finish` or `ConversionFails`), returns or throws (`Return`), executes SQL
(`Statement`), and QuickJS polls the interrupt handler (`Poll`). Script also runs
where the handler reads `globalThis.app` and `app.handle`, which may have
accessors (`lookup`), and where it makes a string of an exception (`describe`).
`elapsed` is what the interrupt handler computes; `spent` is a history variable,
the script time since the module or `app.handle` began, which no job resets, and
`waited` the part of it that statements of SQL took. A method of `res` tests,
converts its arguments, acts: `stack` holds the calls whose conversion is running,
so a conversion that calls `res` again meets the state between test and act.

`Interrupted` is what becomes of an interruption. It can end the piece of script
that runs, as it should. It can end it as if nothing had happened: a promise was
rejected with it, an accessor counts as absent, the text of the exception as
unknown. Or it ends only a call of C code that does not pass it on, and the script
goes on: `res.set` and `console.*` return undefined, `db.query` and `db.execute`
throw a TypeError that can be caught or ignore the parameter. In the last two
cases it is `hidden`, a history variable. Whether an interrupted promise job makes
`JS_ExecutePendingJob` fail or just rejects its promise is QuickJS's affair; both
are behaviours of the model, in either loop. While a statement of SQL runs (`sql`)
nothing polls: no progress handler is installed.

`reentered` and `hidden` are the situations in which the code breaks its promises;
the properties say what holds otherwise. Without these exceptions TLC violates
`FirstSendWins`, `HeadersFit` (the 33rd entry of a table of 32), `HoldBound` and
`ScriptEnds`. In particular the "5s execution timeout" of the repository's README
does not hold for a script that loops over `console.log({toString() {...}})`, nor
for one that sits in an SQL statement.

Taken from QuickJS: imports are resolved before anything runs; script cannot catch
an interruption. Not modelled: loading is not timed.

### HbfServer

One `pc` per worker. The handler's steps are in the order of the code, and each
error path is `FailWith`: destroy the runtime if there is one, unlock, then
answer, whereas the normal path answers first. Scripts are content of the
database: they `Execute` any of the constant `Sql`'s statements, once each per
request, while the module is evaluated and while `app.handle` runs, and end in
any way, or not at all. `inTx`, `pending` and `committed` are the shared connection's
transaction. `classId` names the runtime the global class id was allocated in.
CivetWeb is external: it accepts once `mg_start` has returned, sends 404 itself
without a handler or when a handler returns no positive number, and `mg_stop`
waits for its workers. QuickJS is external: evaluating a module returns a
promise, which a throwing module rejects.

## Runs

| Run | Shows |
|---|---|
| `OverlayFS_free` | `VersionsContiguous`, `MetaMirrorsLatest` under all interleavings of two threads on two paths, failures and restarts |
| `OverlayFS_onecreator` | `ReadsAgree`, `ReadsNewest`, `FailsOnlyIfDisturbed`, and `ImplementsFiles`: the tables implement `VersionedFiles` when creators run alone |
| `OverlayFS_race` (violated) | without that restriction `ReadsAgree` fails: a thread stores its content under the other's `file_id` |
| `MC_FileSchema` | `MetaInSync` after every row of every statement |
| `MC_Boot_power` | `AllOrNothing`, `RunningIsApplied` and the refinement `ImplementsAssetStore` with two releases, a truncated and a garbage bundle, failures, lost transactions, crashes and power loss |
| `MC_Boot_contest` | `SomeoneServes`: three processes contend for the locks of a file in WAL mode, not all give up |
| `HbfServer` | `OneRuntime`, `ClassIsCurrent`, `AnsweredOnce`, `IsolatedUnlessLeaked`, `NothingAfterClose`, and, as long as scripts end, `EveryRequestAnswered` and `ShutsDown`; no deadlock |
| `HbfServer_leak` (violated) | `EachExecuteIsATransaction` fails: an INSERT runs in a transaction an earlier request left open |
| `HbfServer_module` (violated) | `FailedModuleIs5xx` fails: a module that throws after setting `globalThis.app` is served with 200 |
| `MC_Bundle` | `RoundTrip`, `Accounted`, `TruncatedRefused`, `CompleteAccepted`, `Deterministic` |
| `MC_Script` | `LoadsWhatItMeans`, `FirstSendWins`, `JsonIsTyped`, `HeadersFit`, `HoldBound`, `FullBudget`, `NoJobLost`, `ScriptEnds` |
| `MC_Script_parent` (violated) | `RelativeIsResolved` fails: `../b.js` is not found although the file it means is there |

A second bundle on the same file is appended behind what is there, so its
entries are not "version 1" as `overlay_fs.h:56` has it; `AssetStore` says what
the code does.

The violated runs check what a comment or document of the repository says; the
`findings` of `PROJECT.json` quote it. Three more such disagreements have no run of
their own; they show as the exceptions of the properties named: a crash between
the two INSERTs of `overlay_fs_write` leaves a path that exists and cannot be read
(the states with an id and no version, which `FailsOnlyIfDisturbed` is about), a
lost transaction leaves a recorded bundle incomplete (`torn` in `AllOrNothing`),
and the time limit can be hidden (`hidden` in `HoldBound` and `ScriptEnds`).

### Bounds

* Two writers, two paths, two contents, `MaxRows` 3 versions: the races need two
  threads and two new paths, a third row lets a second write meet what a failed
  or crashed first one left. The bound stops new calls, not the ones in progress.
* `FileSchema`: two files, three version numbers (delete the newest, the middle
  or the oldest), two values of the path column, statements of one or two rows.
* `Boot`: two processes (three for `SomeoneServes`), a release of two files, one
  that replaces one of them, both kinds of damage; no edit and no lost transaction
  once a path has `MaxVersions` versions (1), so that `commits` stays finite. The
  second process can write in between all the same, so a lost transaction goes on
  over files that are there. The content of an entry names its bundle, so counting
  contents counts migrations. One writing statement of the schema (`SchemaWrites`)
  in `MC_Boot_power`, where it only adds ways to fail; two in `MC_Boot_contest`, so
  that a lock is given back and taken again.
* `HbfServer`: two workers of four and two requests to any path are enough for
  every conflict over the mutex, the class id and the transaction; a third request
  would only queue. Statuses 0 and 200 are the two ways CivetWeb treats a
  result. Requests are finite in number, each statement once per request.
* `Bundle`: command lines of up to three of three small files and a source map,
  so that a path occurs twice, is a prefix of another and differs in its second
  byte; an empty file, one that looks like a length, one too large (`MaxFileSize`
  2), one unreadable. Compressed sizes 1, 3 and 4 fall on both sides of a tenth of
  what is packed. Cut at every position; a wrong byte is 0, 1 or 9, a length that
  is too small, right elsewhere, or past the end.
* `Script`: a limit of 2 and polls at most 1 apart; one pending job at a time, which
  may queue the next; a header table of two entries, of which `set` and `json` can
  each take the last; calls nested two deep: the second is the one that invalidates
  the first's test. The status code is data to these properties. `MaxTime` is past
  every bound the properties state: the clock stops there only for scripts that
  hide an interruption and for SQL. The databases have a graph of five modules in
  three directories, with files of the same name that must not be found, and five
  whose imports do not all resolve.

### Fairness

`ContestSpec` assumes weak fairness of each process's start-up step: the
operating system runs a process that can run, and a step here never blocks,
because a taken lock is an error. Processes are not stopped or killed there,
since then nobody needs to serve; that run stops when all serve and no edit is
left, so deadlock is not checked. `SomeoneServes` has two premises. The file is in
WAL mode: on a new one, where the PRAGMA may fail, a reader makes another's COMMIT
fail while the other's lock fails the reader, and all exit. And the starts come to
an end: processes that are started again and again can refuse each other forever.

`FairSpec` of `HbfServer` assumes weak fairness of the main thread and of the
workers' C code (`CodeStep`); that a body arrives or is given up is CivetWeb's
request timeout. It assumes nothing of the steps that run JavaScript
(`ScriptStep`), because the code does not make every script end. The two liveness
properties have that as a premise, `ScriptsEnd`: no worker stays in its script
forever. They then say that the C code around the scripts gives the mutex back
and answers. Weak fairness of `Lock` is enough because the requests of an instance
are finite: the mutex is free for good in the end. With an endless stream of
requests a pthread mutex promises no more. `Signal` and `Accept` are not fair. The
process really ends: the ended process is the only state that may stay (`Exited`),
any other is a deadlock.

`Script` says which scripts meet `ScriptsEnd`. Its `Spec` has weak fairness of the
handler's own C code and strong fairness of `Tick` and `Poll`: a script that runs
takes time, and QuickJS polls every so many branches and calls. Nothing makes a
script return, finish a conversion, stop queueing jobs or leave an SQL statement.
`ScriptEnds` shows that a script ends unless it hides an interruption or stays in
a statement.

## Proofs

All proofs are checked by `tlapm` with Z3, Zenon and LS4, for any sets of
writers, paths, contents, workers and requests.

`OverlayFSProofs`: `TypeCorrect`, `ContiguousHistory` and `MetaInStep` for
`Spec`, that is without any assumption on callers. `VersionsContiguous` is not
inductive: a thread inserts a number it read earlier. `FreeInv` adds `Numbered`
(the numbers of each `file_id` are exactly `1 .. n`) and `ReadyToInsert` (a thread
before its INSERT holds a number that is at most one above the present maximum,
which other writers can only raise). `InsertNumbers` and `InsertMeta` then say
what the INSERT and its trigger do, `BootstrapKeeps` that a restart changes
nothing.

`OneCreatorProofs`: `ReadsAlwaysAgree` and `FailuresAreCaused` for
`OneCreatorSpec`. `OneInv` adds that ids belong to one path, that the path
column of every row is the path of its id, and that a thread's local `file_id` is
its own path's; the last is what the restriction protects between the INSERT
and `last_insert_rowid`. `CallInv` adds that an undisturbed call still holds the
number that is free.

`FilesRefinementProofs`: `ImplementsVersionedFiles`, the refinement. Each step
maps to `Store`, `Fail`, `Invoke`, `Reply` or `Crash` of `VersionedFiles` or to a
stutter; the work is in showing that inserting a row appends to one history and
leaves the others alone. `NewestIsRead`: a read returns the last content of that
history, since the row with the highest number of an id is the only one with it.

`FileSchemaProofs`: `TriggersKeepSync` and the type invariant. One lemma per trigger; each rests on
`NewestExists`, that a file with rows has a newest one, which holds for infinite
tables too because version numbers are bounded (`VersAssumption`: they are 64 bit
integers). `SavedInSync` strengthens the invariant for statements that fail.

`BootProofs`: all of `Boot` but `SomeoneServes`, for any number of processes,
bundles and versions. `StepCases` sorts the statements by what they change: most
only move one process, every error return is the same `Fail`, every end the same
`Exit`; what remains opens, fills, commits or loses a transaction, or commits a
single row without one. `BootInv` is what is known between two statements: no
state records a damaged bundle (`NoDamage`); a process past its checks has a bundle
that passed them, and one that verifies or serves has it recorded, which other
processes' commits keep so and a power loss leaves no process to ask (`Found`); the
open transaction is the newest state plus the first `written` entries of the
writer's bundle, because nobody else commits while the lock is taken (`Progress`).
At COMMIT that is `AssetStore`'s `Apply` (`AssetsImplemented`); the key of the
migrations table gives "at most once", not the check before the transaction, and
does so for `Mark`, too. `PartNext` is the lemma about `FirstPart` for one entry
more, proved by counting, without induction. `Atomicity` counts occurrences
(`Counted`), also while other bundles come in pieces (`CountAlone`), and has one
hypothesis, `ToldApart`: an entry that is in two bundles, or equals an edit, could
not be attributed to one of them. `AssetsImplemented` needs no such hypothesis.

`ScriptProofs`: the eight invariants of `Script`, for every database, limit, polling interval, table and queue. `HoldBound` is not inductive:
`HeldInv` says how much time outside of SQL a script has had at each place of the
handler, as long as nothing hid an interruption from it. The module or `app.handle`
is past the limit by at most what has passed since the last poll; once it is over,
by at most one `Step` more, because a job that starts overdue is found so at its
first poll and ends its loop; and once more for the script that describes the
exception. `TimeInv` adds that the interrupt handler's time is the time really
spent, `OutcomeInv` where `app.handle` has an outcome. `HandlerStep` goes through
the steps, `HeldEnds` and `HeldKept` do the arithmetic for a piece that ends and
for one that goes on. `QueueInv` says when the loop may be left. `ResponseInv` ties the
record to its history as long as nothing was re-entered: at most one call is on
the stack, and what it tested is still so. `Promise` is the part of it that
implies the properties of the response. For `LoadsWhatItMeans`, `NormalizeMeans`
says that a name which is normalized to that of a file is where the walk over its
segments leads; "../" and a full buffer leave names no file has
(`AppsAssumption`: files have names without "." and ".." segments, as the build
packs them; a script could store others, which an unresolved "../" then finds
literally). The walk is recursive; `WalkIs` and
`WalkPlain` compare it with functions given outright, by the least number at which
they differ (`LeastNumber`), which is the induction the provers cannot do
themselves. `LoadInv` says that what is loaded was requested and, once linking is
over, the converse.

`HbfServerProofs`: the six invariants of `HbfServer`, for any number of workers and
requests and any scripts. `Turns` reduces the steps of a worker to eleven kinds by
what they do to the request, the mutex, the runtime and the reply; the parts of
`IInv` are then proved over these. `TypeOK` needs `Registered` (the handlers come in
their order). `OneRuntime` follows from `Owned`, that a runtime belongs to the
request of the worker that holds the mutex, and `OneWorker`, that no two workers
have one request. `ClassIsFresh` says the class id is 0 when it is allocated, which
is why the reset in `CreateContext` is needed. `InProgress` gives what has been sent
at each step. For `IsolatedUnlessLeaked`, `Blame` says that an open transaction,
or one that was ended by a request that did not begin it, always leads to a request
that began one and never ended it; `LeakedStays`, that such a request, once its
script is over, stays one, because it is never served again.

`BundleProofs`: all properties of `Bundle`, for
files of any number, names and sizes that 32 bits can state. `WordValue` is that
`read_u32` inverts the packer's `memcpy`, `SliceAt` that what was put in at a
position is cut out there, `ReadBack` that an entry is available exactly if all
its bytes arrived and is then read as it was written. `Layout` is the invariant of
the packer: each entry at its offset, the next one where it ends. `Reading` is
that of the parser: on bytes that are a beginning of the packed ones it stands at
a boundary with the entries before it stored. What a bundle with a wrong byte
yields is not said, except that as many bytes arrived as were packed, and
`Accounted`, which holds for any bytes: `BytesAppended` counts the bytes of one file
more. `PackingIsDeterministic` covers every sort `qsort` may do. `Deterministic` names
the r-th file of a canonical bundle by how many kept paths are smaller, which depends
on the arguments as a bag; the proof shows that this is the r-th entry. `Gathered`
keeps a bijection between entries and kept arguments, which the sort composes with
its permutation; `Ordered` is what the sort leaves; `BeforeTransitive` and
`BeforeTotal` make `strcmp` a strict order, so that `SortedPlace` and `PlacesApart`
give each place one path. `CanonicalIs`, like `WalkIs` above, compares a recursive
function with the bytes really packed by the least place at which they differ.

Assumptions are the named ASSUMEs of the modules; TLC evaluates them in every run.

Only model-checked: all liveness (`SomeoneServes`,
`EveryRequestAnswered`, `ShutsDown`, `ScriptEnds`), which the provers cannot do (ENABLED and
fairness).

## Not modelled

The MIME table, header text and logging; SHA-256 (bundles are told apart as
values); arguments of the two programs and the C source the packer generates;
the fields of `req`, parameters and results of `db.query` and `db.execute`, which
are data; the SQLAR accessors of `db.c`, which are the same query as `ReadFile`;
`hbf_qjs_eval` and `overlay_fs_init`, which only tests call; `UPDATE` statements
from scripts, for which the schema has no trigger because files are append-only;
allocations that fail, except those of `res`; how long a slow client keeps the
mutex; pods, build rules, shell scripts, vendored libraries.

## Plan

1. Composition of `HbfServer` with the tables: a static request that reads while
   a script's transaction is open.
2. `Config`, the argument loop, and the padding of `compute_bundle_id`, against
   reference definitions.
