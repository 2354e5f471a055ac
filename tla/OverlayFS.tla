----------------------------- MODULE OverlayFS -----------------------------
(***************************************************************************)
(* The versioned file system of src/hbf/db: the tables file_ids,           *)
(* file_versions and latest_files_meta of overlay_schema.sql, and the      *)
(* functions of overlay_fs.c that read and append to them.                 *)
(*                                                                         *)
(* Every thread of the process uses ONE SQLite connection (g_overlay_db).  *)
(* SQLite makes a single statement atomic; overlay_fs_write is a sequence  *)
(* of up to five of them, each in its own autocommit transaction, so each  *)
(* is an action of its own here and any other writer can run in between.   *)
(***************************************************************************)
EXTENDS Integers, FiniteSets, FiniteSetsExt

CONSTANTS
  Writers,   \* threads that may be inside overlay_fs_write
  Paths,     \* file paths
  Contents,  \* file contents, told apart only by equality
  MaxRows,   \* bound: no new call once file_versions holds this many rows
  Faults,    \* TRUE when a statement may fail (I/O error, full disk, busy)
  NoCall     \* the arguments of a thread that is not in a call

Args == [path : Paths, data : Contents]

ASSUME FaultsAssumption == Faults \in BOOLEAN
ASSUME MaxRowsAssumption == MaxRows \in Nat
ASSUME NoCallAssumption == NoCall \notin Args

VARIABLES
  ids,       \* file_ids: path -> file_id, 0 when the path has no row
  seq,       \* sqlite_sequence entry of file_ids (AUTOINCREMENT)
  versions,  \* file_versions: set of rows [id, ver, path, data]
  meta,      \* latest_files_meta: set of rows [id, ver, path]
  rowid,     \* sqlite3_last_insert_rowid of the shared connection
  pc,        \* statement each writer is about to execute
  call,      \* arguments of the call in progress
  fileId,    \* local file_id, -1 before it is known
  nextVer,   \* local next_version
  rc,        \* value the call returns
  disturbed  \* history: writers whose call met a fault, or a call on its path

db == <<ids, seq, versions, meta, rowid>>
locals == <<call, fileId, nextVer, rc, disturbed>>
vars == <<ids, seq, versions, meta, rowid, pc, call, fileId, nextVer, rc,
          disturbed>>

Row == [id : Nat, ver : Nat, path : Paths, data : Contents]
MetaRow == [id : Nat, ver : Nat, path : Paths]
Steps == {"idle", "get_id", "insert_id", "last_rowid", "get_version",
          "insert", "return"}

-----------------------------------------------------------------------------
(* Tables *)

RowsOf(i) == {r \in versions : r.id = i}

\* SELECT MAX(version_number) ... WHERE file_id = i, NULL read as 0.
MaxVersion(i) == Max({0} \cup {r.ver : r \in RowsOf(i)})

\* The rows the latest_files view selects: the highest version of each id.
Latest == {r \in versions : r.ver = MaxVersion(r.id)}

Metadata(r) == [id |-> r.id, ver |-> r.ver, path |-> r.path]

\* Mutant: ON CONFLICT(file_id) DO NOTHING.
UpsertKeepsOld(m, r) ==
  IF \E o \in m : o.id = r.id THEN m ELSE m \cup {Metadata(r)}

\* INSERT ... ON CONFLICT(file_id) DO UPDATE ... WHERE excluded.version_number
\* >= latest_files_meta.version_number, the body of trg_file_versions_ai.
Upsert(m, r) ==
  IF \E o \in m : o.id = r.id /\ o.ver > r.ver
    THEN m
    ELSE {o \in m : o.id # r.id} \cup {Metadata(r)}

\* The same upsert for every row of latest_files, when the schema is applied
\* to an existing database at start-up.
Bootstrap(m) ==
  {o \in m : \A r \in Latest : r.id = o.id => o.ver > r.ver}
    \cup {Metadata(r) : r \in {s \in Latest :
                        \A o \in m : o.id = s.id => s.ver >= o.ver}}

\* overlay_fs_read: newest row of the file_id that file_ids gives the path.
\* {} stands for "file not found".
\* Mutant: ORDER BY version_number without DESC.
ReadOldest(path) == {r.data : r \in {s \in versions : s.id = ids[path] /\ s.ver = 1}}
Read(path) == {r.data : r \in {s \in Latest : s.id = ids[path]}}

\* overlay_fs_read_file, hbf_db_read_file: newest rows whose own path column is
\* the path; SQLite may return any of them first.
ReadFile(path) == {r.data : r \in {s \in Latest : s.path = path}}

\* overlay_fs_exists looks at file_ids, overlay_fs_version_count at both tables.
Exists(path) == ids[path] # 0
VersionCount(path) == IF Exists(path) THEN Cardinality(RowsOf(ids[path])) ELSE 0

-----------------------------------------------------------------------------
(* overlay_fs_write *)

Busy(w) == pc[w] # "idle"

Goto(w, step) == pc' = [pc EXCEPT ![w] = step]

Return(w, value) ==
  /\ Goto(w, "return")
  /\ rc' = [rc EXCEPT ![w] = value]

\* A statement of w fails; the call can no longer be promised to succeed.
Disturb(w) ==
  /\ Faults
  /\ disturbed' = disturbed \cup {w}

Rivals(w, path) == {v \in Writers \ {w} : Busy(v) /\ call[v].path = path}

Init ==
  /\ ids = [p \in Paths |-> 0]
  /\ seq = 0
  /\ versions = {}
  /\ meta = {}
  /\ rowid = 0
  /\ pc = [w \in Writers |-> "idle"]
  /\ call = [w \in Writers |-> NoCall]
  /\ fileId = [w \in Writers |-> -1]
  /\ nextVer = [w \in Writers |-> 1]
  /\ rc = [w \in Writers |-> 0]
  /\ disturbed = {}

\* A thread enters overlay_fs_write(path, data).
Call(w, path, data) ==
  /\ ~Busy(w)
  /\ Cardinality(versions) < MaxRows
  /\ Goto(w, "get_id")
  /\ call' = [call EXCEPT ![w] = [path |-> path, data |-> data]]
  /\ disturbed' = IF Rivals(w, path) = {} THEN disturbed
                  ELSE disturbed \cup Rivals(w, path) \cup {w}
  /\ UNCHANGED <<db, fileId, nextVer, rc>>

\* SELECT file_id FROM file_ids WHERE path = ?
GetId(w) ==
  /\ pc[w] = "get_id"
  /\ LET found == ids[call[w].path] IN
       IF found # 0
         THEN /\ fileId' = [fileId EXCEPT ![w] = found]
              /\ Goto(w, "get_version")
         ELSE Goto(w, "insert_id") /\ UNCHANGED fileId
  /\ UNCHANGED <<db, call, nextVer, rc, disturbed>>

\* The step fails: the result is neither ROW nor an error for the code, which
\* goes on as if the path had no file_id.
GetIdStepFails(w) ==
  /\ pc[w] = "get_id"
  /\ Disturb(w)
  /\ Goto(w, "insert_id")
  /\ UNCHANGED <<db, call, fileId, nextVer, rc>>

\* UNIQUE(path) of file_ids; mutant: the constraint is missing.
NeverTaken(path) == FALSE
PathTaken(path) == Exists(path)

\* INSERT INTO file_ids (path) VALUES (?): UNIQUE(path) refuses a path that got
\* its row meanwhile. AUTOINCREMENT never hands out an id twice.
InsertId(w) ==
  /\ pc[w] = "insert_id"
  /\ LET path == call[w].path IN
       IF PathTaken(path)
         THEN Return(w, -1) /\ UNCHANGED <<ids, seq, rowid>>
         ELSE /\ seq' = seq + 1
              /\ ids' = [ids EXCEPT ![path] = seq + 1]
              /\ rowid' = seq + 1
              /\ Goto(w, "last_rowid")
              /\ UNCHANGED rc
  /\ UNCHANGED <<versions, meta, call, fileId, nextVer, disturbed>>

\* What sqlite3_last_insert_rowid can return. It takes no mutex: besides the
\* last INSERT of the connection it may see the row that the trigger of another
\* thread's INSERT is adding to latest_files_meta at that moment.
LastInsertRowids(w) ==
  {rowid} \cup {fileId[v] : v \in {u \in Writers \ {w} :
                   pc[u] = "insert" /\ \A m \in meta : m.id # fileId[u]}}

LastRowid(w) ==
  /\ pc[w] = "last_rowid"
  /\ \E id \in LastInsertRowids(w) : fileId' = [fileId EXCEPT ![w] = id]
  /\ Goto(w, "insert")
  /\ UNCHANGED <<db, call, nextVer, rc, disturbed>>

\* Mutants: the version of the newest row itself, and a number that skips one.
SameVersion(i) == MaxVersion(i)
SkipVersion(i) == MaxVersion(i) + 2

\* next_version = sqlite3_column_int(stmt, 0) + 1
VersionAfter(i) == MaxVersion(i) + 1

\* SELECT MAX(version_number) FROM file_versions WHERE file_id = ?
GetVersion(w) ==
  /\ pc[w] = "get_version"
  /\ nextVer' = [nextVer EXCEPT ![w] = VersionAfter(fileId[w])]
  /\ Goto(w, "insert")
  /\ UNCHANGED <<db, call, fileId, rc, disturbed>>

\* The step fails: next_version keeps its initial value 1.
GetVersionStepFails(w) ==
  /\ pc[w] = "get_version"
  /\ Disturb(w)
  /\ Goto(w, "insert")
  /\ UNCHANGED <<db, call, fileId, nextVer, rc>>

\* PRIMARY KEY (file_id, version_number); mutant: no key.
NoKey(id, ver) == FALSE
KeyTaken(id, ver) == \E r \in versions : r.id = id /\ r.ver = ver

\* INSERT INTO file_versions, with its trigger in the same statement.
InsertVersion(w) ==
  /\ pc[w] = "insert"
  /\ LET new == [id |-> fileId[w], ver |-> nextVer[w],
                 path |-> call[w].path, data |-> call[w].data] IN
       IF KeyTaken(new.id, new.ver)
         THEN Return(w, -1) /\ UNCHANGED <<versions, meta>>
         ELSE /\ versions' = versions \cup {new}
              /\ meta' = Upsert(meta, new)
              /\ Return(w, 0)
  /\ UNCHANGED <<ids, seq, rowid, call, fileId, nextVer, disturbed>>

\* Any sqlite3_prepare_v2 fails, or the step of one of the two INSERTs does.
StatementFails(w) ==
  /\ pc[w] \in {"get_id", "insert_id", "get_version", "insert"}
  /\ Disturb(w)
  /\ Return(w, -1)
  /\ UNCHANGED <<db, call, fileId, nextVer>>

\* The call returns rc; its locals are gone.
Done(w) ==
  /\ pc[w] = "return"
  /\ Goto(w, "idle")
  /\ call' = [call EXCEPT ![w] = NoCall]
  /\ fileId' = [fileId EXCEPT ![w] = -1]
  /\ nextVer' = [nextVer EXCEPT ![w] = 1]
  /\ rc' = [rc EXCEPT ![w] = 0]
  /\ disturbed' = disturbed \ {w}
  /\ UNCHANGED db

\* The process dies at any point and hbf_db_init opens the file again: what
\* each statement committed stays, the schema's bootstrap INSERT runs.
Restart ==
  /\ meta' = Bootstrap(meta)
  /\ rowid' = 0
  /\ pc' = [w \in Writers |-> "idle"]
  /\ call' = [w \in Writers |-> NoCall]
  /\ fileId' = [w \in Writers |-> -1]
  /\ nextVer' = [w \in Writers |-> 1]
  /\ rc' = [w \in Writers |-> 0]
  /\ disturbed' = {}
  /\ UNCHANGED <<ids, seq, versions>>

Write(w) ==
  \/ \E path \in Paths, data \in Contents : Call(w, path, data)
  \/ GetId(w) \/ GetIdStepFails(w)
  \/ InsertId(w) \/ LastRowid(w)
  \/ GetVersion(w) \/ GetVersionStepFails(w)
  \/ InsertVersion(w)
  \/ StatementFails(w)
  \/ Done(w)

Next == (\E w \in Writers : Write(w)) \/ Restart

\* Writers that rely on nothing but SQLite's locking.
Spec == Init /\ [][Next]_vars

Stored(path) == Exists(path) /\ RowsOf(ids[path]) # {}

\* While a call creates a path's first version no other call runs. This holds
\* of the program as it is: its only caller, overlay_fs_migrate_assets, writes
\* from the start-up thread before the server starts.
CreatorRunsAlone ==
  \A v, w \in Writers :
    Busy(v) /\ Busy(w) /\ v # w => Stored(call[v].path) /\ Stored(call[w].path)

OneCreatorSpec == Init /\ [][Next /\ CreatorRunsAlone']_vars

-----------------------------------------------------------------------------
(* Properties *)

\* Type invariant: the tables hold well-formed rows, the locals of a thread
\* outside a call have their initial values.
TypeOK ==
  /\ ids \in [Paths -> Nat]
  /\ seq \in Nat
  /\ versions \subseteq Row
  /\ meta \subseteq MetaRow
  /\ rowid \in Nat
  /\ pc \in [Writers -> Steps]
  /\ call \in [Writers -> Args \cup {NoCall}]
  /\ \A w \in Writers : call[w] = NoCall <=> pc[w] = "idle"
  /\ fileId \in [Writers -> Nat \cup {-1}]
  /\ nextVer \in [Writers -> Nat \ {0}]
  /\ rc \in [Writers -> {0, -1}]
  /\ disturbed \subseteq Writers

\* The versions of a file_id are 1, 2, ... without a gap, and a (file_id,
\* version_number) pair names one row, whatever the interleaving of writers,
\* failed statements and restarts: "Creates new version entry with incremented
\* version_number" (overlay_fs.h:162).
VersionsContiguous ==
  \A r \in versions :
    /\ r.ver >= 1
    /\ \A k \in 1 .. r.ver : KeyTaken(r.id, k)
    /\ \A s \in versions : s.id = r.id /\ s.ver = r.ver => s = r

\* latest_files_meta, kept by a trigger, always equals latest_files, computed
\* from file_versions (overlay_schema.sql:72-113).
MetaMirrorsLatest == meta = {Metadata(r) : r \in Latest}

\* The two ways to read a path, by its file_id (overlay_fs_read) and by the path
\* column of the rows (overlay_fs_read_file), find the same content.
ReadsAgree == \A path \in Paths : Read(path) = ReadFile(path)

\* A write returns -1 only if one of its statements failed or another call on
\* the same path overlapped it: what earlier failures and crashes left in the
\* tables (a file_id without versions) never makes a later write fail.
FailsOnlyIfDisturbed ==
  \A w \in Writers : pc[w] = "return" /\ rc[w] = -1 => w \in disturbed

\* The history a path has in the tables, and the calls as their callers see them.
DataAt(id, ver) == (CHOOSE r \in versions : r.id = id /\ r.ver = ver).data
History(path) == [v \in 1 .. MaxVersion(ids[path]) |-> DataAt(ids[path], v)]
CallStatus(w) ==
  CASE pc[w] = "idle" -> "none"
    [] pc[w] = "return" -> IF rc[w] = 0 THEN "stored" ELSE "failed"
    [] OTHER -> "pending"

\* overlay_fs_write is an atomic append to the path's history, and succeeds
\* exactly when it appended: the tables implement VersionedFiles.
Files == INSTANCE VersionedFiles WITH
           history <- [p \in Paths |-> History(p)],
           status <- [w \in Writers |-> CallStatus(w)],
           arg <- call
ImplementsFiles == Files!Spec

\* Both reads return the last content of that history, or nothing if it is empty.
ReadsNewest ==
  \A path \in Paths :
    LET n == MaxVersion(ids[path]) IN
      Read(path) = IF n = 0 THEN {} ELSE {History(path)[n]}

=============================================================================
