----------------------------- MODULE FileSchema -----------------------------
(***************************************************************************)
(* The triggers of src/hbf/db/overlay_schema.sql under the SQL that        *)
(* scripts may execute through db.execute: statements that insert or       *)
(* delete several rows of file_versions, with the row triggers that keep   *)
(* latest_files_meta, and the bootstrap INSERT that every start runs, also *)
(* on a file that was written before latest_files_meta existed.            *)
(*                                                                         *)
(* A statement works row by row and its triggers run in between. When it   *)
(* fails, SQLite takes back what it did; with another connection nobody    *)
(* sees it half done. Contents are left out, and so is UPDATE: the tables  *)
(* are append-only by design (DOCS/custom_content.md:413) and have no      *)
(* trigger for it.                                                         *)
(***************************************************************************)
EXTENDS Integers

CONSTANTS
  Ids,      \* file_id values
  Vers,     \* version numbers
  LastVer,  \* the largest one an INTEGER column holds
  Paths,
  Batches   \* sets of rows that one statement inserts or deletes

ASSUME VersAssumption == LastVer \in Int /\ \A v \in Vers : v \in Int /\ v <= LastVer

Row == [id : Ids, ver : Vers, path : Paths]

ASSUME BatchesAssumption == \A rows \in Batches : rows \subseteq Row

VARIABLES
  versions, \* file_versions
  meta,     \* latest_files_meta
  stmt,     \* statement in progress, "none", or "closed" when no process runs
  todo,     \* rows it has still to insert or delete
  saved     \* the two tables before it

vars == <<versions, meta, stmt, todo, saved>>

SameKey(r, s) == r.id = s.id /\ r.ver = s.ver

\* PRIMARY KEY (file_id, version_number)
Keyed(rows) == \A r, s \in rows : SameKey(r, s) => r = s

NewestOf(rows, i) ==
  {r \in rows : r.id = i /\ \A s \in rows : s.id = i => s.ver <= r.ver}

\* The view latest_files_metadata.
Latest(rows) == {r \in rows : r \in NewestOf(rows, r.id)}

\* A database of an earlier release: any file_versions, no latest_files_meta.
Init ==
  /\ versions \in {rows \in SUBSET Row : Keyed(rows)}
  /\ meta = {}
  /\ stmt = "closed" /\ todo = {}
  /\ saved = [versions |-> versions, meta |-> meta]

\* INSERT ... SELECT ... ON CONFLICT DO UPDATE over all of latest_files.
Bootstrap(rows, m) ==
  {o \in m : \A r \in Latest(rows) : r.id = o.id => o.ver > r.ver}
    \cup {r \in Latest(rows) : \A o \in m : o.id = r.id => r.ver >= o.ver}

\* hbf_db_init executes the schema.
ApplySchema ==
  /\ stmt = "closed"
  /\ meta' = Bootstrap(versions, meta)
  /\ stmt' = "none"
  /\ UNCHANGED <<versions, todo, saved>>

\* Mutant: a conflicting row is added next to the old one.
PlainInsert(m, r) == m \cup {r}

\* trg_file_versions_ai
AfterInsert(m, r) ==
  IF \E o \in m : o.id = r.id /\ o.ver > r.ver
    THEN m
    ELSE {o \in m : o.id # r.id} \cup {r}

\* Mutant: only the row of the deleted version goes, no older one takes its place.
JustForget(rows, m, r) == m \ {r}

\* trg_file_versions_ad: the newest remaining row of the file, or none.
AfterDelete(rows, m, r) == {o \in m : o.id # r.id} \cup NewestOf(rows, r.id)

Statements == {"insert", "replace", "ignore", "delete"}

Start(kind, rows) ==
  /\ stmt = "none"
  /\ kind = "delete" => rows \subseteq versions
  /\ stmt' = kind
  /\ todo' = rows
  /\ saved' = [versions |-> versions, meta |-> meta]
  /\ UNCHANGED <<versions, meta>>

Conflicts(r) == \E s \in versions : SameKey(r, s)

InsertRow(r) ==
  /\ stmt \in {"insert", "replace", "ignore"}
  /\ r \in todo
  /\ ~Conflicts(r)
  /\ versions' = versions \cup {r}
  /\ meta' = AfterInsert(meta, r)
  /\ todo' = todo \ {r}
  /\ UNCHANGED <<stmt, saved>>

\* INSERT OR REPLACE removes the row in its way without its delete trigger:
\* recursive_triggers is off.
ReplaceRow(r) ==
  /\ stmt = "replace"
  /\ r \in todo
  /\ Conflicts(r)
  /\ versions' = {s \in versions : ~SameKey(r, s)} \cup {r}
  /\ meta' = AfterInsert(meta, r)
  /\ todo' = todo \ {r}
  /\ UNCHANGED <<stmt, saved>>

\* INSERT OR IGNORE
IgnoreRow(r) ==
  /\ stmt = "ignore"
  /\ r \in todo
  /\ Conflicts(r)
  /\ todo' = todo \ {r}
  /\ UNCHANGED <<versions, meta, stmt, saved>>

DeleteRow(r) ==
  /\ stmt = "delete"
  /\ r \in todo
  /\ versions' = versions \ {r}
  /\ meta' = AfterDelete(versions', meta, r)
  /\ todo' = todo \ {r}
  /\ UNCHANGED <<stmt, saved>>

Finish ==
  /\ stmt \in Statements
  /\ todo = {}
  /\ stmt' = "none"
  /\ UNCHANGED <<versions, meta, todo, saved>>

RollBack == versions' = saved.versions /\ meta' = saved.meta /\ todo' = {}

\* A constraint, or any other error, ends the statement.
Fail ==
  /\ stmt \in Statements
  /\ RollBack
  /\ stmt' = "none"
  /\ UNCHANGED saved

\* The process ends, in the middle of a statement or not.
Close ==
  /\ stmt # "closed"
  /\ IF stmt = "none" THEN UNCHANGED <<versions, meta, todo>> ELSE RollBack
  /\ stmt' = "closed"
  /\ UNCHANGED saved

Next ==
  \/ ApplySchema
  \/ \E kind \in Statements, rows \in Batches : Start(kind, rows)
  \/ \E r \in Row : InsertRow(r) \/ ReplaceRow(r) \/ IgnoreRow(r) \/ DeleteRow(r)
  \/ Finish \/ Fail \/ Close

Spec == Init /\ [][Next]_vars

-----------------------------------------------------------------------------
(* Properties *)

\* Type invariant; both tables respect their primary keys.
TypeOK ==
  /\ versions \subseteq Row /\ Keyed(versions)
  /\ meta \subseteq Row /\ \A m, n \in meta : m.id = n.id => m = n
  /\ stmt \in Statements \cup {"none", "closed"}
  /\ todo \subseteq Row
  /\ saved \in [versions : SUBSET Row, meta : SUBSET Row]

\* "Keep materialized latest in sync" (overlay_schema.sql:101 and 115): whenever
\* a process uses the database, between and also inside the statements,
\* latest_files_meta holds exactly the rows of latest_files_metadata, whatever
\* rows were inserted, replaced and deleted in whatever order, however often
\* statements failed and processes were restarted. An older database lacks the
\* table until the next start: there the bootstrap has nothing to remove, which
\* it could not do.
MetaInSync == meta = Latest(versions) \/ (stmt = "closed" /\ meta = {})

=============================================================================
