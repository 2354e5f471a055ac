-------------------------- MODULE FileSchemaProofs --------------------------
(***************************************************************************)
(* The triggers keep latest_files_meta in sync for any files, any version  *)
(* numbers an INTEGER column holds and statements of any number of rows.   *)
(* The invariant holds after every row: the argument is one lemma per      *)
(* trigger, and each rests on the existence of a newest version.           *)
(***************************************************************************)
EXTENDS FileSchema, WellFoundedInduction, TLAPS

\* What a failing statement goes back to is in sync as well.
SavedInSync ==
  stmt \in Statements => Keyed(saved.versions) /\ saved.meta = Latest(saved.versions)

SyncInv == TypeOK /\ MetaInSync /\ SavedInSync

-----------------------------------------------------------------------------
(* The newest version of a file. *)

\* Numbers that are bounded have a maximum.
LEMMA MaxExists ==
  ASSUME NEW S, S # {}, NEW b \in Int, \A v \in S : v \in Int /\ v <= b
  PROVE  \E m \in S : \A v \in S : v <= m
  <1> DEFINE gaps == {b - v : v \in S}
  <1>1. gaps \subseteq Nat /\ gaps # {}
    OBVIOUS
  <1>2. PICK g \in gaps : \A h \in gaps : ~ (<<h, g>> \in OpToRel(<, Nat))
    <2> HIDE DEF gaps
    <2> QED BY <1>1, WFMin, NatLessThanWellFounded
  <1>3. \A h \in gaps : ~ (h < g)
    BY <1>1, <1>2 DEF OpToRel
  <1>4. PICK m \in S : g = b - m
    OBVIOUS
  <1>5. ASSUME NEW v \in S PROVE v <= m
    <2>1. ~ (b - v < b - m)
      BY <1>3, <1>4
    <2> QED BY <2>1
  <1> QED BY <1>5

\* A file with rows has a newest one.
LEMMA NewestExists ==
  ASSUME NEW rows, rows \subseteq Row, NEW r \in rows
  PROVE  NewestOf(rows, r.id) # {}
  <1> DEFINE numbers == {s.ver : s \in {t \in rows : t.id = r.id}}
  <1>1. numbers # {} /\ \A v \in numbers : v \in Int /\ v <= LastVer
    BY VersAssumption DEF Row
  <1>2. PICK m \in numbers : \A v \in numbers : v <= m
    <2> HIDE DEF numbers
    <2> QED BY <1>1, MaxExists, VersAssumption
  <1> QED BY <1>2 DEF NewestOf

\* In a table with its key a file has at most one newest row.
LEMMA OneNewest ==
  ASSUME NEW rows, rows \subseteq Row, Keyed(rows)
  PROVE  \A r, s \in Latest(rows) : r.id = s.id => r = s
  BY VersAssumption DEF Latest, NewestOf, Keyed, SameKey, Row

-----------------------------------------------------------------------------
(* One lemma per statement that writes latest_files_meta. *)

\* trg_file_versions_ai, for a row that is new or replaces one with its key.
LEMMA InsertKeepsSync ==
  ASSUME NEW rows, rows \subseteq Row, Keyed(rows), NEW r \in Row,
         NEW others, others = {s \in rows : ~SameKey(r, s)}
  PROVE  /\ Keyed(others \cup {r})
         /\ AfterInsert(Latest(rows), r) = Latest(others \cup {r})
  <1> USE DEF SameKey, Row
  <1>1. Keyed(others \cup {r})
    BY DEF Keyed
  <1>2. CASE \E o \in Latest(rows) : o.id = r.id /\ o.ver > r.ver
    <2>1. PICK o \in rows : /\ o.id = r.id /\ o.ver > r.ver
                            /\ \A s \in rows : s.id = r.id => s.ver <= o.ver
      BY <1>2 DEF Latest, NewestOf
    <2>2. o \in others
      BY <2>1, VersAssumption
    <2>3. ASSUME NEW s PROVE s \in Latest(others \cup {r}) <=> s \in Latest(rows)
      <3>1. CASE s.id = r.id
        BY <2>1, <2>2, <3>1, VersAssumption DEF Latest, NewestOf
      <3>2. CASE s.id # r.id
        BY <3>2 DEF Latest, NewestOf
      <3> QED BY <3>1, <3>2
    <2>4. AfterInsert(Latest(rows), r) = Latest(rows)
      BY <1>2 DEF AfterInsert
    <2> QED BY <1>1, <2>3, <2>4
  <1>3. CASE ~ \E o \in Latest(rows) : o.id = r.id /\ o.ver > r.ver
    <2>1. \A s \in rows : s.id = r.id => s.ver <= r.ver
      <3> SUFFICES ASSUME NEW s \in rows, s.id = r.id PROVE s.ver <= r.ver
        OBVIOUS
      <3>1. PICK o \in NewestOf(rows, r.id) : TRUE
        BY NewestExists
      <3>2. o \in Latest(rows) /\ o.id = r.id /\ s.ver <= o.ver /\ o \in rows
        BY <3>1 DEF Latest, NewestOf
      <3>3. o.ver <= r.ver
        BY <1>3, <3>2, VersAssumption
      <3> QED BY <3>2, <3>3, VersAssumption
    <2>2. ASSUME NEW s
          PROVE  s \in Latest(others \cup {r}) <=> s \in {o \in Latest(rows) : o.id # r.id} \cup {r}
      <3>1. CASE s = r
        BY <2>1, <3>1, VersAssumption DEF Latest, NewestOf
      <3>2. CASE s # r /\ s.id = r.id
        <4>1. s \notin Latest(others \cup {r})
          <5> SUFFICES ASSUME s \in Latest(others \cup {r}) PROVE FALSE
            OBVIOUS
          <5>1. s \in others /\ r.ver <= s.ver
            BY <3>2 DEF Latest, NewestOf
          <5>2. s.ver <= r.ver /\ s.ver # r.ver
            BY <2>1, <3>2, <5>1
          <5> QED BY <5>1, <5>2, VersAssumption
        <4> QED BY <3>2, <4>1
      <3>3. CASE s.id # r.id
        BY <3>3 DEF Latest, NewestOf
      <3> QED BY <3>1, <3>2, <3>3
    <2>3. AfterInsert(Latest(rows), r) = {o \in Latest(rows) : o.id # r.id} \cup {r}
      BY <1>3 DEF AfterInsert
    <2> QED BY <1>1, <2>2, <2>3
  <1> QED BY <1>2, <1>3

\* trg_file_versions_ad
LEMMA DeleteKeepsSync ==
  ASSUME NEW rows, rows \subseteq Row, Keyed(rows), NEW r \in Row
  PROVE  /\ Keyed(rows \ {r})
         /\ AfterDelete(rows \ {r}, Latest(rows), r) = Latest(rows \ {r})
  <1>1. Keyed(rows \ {r})
    BY DEF Keyed
  <1>2. ASSUME NEW s
        PROVE  s \in Latest(rows \ {r}) <=> s \in AfterDelete(rows \ {r}, Latest(rows), r)
    <2>1. CASE s.id = r.id
      BY <2>1 DEF AfterDelete, Latest, NewestOf
    <2>2. CASE s.id # r.id
      BY <2>2 DEF AfterDelete, Latest, NewestOf
    <2> QED BY <2>1, <2>2
  <1> QED BY <1>1, <1>2

\* The bootstrap fills an empty table and changes nothing in one that is in sync.
LEMMA BootstrapSync ==
  ASSUME NEW rows, rows \subseteq Row, Keyed(rows), NEW m, m = {} \/ m = Latest(rows)
  PROVE  Bootstrap(rows, m) = Latest(rows)
  <1>1. CASE m = {}
    BY <1>1 DEF Bootstrap
  <1>2. CASE m = Latest(rows)
    <2>1. \A r \in Latest(rows) : r.ver \in Int /\ r \in Row
      BY VersAssumption DEF Latest, Row
    <2>2. \A r, o \in Latest(rows) : r.id = o.id => r = o
      BY OneNewest
    <2>3. \A r \in Latest(rows) : \A o \in Latest(rows) : o.id = r.id => r.ver >= o.ver
      BY <2>1, <2>2
    <2> QED BY <1>2, <2>3 DEF Bootstrap
  <1> QED BY <1>1, <1>2

-----------------------------------------------------------------------------
(* The invariant. *)

LEMMA LatestType ==
  ASSUME NEW rows, rows \subseteq Row, Keyed(rows)
  PROVE  Latest(rows) \subseteq Row /\ \A m, n \in Latest(rows) : m.id = n.id => m = n
  BY OneNewest DEF Latest

LEMMA SyncInvInit == Init => SyncInv
  BY DEF Init, SyncInv, TypeOK, MetaInSync, SavedInSync, Statements

\* A step of one row: the tables after it follow from one of the lemmas above.
LEMMA RowStep ==
  ASSUME SyncInv, NEW r \in Row,
         InsertRow(r) \/ ReplaceRow(r) \/ IgnoreRow(r) \/ DeleteRow(r)
  PROVE  SyncInv'
  <1> USE DEF SyncInv, Statements
  <1>1. stmt \in Statements /\ stmt' = stmt /\ saved' = saved /\ todo' = todo \ {r}
    BY DEF InsertRow, ReplaceRow, IgnoreRow, DeleteRow
  <1>2. meta = Latest(versions) /\ versions \subseteq Row /\ Keyed(versions)
    BY <1>1 DEF MetaInSync, TypeOK
  <1>3. versions' \subseteq Row /\ Keyed(versions') /\ meta' = Latest(versions')
    <2> DEFINE others == {s \in versions : ~SameKey(r, s)}
    <2>1. CASE InsertRow(r)
      <3>1. others = versions
        BY <2>1 DEF InsertRow, Conflicts, SameKey
      <3>2. versions' = others \cup {r} /\ meta' = AfterInsert(Latest(versions), r)
        BY <1>2, <2>1, <3>1 DEF InsertRow
      <3> QED BY <1>2, <3>2, InsertKeepsSync
    <2>2. CASE ReplaceRow(r)
      <3>1. versions' = others \cup {r} /\ meta' = AfterInsert(Latest(versions), r)
        BY <1>2, <2>2 DEF ReplaceRow
      <3> QED BY <1>2, <3>1, InsertKeepsSync
    <2>3. CASE IgnoreRow(r)
      BY <1>2, <2>3 DEF IgnoreRow
    <2>4. CASE DeleteRow(r)
      <3>1. versions' = versions \ {r} /\ meta' = AfterDelete(versions \ {r}, Latest(versions), r)
        BY <1>2, <2>4 DEF DeleteRow
      <3> QED BY <1>2, <3>1, DeleteKeepsSync
    <2> QED BY <2>1, <2>2, <2>3, <2>4
  <1>4. TypeOK'
    BY <1>1, <1>3, LatestType DEF TypeOK
  <1> QED BY <1>1, <1>3, <1>4 DEF MetaInSync, SavedInSync

LEMMA RollBackSync ==
  ASSUME SyncInv, stmt \in Statements, RollBack, saved' = saved,
         stmt' \in {"none", "closed"}
  PROVE  SyncInv'
  <1>1. versions' \subseteq Row /\ Keyed(versions') /\ meta' = Latest(versions') /\ todo' = {}
    BY DEF SyncInv, TypeOK, SavedInSync, RollBack
  <1>2. TypeOK'
    BY <1>1, LatestType DEF SyncInv, TypeOK
  <1> QED BY <1>1, <1>2 DEF SyncInv, MetaInSync, SavedInSync, Statements

LEMMA SyncInvNext == SyncInv /\ [Next]_vars => SyncInv'
  <1> SUFFICES ASSUME SyncInv, [Next]_vars PROVE SyncInv'
    OBVIOUS
  <1>1. CASE ApplySchema
    <2>1. versions' = versions /\ versions \subseteq Row /\ Keyed(versions)
          /\ meta' = Latest(versions) /\ stmt' = "none" /\ UNCHANGED <<todo, saved>>
      BY <1>1, BootstrapSync DEF ApplySchema, SyncInv, TypeOK, MetaInSync
    <2>2. TypeOK'
      BY <2>1, LatestType DEF SyncInv, TypeOK
    <2> QED BY <2>1, <2>2 DEF SyncInv, MetaInSync, SavedInSync, Statements
  <1>2. ASSUME NEW kind \in Statements, NEW rows \in Batches, Start(kind, rows)
        PROVE  SyncInv'
    BY <1>2, BatchesAssumption
       DEF Start, SyncInv, TypeOK, MetaInSync, SavedInSync, Statements
  <1>3. ASSUME NEW r \in Row, InsertRow(r) \/ ReplaceRow(r) \/ IgnoreRow(r) \/ DeleteRow(r)
        PROVE  SyncInv'
    BY <1>3, RowStep
  <1>4. CASE Finish
    BY <1>4 DEF Finish, SyncInv, TypeOK, MetaInSync, SavedInSync, Statements
  <1>5. CASE Fail
    BY <1>5, RollBackSync DEF Fail
  <1>6. CASE Close
    <2>1. CASE stmt = "none"
      BY <1>6, <2>1 DEF Close, SyncInv, TypeOK, MetaInSync, SavedInSync, Statements
    <2>2. CASE stmt # "none"
      <3>1. stmt \in Statements
        BY <1>6, <2>2 DEF Close, SyncInv, TypeOK
      <3> QED BY <1>6, <2>2, <3>1, RollBackSync DEF Close
    <2> QED BY <2>1, <2>2
  <1>7. CASE UNCHANGED vars
    BY <1>7 DEF vars, SyncInv, TypeOK, MetaInSync, SavedInSync
  <1> QED BY <1>1, <1>2, <1>3, <1>4, <1>5, <1>6, <1>7 DEF Next

\* After every row of every statement latest_files_meta equals the view it
\* copies (overlay_schema.sql:85-135), for tables and statements of any size.
THEOREM TriggersKeepSync == Spec => []MetaInSync
  <1>1. SyncInv => MetaInSync
    BY DEF SyncInv
  <1> QED BY SyncInvInit, SyncInvNext, <1>1, PTL DEF Spec

\* While a statement runs row by row, fails and is undone, or the process dies,
\* file_versions keeps its primary key, and latest_files_meta one row for a file.
THEOREM SchemaTyping == Spec => []TypeOK
  <1>1. SyncInv => TypeOK
    BY DEF SyncInv
  <1> QED BY SyncInvInit, SyncInvNext, <1>1, PTL DEF Spec

=============================================================================
