-------------------------- MODULE OverlayFSProofs --------------------------
(***************************************************************************)
(* Theorems about OverlayFS for every set of writers, paths and contents.  *)
(*                                                                         *)
(* Part 1 holds for Spec: any number of unsynchronised writers, failing    *)
(* statements and restarts. The inductive invariant is FreeInv: the type   *)
(* invariant, the numbering of versions in a form from which the maximum   *)
(* exists (Numbered), latest_files_meta, and what a writer that is about   *)
(* to insert knows (ReadyToInsert: every lower version of its file_id is   *)
(* already stored, so its insert can only collide or extend).              *)
(***************************************************************************)
EXTENDS OverlayFS, TLAPS

Numbers(i) == {r.ver : r \in RowsOf(i)}

Numbered ==
  /\ \A i \in Nat : \E n \in Nat : Numbers(i) = 1 .. n
  /\ \A r, s \in versions : r.id = s.id /\ r.ver = s.ver => r = s

Ready(w) ==
  /\ pc[w] \notin {"insert", "return"} => nextVer[w] = 1
  /\ pc[w] \in {"get_version", "insert"} => fileId[w] \in Nat
  /\ pc[w] = "insert" => \A k \in 1 .. nextVer[w] - 1 : KeyTaken(fileId[w], k)
ReadyToInsert == \A w \in Writers : Ready(w)

FreeInv == TypeOK /\ Numbered /\ MetaMirrorsLatest /\ ReadyToInsert

-----------------------------------------------------------------------------
(* The maximum of a file's version numbers. *)

\* Max of the numbers 0 .. n, written as MaxVersion writes it, is n.
LEMMA MaxOfRange ==
  ASSUME NEW n \in Nat, NEW S, S = {0} \cup (1 .. n)
  PROVE  Max(S) = n
  <1>1. n \in S /\ \A y \in S : n >= y
    OBVIOUS
  <1>2. \A x \in S : (\A y \in S : x >= y) => x = n
    OBVIOUS
  <1> QED BY <1>1, <1>2 DEF Max

\* SELECT MAX(version_number) is the number n of versions 1 .. n of the file.
LEMMA MaxVersionValue ==
  ASSUME NEW i, NEW n \in Nat, Numbers(i) = 1 .. n
  PROVE  MaxVersion(i) = n
  BY MaxOfRange DEF MaxVersion, Numbers

\* Under Numbered MAX is a natural number, and exactly 1 .. MAX are stored.
LEMMA MaxVersionNumbers ==
  ASSUME Numbered, NEW i \in Nat
  PROVE  MaxVersion(i) \in Nat /\ Numbers(i) = 1 .. MaxVersion(i)
  <1>1. PICK n \in Nat : Numbers(i) = 1 .. n
    BY DEF Numbered
  <1> QED BY <1>1, MaxVersionValue

-----------------------------------------------------------------------------
(* One INSERT INTO file_versions. *)

\* Inserting a row whose lower versions are all stored and whose own key is free
\* keeps the numbering, and makes it the highest of its file; the other files
\* keep their maximum.
LEMMA InsertNumbers ==
  ASSUME Numbered, versions \subseteq Row, NEW new \in Row, new.ver # 0,
         \A k \in 1 .. new.ver - 1 : KeyTaken(new.id, k),
         ~KeyTaken(new.id, new.ver),
         versions' = versions \cup {new}
  PROVE  /\ Numbered'
         /\ MaxVersion(new.id) = new.ver - 1
         /\ MaxVersion(new.id)' = new.ver
         /\ \A i \in Nat : i # new.id => MaxVersion(i)' = MaxVersion(i)
  <1> new.id \in Nat /\ new.ver \in Nat
    BY DEF Row
  <1>1. PICK n \in Nat : Numbers(new.id) = 1 .. n
    BY DEF Numbered
  <1>2. \A k : KeyTaken(new.id, k) <=> k \in Numbers(new.id)
    BY DEF KeyTaken, Numbers, RowsOf
  <1>3. n = new.ver - 1
    <2>1. new.ver \notin 1 .. n
      BY <1>1, <1>2
    <2>2. \A k \in 1 .. new.ver - 1 : k \in 1 .. n
      BY <1>1, <1>2
    <2>3. CASE n < new.ver - 1
      BY <2>2, <2>3
    <2> QED BY <2>1, <2>3
  <1>4. MaxVersion(new.id) = new.ver - 1
    BY <1>1, <1>3, MaxVersionValue
  <1>5. Numbers(new.id)' = Numbers(new.id) \cup {new.ver}
    BY DEF Numbers, RowsOf
  <1>6. Numbers(new.id)' = 1 .. new.ver
    BY <1>1, <1>3, <1>5
  <1>7. MaxVersion(new.id)' = new.ver
    <2>1. {0} \cup {r.ver : r \in RowsOf(new.id)'} = {0} \cup (1 .. new.ver)
      BY <1>6 DEF Numbers
    <2> QED BY <2>1, MaxOfRange DEF MaxVersion
  <1>8. \A i \in Nat : i # new.id => RowsOf(i)' = RowsOf(i)
    BY DEF RowsOf
  <1>9. \A i \in Nat : i # new.id => MaxVersion(i)' = MaxVersion(i)
    BY <1>8 DEF MaxVersion
  <1>10. \A i \in Nat : \E m \in Nat : Numbers(i)' = 1 .. m
    <2> SUFFICES ASSUME NEW i \in Nat PROVE \E m \in Nat : Numbers(i)' = 1 .. m
      OBVIOUS
    <2>1. CASE i = new.id
      BY <1>6, <2>1
    <2>2. CASE i # new.id
      BY <1>8, <2>2 DEF Numbered, Numbers
    <2> QED BY <2>1, <2>2
  <1>11. \A r, s \in versions' : r.id = s.id /\ r.ver = s.ver => r = s
    BY DEF Numbered, KeyTaken
  <1> QED BY <1>4, <1>7, <1>9, <1>10, <1>11 DEF Numbered

\* The AFTER INSERT trigger does to latest_files_meta what the insert does to
\* the latest_files view.
LEMMA InsertMeta ==
  ASSUME Numbered, MetaMirrorsLatest, versions \subseteq Row,
         NEW new \in Row, new.ver # 0,
         \A k \in 1 .. new.ver - 1 : KeyTaken(new.id, k),
         ~KeyTaken(new.id, new.ver),
         versions' = versions \cup {new}, meta' = Upsert(meta, new)
  PROVE  MetaMirrorsLatest'
  <1> new.id \in Nat /\ new.ver \in Nat
    BY DEF Row
  <1>1. /\ MaxVersion(new.id) = new.ver - 1
        /\ MaxVersion(new.id)' = new.ver
        /\ \A i \in Nat : i # new.id => MaxVersion(i)' = MaxVersion(i)
    BY InsertNumbers
  <1>2. \A r \in versions : r.id \in Nat /\ r.ver \in Nat
    BY DEF Row
  <1>3. \A r \in versions : r.id = new.id => r.ver # new.ver
    BY DEF KeyTaken
  <1>4. Latest' = {r \in Latest : r.id # new.id} \cup {new}
    BY <1>1, <1>2, <1>3 DEF Latest
  <1>5. \A o \in meta : \E r \in Latest : o = Metadata(r)
    BY DEF MetaMirrorsLatest
  <1>6. ~ \E o \in meta : o.id = new.id /\ o.ver > new.ver
    BY <1>1, <1>2, <1>5 DEF Latest, Metadata
  <1>7. meta' = {o \in meta : o.id # new.id} \cup {Metadata(new)}
    BY <1>6 DEF Upsert
  <1>8. {o \in meta : o.id # new.id} = {Metadata(r) : r \in {s \in Latest : s.id # new.id}}
    BY DEF MetaMirrorsLatest, Metadata
  <1> QED BY <1>4, <1>7, <1>8 DEF MetaMirrorsLatest

\* Applying the schema to a database whose latest_files_meta is in step with
\* file_versions changes nothing.
LEMMA BootstrapKeeps ==
  ASSUME Numbered, MetaMirrorsLatest, versions \subseteq Row
  PROVE  Bootstrap(meta) = meta
  <1>1. \A r \in Latest : r.id \in Nat /\ r.ver \in Nat
    BY DEF Latest, Row
  <1>2. \A r, s \in Latest : r.id = s.id => r = s
    BY DEF Latest, Numbered
  <1>3. {o \in meta : \A r \in Latest : r.id = o.id => o.ver > r.ver} = {}
    BY <1>1 DEF MetaMirrorsLatest, Metadata
  <1>4. {s \in Latest : \A o \in meta : o.id = s.id => s.ver >= o.ver} = Latest
    BY <1>1, <1>2 DEF MetaMirrorsLatest, Metadata
  <1> QED BY <1>3, <1>4 DEF Bootstrap, MetaMirrorsLatest

-----------------------------------------------------------------------------
(* FreeInv is inductive. *)

LEMMA FreeInvInit == Init => FreeInv
  <1> SUFFICES ASSUME Init PROVE FreeInv
    OBVIOUS
  <1>1. TypeOK
    BY NoCallAssumption DEF Init, TypeOK, Steps
  <1>2. Numbered
    <2>1. \A i : Numbers(i) = 1 .. 0
      BY DEF Init, Numbers, RowsOf
    <2> QED BY <2>1 DEF Init, Numbered
  <1>3. MetaMirrorsLatest
    BY DEF Init, MetaMirrorsLatest, Latest
  <1>4. ReadyToInsert
    BY DEF Init, ReadyToInsert, Ready
  <1> QED BY <1>1, <1>2, <1>3, <1>4 DEF FreeInv

\* What is left alone when the tables file_versions and latest_files_meta are.
LEMMA TablesUnchanged ==
  ASSUME UNCHANGED <<versions, meta>>
  PROVE  /\ Numbered => Numbered'
         /\ MetaMirrorsLatest => MetaMirrorsLatest'
         /\ \A i : MaxVersion(i)' = MaxVersion(i)
         /\ \A i, k : KeyTaken(i, k)' = KeyTaken(i, k)
  <1>1. \A i : RowsOf(i)' = RowsOf(i)
    BY DEF RowsOf
  <1>2. \A i : MaxVersion(i)' = MaxVersion(i) /\ Numbers(i)' = Numbers(i)
    BY <1>1 DEF MaxVersion, Numbers
  <1>3. Latest' = Latest
    BY <1>2 DEF Latest
  <1> QED BY <1>2, <1>3 DEF Numbered, MetaMirrorsLatest, KeyTaken

\* Every step of a writer keeps the type invariant.
LEMMA WriteKeepsType ==
  ASSUME FreeInv, NEW w \in Writers, Write(w)
  PROVE  TypeOK'
  <1> USE DEF FreeInv, TypeOK, Steps, db
  <1>1. ASSUME NEW path \in Paths, NEW data \in Contents, Call(w, path, data)
        PROVE  TypeOK'
    <2>1. [path |-> path, data |-> data] \in Args
      BY DEF Args
    <2> QED BY <1>1, <2>1, NoCallAssumption DEF Call, Goto, Busy, Rivals
  <1>2. CASE GetId(w)
    <2>1. call[w] \in Args
      BY <1>2 DEF GetId
    <2>2. ids[call[w].path] \in Nat
      BY <2>1 DEF Args
    <2> QED BY <1>2, <2>2 DEF GetId, Goto
  <1>3. CASE GetIdStepFails(w)
    BY <1>3 DEF GetIdStepFails, Disturb, Goto
  <1>4. CASE InsertId(w)
    BY <1>4 DEF InsertId, Goto, Return
  <1>5. CASE LastRowid(w)
    <2>1. LastInsertRowids(w) \subseteq Nat
      BY DEF LastInsertRowids, ReadyToInsert, Ready
    <2> QED BY <1>5, <2>1 DEF LastRowid, Goto
  <1>6. CASE GetVersion(w)
    <2>1. fileId[w] \in Nat
      BY <1>6 DEF GetVersion, ReadyToInsert, Ready
    <2>2. VersionAfter(fileId[w]) \in Nat \ {0}
      <3>1. MaxVersion(fileId[w]) \in Nat
        BY <2>1, MaxVersionNumbers
      <3> QED BY <3>1 DEF VersionAfter
    <2> QED BY <1>6, <2>2 DEF GetVersion, Goto
  <1>7. CASE GetVersionStepFails(w)
    BY <1>7 DEF GetVersionStepFails, Disturb, Goto
  <1>8. CASE InsertVersion(w)
    <2> DEFINE new == [id |-> fileId[w], ver |-> nextVer[w],
                       path |-> call[w].path, data |-> call[w].data]
    <2>1. new \in Row
      BY <1>8 DEF InsertVersion, ReadyToInsert, Ready, Args, Row
    <2>2. Upsert(meta, new) \subseteq MetaRow
      BY <2>1 DEF Upsert, Metadata, Row, MetaRow
    <2> QED BY <1>8, <2>1, <2>2 DEF InsertVersion, Goto, Return
  <1>9. CASE StatementFails(w)
    BY <1>9 DEF StatementFails, Disturb, Goto, Return
  <1>10. CASE Done(w)
    BY <1>10 DEF Done, Goto
  <1> QED BY <1>1, <1>2, <1>3, <1>4, <1>5, <1>6, <1>7, <1>8, <1>9, <1>10 DEF Write

\* The row a writer inserts is well formed, and all lower versions are there.
LEMMA InsertReady ==
  ASSUME FreeInv, NEW w \in Writers, pc[w] = "insert"
  PROVE  /\ [id |-> fileId[w], ver |-> nextVer[w],
             path |-> call[w].path, data |-> call[w].data] \in Row
         /\ nextVer[w] # 0
         /\ \A k \in 1 .. nextVer[w] - 1 : KeyTaken(fileId[w], k)
  BY DEF FreeInv, TypeOK, ReadyToInsert, Ready, Row, Args

\* Only InsertVersion touches the two tables, and it keeps them in order.
LEMMA WriteKeepsTables ==
  ASSUME FreeInv, NEW w \in Writers, Write(w)
  PROVE  Numbered' /\ MetaMirrorsLatest'
  <1>1. CASE UNCHANGED <<versions, meta>>
    BY <1>1, TablesUnchanged DEF FreeInv
  <1>2. CASE InsertVersion(w) /\ ~KeyTaken(fileId[w], nextVer[w])
    <2> DEFINE new == [id |-> fileId[w], ver |-> nextVer[w],
                       path |-> call[w].path, data |-> call[w].data]
    <2>1. /\ new \in Row /\ new.ver # 0
          /\ \A k \in 1 .. new.ver - 1 : KeyTaken(new.id, k)
          /\ ~KeyTaken(new.id, new.ver)
      BY <1>2, InsertReady DEF InsertVersion
    <2>2. versions' = versions \cup {new} /\ meta' = Upsert(meta, new)
      BY <1>2 DEF InsertVersion
    <2>3. Numbered /\ MetaMirrorsLatest /\ versions \subseteq Row
      BY DEF FreeInv, TypeOK
    <2> HIDE DEF new
    <2> QED BY <2>1, <2>2, <2>3, InsertNumbers, InsertMeta
  <1>3. InsertVersion(w) /\ KeyTaken(fileId[w], nextVer[w]) => UNCHANGED <<versions, meta>>
    BY DEF InsertVersion
  <1>4. Write(w) => InsertVersion(w) \/ UNCHANGED <<versions, meta>>
    BY DEF Write, Call, GetId, GetIdStepFails, InsertId, LastRowid, GetVersion,
           GetVersionStepFails, StatementFails, Done, db
  <1> QED BY <1>1, <1>2, <1>3, <1>4

\* What a writer knows before its insert stays true while others step: rows are
\* never removed.
LEMMA ReadyStable ==
  ASSUME NEW v \in Writers, Ready(v), versions \subseteq versions',
         pc'[v] = pc[v], fileId'[v] = fileId[v], nextVer'[v] = nextVer[v]
  PROVE  Ready(v)'
  <1>1. ASSUME NEW k, \E r \in versions : r.id = fileId[v] /\ r.ver = k
        PROVE  \E r \in versions' : r.id = fileId'[v] /\ r.ver = k
    BY <1>1
  <1> QED BY <1>1 DEF Ready, KeyTaken

LEMMA WriteKeepsReady ==
  ASSUME FreeInv, NEW w \in Writers, Write(w)
  PROVE  ReadyToInsert'
  <1> USE DEF FreeInv, TypeOK, Steps, db
  <1>1. versions \subseteq versions'
    BY DEF Write, Call, GetId, GetIdStepFails, InsertId, LastRowid,
       GetVersion, GetVersionStepFails, InsertVersion, StatementFails, Done
  <1>2. ASSUME NEW v \in Writers, v # w PROVE Ready(v)'
    <2>1. pc'[v] = pc[v] /\ fileId'[v] = fileId[v] /\ nextVer'[v] = nextVer[v]
      BY <1>2 DEF Write, Call, GetId, GetIdStepFails, InsertId, LastRowid, GetVersion,
         GetVersionStepFails, InsertVersion, StatementFails, Done, Goto, Return
    <2> QED BY <1>1, <2>1, ReadyStable DEF ReadyToInsert
  <1>3. Ready(w)'
    <2>0. Ready(w)
      BY DEF ReadyToInsert
    <2>1. CASE GetId(w)
      <3>1. ids[call[w].path] \in Nat
        BY <2>1 DEF GetId, Args
      <3> QED BY <2>0, <2>1, <3>1 DEF GetId, Goto, Ready
    <2>2. CASE LastRowid(w)
      <3>1. LastInsertRowids(w) \subseteq Nat
        BY DEF LastInsertRowids, ReadyToInsert, Ready
      <3>2. nextVer[w] = 1
        BY <2>0, <2>2 DEF LastRowid, Ready
      <3> QED BY <2>2, <3>1, <3>2 DEF LastRowid, Goto, Ready
    <2>3. CASE GetVersion(w)
      <3>1. fileId[w] \in Nat /\ fileId' = fileId /\ versions' = versions
        BY <2>0, <2>3 DEF GetVersion, Ready
      <3>2. /\ MaxVersion(fileId[w]) \in Nat
            /\ Numbers(fileId[w]) = 1 .. MaxVersion(fileId[w])
        BY <3>1, MaxVersionNumbers
      <3>3. nextVer'[w] - 1 = MaxVersion(fileId[w])
        BY <2>3, <3>2 DEF GetVersion, VersionAfter
      <3>4. \A k \in Numbers(fileId[w]) : KeyTaken(fileId[w], k)
        BY DEF Numbers, RowsOf, KeyTaken
      <3>5. \A k \in 1 .. nextVer'[w] - 1 : KeyTaken(fileId[w], k)
        BY <3>2, <3>3, <3>4
      <3> QED BY <2>3, <3>1, <3>5 DEF GetVersion, Goto, Ready, KeyTaken
    <2>4. CASE GetVersionStepFails(w)
      BY <2>0, <2>4 DEF GetVersionStepFails, Goto, Ready
    <2>5. CASE \/ \E path \in Paths, data \in Contents : Call(w, path, data)
               \/ GetIdStepFails(w) \/ InsertId(w) \/ InsertVersion(w)
               \/ StatementFails(w) \/ Done(w)
      BY <2>0, <2>5 DEF Call, GetIdStepFails, InsertId, InsertVersion,
                        StatementFails, Done, Goto, Return, Busy, Ready
    <2> QED BY <2>1, <2>2, <2>3, <2>4, <2>5 DEF Write
  <1> QED BY <1>2, <1>3 DEF ReadyToInsert

LEMMA RestartKeepsFreeInv ==
  ASSUME FreeInv, Restart
  PROVE  FreeInv'
  <1>1. meta' = meta /\ versions' = versions
    BY BootstrapKeeps DEF Restart, FreeInv, TypeOK
  <1>2. TypeOK'
    BY <1>1, NoCallAssumption DEF FreeInv, TypeOK, Steps, Restart
  <1>3. Numbered' /\ MetaMirrorsLatest'
    BY <1>1, TablesUnchanged DEF FreeInv
  <1>4. ReadyToInsert'
    BY DEF Restart, ReadyToInsert, Ready
  <1> QED BY <1>2, <1>3, <1>4 DEF FreeInv

LEMMA FreeInvNext == FreeInv /\ [Next]_vars => FreeInv'
  <1> SUFFICES ASSUME FreeInv, [Next]_vars PROVE FreeInv'
    OBVIOUS
  <1>1. ASSUME NEW w \in Writers, Write(w) PROVE FreeInv'
    BY <1>1, WriteKeepsType, WriteKeepsTables, WriteKeepsReady DEF FreeInv
  <1>2. CASE Restart
    BY <1>2, RestartKeepsFreeInv
  <1>3. CASE UNCHANGED vars
    <2>1. UNCHANGED <<versions, meta>>
      BY <1>3 DEF vars
    <2>2. Numbered' /\ MetaMirrorsLatest'
      BY <2>1, TablesUnchanged DEF FreeInv
    <2>3. TypeOK' /\ ReadyToInsert'
      BY <1>3 DEF vars, FreeInv, TypeOK, ReadyToInsert, Ready, KeyTaken
    <2> QED BY <2>2, <2>3 DEF FreeInv
  <1> QED BY <1>1, <1>2, <1>3 DEF Next

LEMMA FreeInvAlways == Spec => []FreeInv
  BY FreeInvInit, FreeInvNext, PTL DEF Spec

\* The tables and the locals of every writer are always well formed.
THEOREM TypeCorrect == Spec => []TypeOK
  BY FreeInvAlways, PTL DEF FreeInv

\* However many threads call overlay_fs_write without a mutex, whatever fails and
\* whenever the process restarts, the versions of a file are 1, 2, ... without a
\* gap and no version number is given out twice.
THEOREM ContiguousHistory == Spec => []VersionsContiguous
  <1>1. FreeInv => VersionsContiguous
    <2> SUFFICES ASSUME FreeInv, NEW r \in versions
                 PROVE  /\ r.ver >= 1
                        /\ \A k \in 1 .. r.ver : KeyTaken(r.id, k)
                        /\ \A s \in versions : s.id = r.id /\ s.ver = r.ver => s = r
      BY DEF VersionsContiguous
    <2>1. r.id \in Nat /\ r.ver \in Nat
      BY DEF FreeInv, TypeOK, Row
    <2>2. PICK n \in Nat : Numbers(r.id) = 1 .. n
      BY <2>1 DEF FreeInv, Numbered
    <2>3. r.ver \in 1 .. n
      BY <2>2 DEF Numbers, RowsOf
    <2>4. \A k \in 1 .. r.ver : KeyTaken(r.id, k)
      <3> TAKE k \in 1 .. r.ver
      <3>1. k \in Numbers(r.id)
        BY <2>1, <2>2, <2>3
      <3> QED BY <3>1 DEF Numbers, RowsOf, KeyTaken
    <2> QED BY <2>1, <2>3, <2>4 DEF FreeInv, Numbered
  <1> QED BY <1>1, FreeInvAlways, PTL

\* latest_files_meta never differs from latest_files under the same conditions.
THEOREM MetaInStep == Spec => []MetaMirrorsLatest
  BY FreeInvAlways, PTL DEF FreeInv

=============================================================================
