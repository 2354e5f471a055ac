-------------------------- MODULE OneCreatorProofs --------------------------
(***************************************************************************)
(* Theorems about OneCreatorSpec: writers of files that already have a     *)
(* version run concurrently, a writer that creates a file runs alone.      *)
(*                                                                         *)
(* The inductive invariant adds to FreeInv that file_ids is injective,     *)
(* that every row's path column names the path its file_id belongs to, and *)
(* that the file_id a writer holds is the one of its own path.             *)
(***************************************************************************)
EXTENDS OverlayFSProofs

IdsInjective ==
  /\ \A p \in Paths : ids[p] <= seq
  /\ \A p, q \in Paths : ids[p] = ids[q] /\ ids[p] # 0 => p = q

PathColumn == \A r \in versions : r.id = ids[r.path] /\ r.id # 0

OwnFileId(w) ==
  /\ pc[w] \in {"get_version", "insert"} =>
       fileId[w] = ids[call[w].path] /\ fileId[w] # 0
  /\ pc[w] = "last_rowid" =>
       /\ rowid = ids[call[w].path] /\ rowid # 0
       /\ RowsOf(rowid) = {}

OneInv ==
  /\ FreeInv
  /\ CreatorRunsAlone
  /\ IdsInjective
  /\ PathColumn
  /\ \A w \in Writers : OwnFileId(w)

OneNext == Next /\ CreatorRunsAlone'

LEMMA OneInvInit == Init => OneInv
  BY FreeInvInit DEF Init, OneInv, CreatorRunsAlone, Busy, IdsInjective, PathColumn, OwnFileId

\* A call on a path that has no version yet is the only one.
LEMMA CreatorAlone ==
  ASSUME CreatorRunsAlone, NEW w \in Writers, Busy(w), ~Stored(call[w].path),
         NEW v \in Writers, v # w
  PROVE  pc[v] = "idle"
  BY DEF CreatorRunsAlone, Busy

\* Before it inserts, a call that found no file_id is alone.
LEMMA InsertIdKeeps ==
  ASSUME OneInv, NEW w \in Writers, InsertId(w)
  PROVE  IdsInjective' /\ PathColumn' /\ \A v \in Writers : OwnFileId(v)'
  <1> USE DEF OneInv, FreeInv, TypeOK, Steps
  <1>1. call[w].path \in Paths /\ Busy(w) /\ versions' = versions /\ fileId' = fileId
        /\ call' = call
    BY DEF InsertId, Busy, Args
  <1>2. CASE Exists(call[w].path)
    <2>1. UNCHANGED <<ids, seq, rowid>> /\ pc' = [pc EXCEPT ![w] = "return"]
      BY <1>2 DEF InsertId, PathTaken, Return, Goto
    <2>2. \A v \in Writers : pc'[v] = pc[v] \/ pc'[v] = "return"
      BY <2>1
    <2> QED BY <1>1, <2>1, <2>2 DEF IdsInjective, PathColumn, OwnFileId, RowsOf
  <1>3. CASE ~Exists(call[w].path)
    <2>1. \A v \in Writers : v # w => pc[v] = "idle"
      BY <1>1, <1>3, CreatorAlone DEF Stored
    <2>2. /\ ids' = [ids EXCEPT ![call[w].path] = seq + 1]
          /\ seq' = seq + 1 /\ rowid' = seq + 1
          /\ pc' = [pc EXCEPT ![w] = "last_rowid"]
      BY <1>3 DEF InsertId, PathTaken, Goto
    <2>3. IdsInjective'
      BY <1>1, <2>2 DEF IdsInjective
    <2>4. \A r \in versions : r.path \in Paths /\ r.path # call[w].path
      BY <1>3 DEF PathColumn, Exists, Row
    <2>5. PathColumn'
      BY <1>1, <2>2, <2>4 DEF PathColumn
    <2>6. \A r \in versions : r.id # seq + 1
      BY <2>4 DEF PathColumn, IdsInjective
    <2>7. \A v \in Writers : OwnFileId(v)'
      BY <1>1, <2>1, <2>2, <2>6 DEF OwnFileId, RowsOf
    <2> QED BY <2>3, <2>5, <2>7
  <1> QED BY <1>2, <1>3

\* The creator is alone, so sqlite3_last_insert_rowid is the id it just made.
LEMMA LastRowidKeeps ==
  ASSUME OneInv, NEW w \in Writers, LastRowid(w)
  PROVE  IdsInjective' /\ PathColumn' /\ \A v \in Writers : OwnFileId(v)'
  <1> USE DEF OneInv, FreeInv, TypeOK, Steps
  <1>1. /\ UNCHANGED <<ids, seq, versions, rowid, call>>
        /\ pc' = [pc EXCEPT ![w] = "insert"]
        /\ pc[w] = "last_rowid"
    BY DEF LastRowid, Goto, db
  <1>2. rowid = ids[call[w].path] /\ rowid # 0 /\ RowsOf(rowid) = {}
    BY <1>1 DEF OwnFileId
  <1>3. \A v \in Writers : v # w => pc[v] = "idle"
    BY <1>1, <1>2, CreatorAlone DEF Stored, Busy
  <1>4. LastInsertRowids(w) = {rowid}
    BY <1>3 DEF LastInsertRowids
  <1>5. fileId' = [fileId EXCEPT ![w] = rowid]
    BY <1>4 DEF LastRowid
  <1> QED BY <1>1, <1>2, <1>3, <1>5 DEF IdsInjective, PathColumn, OwnFileId

\* The inserted row carries the path and the file_id of that path; a file about
\* to be created by someone else would need this writer to be idle.
LEMMA InsertVersionKeeps ==
  ASSUME OneInv, NEW w \in Writers, InsertVersion(w)
  PROVE  IdsInjective' /\ PathColumn' /\ \A v \in Writers : OwnFileId(v)'
  <1> USE DEF OneInv, FreeInv, TypeOK, Steps
  <1>1. /\ UNCHANGED <<ids, seq, rowid, call, fileId>>
        /\ pc' = [pc EXCEPT ![w] = "return"]
        /\ pc[w] = "insert"
    BY DEF InsertVersion, Return, Goto
  <1>2. fileId[w] = ids[call[w].path] /\ fileId[w] # 0
    BY <1>1 DEF OwnFileId
  <1>3. \A r \in versions' : r \in versions \/ (r.id = fileId[w] /\ r.path = call[w].path)
    BY DEF InsertVersion
  <1>4. PathColumn'
    BY <1>1, <1>2, <1>3 DEF PathColumn
  <1>5. ASSUME NEW v \in Writers PROVE OwnFileId(v)'
    <2>1. CASE v = w
      BY <1>1, <2>1 DEF OwnFileId
    <2>2. CASE v # w /\ pc[v] # "last_rowid"
      BY <1>1, <2>2 DEF OwnFileId
    <2>3. CASE v # w /\ pc[v] = "last_rowid"
      <3>1. ~Stored(call[v].path)
        BY <2>3 DEF OwnFileId, Stored
      <3> QED BY <1>1, <2>3, <3>1, CreatorAlone DEF Busy
    <2> QED BY <2>1, <2>2, <2>3
  <1> QED BY <1>1, <1>4, <1>5 DEF IdsInjective

\* The other steps of a writer leave file_ids and file_versions alone.
LEMMA OtherStepsKeep ==
  ASSUME OneInv, NEW w \in Writers,
         \/ \E path \in Paths, data \in Contents : Call(w, path, data)
         \/ GetId(w) \/ GetIdStepFails(w) \/ GetVersion(w) \/ GetVersionStepFails(w)
         \/ StatementFails(w) \/ Done(w)
  PROVE  IdsInjective' /\ PathColumn' /\ \A v \in Writers : OwnFileId(v)'
  <1> USE DEF OneInv, FreeInv, TypeOK, Steps
  <1>1. UNCHANGED <<ids, seq, versions, rowid>>
    BY DEF Call, GetId, GetIdStepFails, GetVersion, GetVersionStepFails,
           StatementFails, Done, db
  <1>2. \A i : RowsOf(i)' = RowsOf(i)
    BY <1>1 DEF RowsOf
  <1>3. ASSUME NEW v \in Writers, v # w PROVE OwnFileId(v)'
    <2>1. pc'[v] = pc[v] /\ call'[v] = call[v] /\ fileId'[v] = fileId[v]
      BY <1>3 DEF Call, GetId, GetIdStepFails, GetVersion, GetVersionStepFails,
                  StatementFails, Done, Goto, Return
    <2> QED BY <1>1, <2>1 DEF OwnFileId, RowsOf
  <1>4. OwnFileId(w)'
    BY <1>1 DEF Call, GetId, GetIdStepFails, GetVersion, GetVersionStepFails,
                StatementFails, Done, Goto, Return, OwnFileId, RowsOf
  <1> QED BY <1>1, <1>3, <1>4 DEF IdsInjective, PathColumn

LEMMA OneInvNext == OneInv /\ [OneNext]_vars => OneInv'
  <1> SUFFICES ASSUME OneInv, [OneNext]_vars PROVE OneInv'
    OBVIOUS
  <1>1. FreeInv'
    BY FreeInvNext DEF OneInv, OneNext
  <1>2. CreatorRunsAlone'
    BY DEF OneInv, OneNext, vars, CreatorRunsAlone, Busy, Stored, Exists, RowsOf
  <1>3. IdsInjective' /\ PathColumn' /\ \A v \in Writers : OwnFileId(v)'
    <2>1. ASSUME NEW w \in Writers, Write(w)
          PROVE  IdsInjective' /\ PathColumn' /\ \A v \in Writers : OwnFileId(v)'
      BY <2>1, InsertIdKeeps, LastRowidKeeps, InsertVersionKeeps, OtherStepsKeep DEF Write
    <2>2. CASE Restart
      BY <2>2 DEF Restart, OneInv, IdsInjective, PathColumn, OwnFileId
    <2>3. CASE UNCHANGED vars
      BY <2>3 DEF vars, OneInv, IdsInjective, PathColumn, OwnFileId, RowsOf
    <2> QED BY <2>1, <2>2, <2>3 DEF OneNext, Next
  <1> QED BY <1>1, <1>2, <1>3 DEF OneInv

LEMMA OneInvAlways == OneCreatorSpec => []OneInv
  BY OneInvInit, OneInvNext, PTL DEF OneCreatorSpec, OneNext

\* While files are created by a writer that runs alone, overlay_fs_read and
\* overlay_fs_read_file find the same content for every path, also after failed
\* statements and restarts, and with concurrent writers of existing files.
THEOREM ReadsAlwaysAgree == OneCreatorSpec => []ReadsAgree
  <1>1. OneInv => ReadsAgree
    <2> SUFFICES ASSUME OneInv, NEW path \in Paths PROVE Read(path) = ReadFile(path)
      BY DEF ReadsAgree
    <2>1. \A r \in Latest : r.path = path <=> r.id = ids[path]
      BY DEF OneInv, FreeInv, TypeOK, Latest, Row, PathColumn, IdsInjective
    <2> QED BY <2>1 DEF Read, ReadFile
  <1> QED BY <1>1, OneInvAlways, PTL

-----------------------------------------------------------------------------
(* When a call may fail. *)

\* An undisturbed call has its path for itself, finds the row or the free key it
\* expects at each statement, and returns 0.
Undisturbed(w) ==
  Busy(w) /\ w \notin disturbed =>
    /\ \A v \in Writers \ {w} : Busy(v) => call[v].path # call[w].path
    /\ pc[w] = "insert_id" => ~Exists(call[w].path)
    /\ pc[w] = "insert" => ~KeyTaken(fileId[w], nextVer[w])
    /\ pc[w] = "return" => rc[w] = 0

CallInv == OneInv /\ \A w \in Writers : Undisturbed(w)

\* A step of one writer keeps what the call of another relies on.
LEMMA OthersUndisturbed ==
  ASSUME CallInv, OneInv', NEW w \in Writers, Write(w), NEW v \in Writers, v # w
  PROVE  Undisturbed(v)'
  <1> USE DEF CallInv, OneInv, FreeInv, TypeOK, Steps
  <1> SUFFICES ASSUME Busy(v)', v \notin disturbed' PROVE Undisturbed(v)'
    BY DEF Undisturbed
  <1>1. /\ pc'[v] = pc[v] /\ call'[v] = call[v] /\ fileId'[v] = fileId[v]
        /\ nextVer'[v] = nextVer[v] /\ rc'[v] = rc[v]
        /\ v \notin disturbed' => v \notin disturbed
    BY DEF Write, Call, GetId, GetIdStepFails, InsertId, LastRowid, GetVersion,
       GetVersionStepFails, InsertVersion, StatementFails, Done, Disturb, Goto, Return
  <1>2. Undisturbed(v) /\ Busy(v) /\ v \notin disturbed
    BY <1>1 DEF Busy
  <1>3. Busy(w)' => call'[w].path # call[v].path
    <2>1. CASE \E path \in Paths, data \in Contents : Call(w, path, data)
      BY <1>2, <2>1 DEF Call, Rivals
    <2>2. CASE ~ \E path \in Paths, data \in Contents : Call(w, path, data)
      <3>1. (Busy(w)' => Busy(w) /\ call'[w] = call[w])
        BY <2>2 DEF Write, GetId, GetIdStepFails, InsertId, LastRowid, GetVersion,
           GetVersionStepFails, InsertVersion, StatementFails, Done, Goto, Return, Busy
      <3> QED BY <1>2, <3>1 DEF Undisturbed
    <2> QED BY <2>1, <2>2
  <1>4. \A u \in Writers \ {w} : pc'[u] = pc[u] /\ call'[u] = call[u]
    BY DEF Write, Call, GetId, GetIdStepFails, InsertId, LastRowid, GetVersion,
       GetVersionStepFails, InsertVersion, StatementFails, Done, Goto, Return
  <1>5. \A u \in Writers \ {v} : Busy(u)' => call'[u].path # call'[v].path
    BY <1>1, <1>2, <1>3, <1>4 DEF Undisturbed, Busy
  <1>6. pc[v] = "insert_id" => ids'[call[v].path] = 0
    <2> SUFFICES ASSUME pc[v] = "insert_id" PROVE ids'[call[v].path] = 0
      OBVIOUS
    <2>1. ids[call[v].path] = 0 /\ call[v].path \in Paths
      BY <1>2 DEF Undisturbed, Exists, Args
    <2>2. pc[w] = "idle"
      BY <1>2, <2>1, CreatorAlone DEF Stored, Exists
    <2>3. ids' = ids
      BY <2>2 DEF Write, Call, GetId, GetIdStepFails, InsertId, LastRowid, GetVersion,
         GetVersionStepFails, InsertVersion, StatementFails, Done, db
    <2> QED BY <2>1, <2>3
  <1>7. pc[v] = "insert" => ~ \E r \in versions' : r.id = fileId[v] /\ r.ver = nextVer[v]
    <2> SUFFICES ASSUME pc[v] = "insert"
                 PROVE  \A r \in versions' : ~(r.id = fileId[v] /\ r.ver = nextVer[v])
      OBVIOUS
    <2>1. \A r \in versions : ~(r.id = fileId[v] /\ r.ver = nextVer[v])
      BY <1>2 DEF Undisturbed, KeyTaken
    <2>2. CASE InsertVersion(w)
      <3>1. call[w].path # call[v].path /\ call[w].path \in Paths /\ call[v].path \in Paths
        BY <1>2, <2>2 DEF Undisturbed, InsertVersion, Busy, Args
      <3>2. fileId[w] # fileId[v]
        BY <2>2, <3>1 DEF OwnFileId, InsertVersion, IdsInjective
      <3>3. \A r \in versions' : r \in versions \/ r.id = fileId[w]
        BY <2>2 DEF InsertVersion
      <3> QED BY <2>1, <3>2, <3>3
    <2>3. ~InsertVersion(w) => versions' = versions
      BY DEF Write, Call, GetId, GetIdStepFails, InsertId, LastRowid, GetVersion,
         GetVersionStepFails, StatementFails, Done, db
    <2> QED BY <2>1, <2>2, <2>3
  <1> QED BY <1>1, <1>2, <1>5, <1>6, <1>7 DEF Undisturbed, KeyTaken, Exists

\* The step keeps what the writer's own call relies on.
LEMMA SelfUndisturbed ==
  ASSUME CallInv, OneInv', NEW w \in Writers, Write(w)
  PROVE  Undisturbed(w)'
  <1> USE DEF CallInv, OneInv, FreeInv, TypeOK, Steps
  <1> SUFFICES ASSUME Busy(w)', w \notin disturbed' PROVE Undisturbed(w)'
    BY DEF Undisturbed
  <1>1. \A u \in Writers \ {w} : pc'[u] = pc[u] /\ call'[u] = call[u]
    BY DEF Write, Call, GetId, GetIdStepFails, InsertId, LastRowid, GetVersion,
       GetVersionStepFails, InsertVersion, StatementFails, Done, Goto, Return
  <1>2. CASE \E path \in Paths, data \in Contents : Call(w, path, data)
    BY <1>1, <1>2 DEF Call, Rivals, Undisturbed, Goto, Busy
  <1>3. ASSUME ~ \E path \in Paths, data \in Contents : Call(w, path, data)
        PROVE  Undisturbed(w)'
    <2>1. /\ Busy(w) /\ w \notin disturbed /\ call'[w] = call[w]
          /\ ~(Faults /\ (GetIdStepFails(w) \/ GetVersionStepFails(w) \/ StatementFails(w)))
      BY <1>3 DEF Write, GetId, GetIdStepFails, InsertId, LastRowid, GetVersion,
         GetVersionStepFails, InsertVersion, StatementFails, Done, Disturb, Goto,
         Return, Busy
    <2>2. \A u \in Writers \ {w} : Busy(u)' => call'[u].path # call'[w].path
      BY <1>1, <2>1 DEF Undisturbed, Busy
    <2>3. CASE GetId(w)
      BY <2>2, <2>3 DEF GetId, Goto, Undisturbed, Exists, db
    <2>4. CASE InsertId(w)
      BY <2>1, <2>2, <2>4 DEF InsertId, PathTaken, Goto, Undisturbed
    <2>5. CASE LastRowid(w)
      <3>1. fileId'[w] = ids[call[w].path] /\ versions' = versions
            /\ RowsOf(ids[call[w].path]) = {} /\ pc'[w] = "insert"
        BY <2>5 DEF LastRowid, Goto, OwnFileId, db
      <3>2. \A r \in versions' : r.id # fileId'[w]
        BY <3>1 DEF RowsOf
      <3> QED BY <2>2, <3>1, <3>2 DEF Undisturbed, KeyTaken
    <2>6. CASE GetVersion(w)
      <3>1. /\ fileId[w] \in Nat /\ fileId' = fileId /\ versions' = versions
            /\ nextVer'[w] = MaxVersion(fileId[w]) + 1 /\ pc'[w] = "insert"
        BY <2>6 DEF GetVersion, Goto, ReadyToInsert, Ready, VersionAfter, db
      <3>2. MaxVersion(fileId[w]) \in Nat /\ Numbers(fileId[w]) = 1 .. MaxVersion(fileId[w])
        BY <3>1, MaxVersionNumbers
      <3>3. nextVer'[w] \notin Numbers(fileId[w])
        BY <3>1, <3>2
      <3> QED BY <2>2, <3>1, <3>3 DEF Undisturbed, KeyTaken, Numbers, RowsOf
    <2>7. CASE InsertVersion(w)
      BY <2>1, <2>2, <2>7 DEF InsertVersion, Return, Goto, Undisturbed
    <2>8. CASE Done(w)
      BY <2>8 DEF Done, Goto, Busy
    <2> QED BY <1>3, <2>1, <2>3, <2>4, <2>5, <2>6, <2>7, <2>8
            DEF Write, GetIdStepFails, GetVersionStepFails, StatementFails, Disturb
  <1> QED BY <1>2, <1>3

LEMMA CallInvNext == CallInv /\ [OneNext]_vars => CallInv'
  <1> SUFFICES ASSUME CallInv, [OneNext]_vars PROVE CallInv'
    OBVIOUS
  <1>1. OneInv'
    BY OneInvNext DEF CallInv
  <1>2. ASSUME NEW w \in Writers, Write(w) PROVE \A v \in Writers : Undisturbed(v)'
    BY <1>1, <1>2, OthersUndisturbed, SelfUndisturbed
  <1>3. CASE Restart
    BY <1>1, <1>3 DEF Restart, CallInv, Undisturbed, Busy
  <1>4. CASE UNCHANGED vars
    BY <1>1, <1>4 DEF vars, CallInv, Undisturbed, Busy, Exists, KeyTaken
  <1> QED BY <1>1, <1>2, <1>3, <1>4 DEF CallInv, OneNext, Next

\* A write that meets no failing statement and no other call on its path returns
\* 0, whatever earlier failures and crashes left behind.
THEOREM FailuresAreCaused == OneCreatorSpec => []FailsOnlyIfDisturbed
  <1>1. Init => CallInv
    BY OneInvInit DEF Init, CallInv, Undisturbed, Busy
  <1>2. CallInv => FailsOnlyIfDisturbed
    BY DEF CallInv, Undisturbed, FailsOnlyIfDisturbed, Busy
  <1> QED BY <1>1, <1>2, CallInvNext, PTL DEF OneCreatorSpec, OneNext

=============================================================================
