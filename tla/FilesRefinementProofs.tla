----------------------- MODULE FilesRefinementProofs -----------------------
(***************************************************************************)
(* OneCreatorSpec implements VersionedFiles: under the mapping of          *)
(* OverlayFS!Files every step of overlay_fs_write is an Invoke, a Store, a *)
(* Fail, a Reply, a Crash, or leaves histories and calls as they are.      *)
(***************************************************************************)
EXTENDS OneCreatorProofs, Sequences

\* The row the mapping chooses for a stored version is the only one.
LEMMA RowAt ==
  ASSUME OneInv, NEW i \in Nat, NEW r \in versions, r.id = i
  PROVE  (CHOOSE s \in versions : s.id = i /\ s.ver = r.ver) = r
  BY DEF OneInv, FreeInv, Numbered

\* A path without rows under its file_id has the empty history.
LEMMA HistoryLength ==
  ASSUME OneInv, NEW p \in Paths
  PROVE  /\ ids[p] \in Nat
         /\ MaxVersion(ids[p]) \in Nat
         /\ Numbers(ids[p]) = 1 .. MaxVersion(ids[p])
         /\ ~Exists(p) => MaxVersion(ids[p]) = 0
  <1>1. ids[p] \in Nat
    BY DEF OneInv, FreeInv, TypeOK
  <1>2. MaxVersion(ids[p]) \in Nat /\ Numbers(ids[p]) = 1 .. MaxVersion(ids[p])
    BY <1>1, MaxVersionNumbers DEF OneInv, FreeInv
  <1>3. ASSUME ~Exists(p) PROVE MaxVersion(ids[p]) = 0
    <2>1. Numbers(ids[p]) = 1 .. 0
      BY <1>3 DEF Exists, Numbers, RowsOf, OneInv, PathColumn
    <2> QED BY <2>1, MaxVersionValue
  <1> QED BY <1>1, <1>2, <1>3

\* The histories depend on nothing but file_ids and file_versions.
LEMMA HistoryUnchanged ==
  ASSUME UNCHANGED <<ids, versions>>, NEW p \in Paths
  PROVE  History(p)' = History(p)
  BY DEF History, DataAt, MaxVersion, RowsOf

\* Creating a file_id gives the path an id without rows: its history stays empty.
LEMMA InsertIdHistory ==
  ASSUME OneInv, OneInv', NEW w \in Writers, InsertId(w), NEW p \in Paths
  PROVE  History(p)' = History(p)
  <1>1. versions' = versions
    BY DEF InsertId
  <1>2. \A i : RowsOf(i)' = RowsOf(i) /\ MaxVersion(i)' = MaxVersion(i)
    BY <1>1 DEF RowsOf, MaxVersion
  <1>3. CASE ids'[p] = ids[p]
    BY <1>1, <1>2, <1>3 DEF History, DataAt, MaxVersion, RowsOf
  <1>4. CASE ids'[p] # ids[p]
    <2>1. ids'[p] = seq + 1 /\ ids[p] = 0 /\ seq \in Nat
      BY <1>4 DEF InsertId, PathTaken, Exists, OneInv, FreeInv, TypeOK
    <2>2. \A r \in versions : r.id # seq + 1 /\ r.id # 0
      BY <2>1 DEF OneInv, FreeInv, TypeOK, PathColumn, IdsInjective, Row
    <2>3. {0} \cup {r.ver : r \in {s \in versions : s.id = ids[p]}} = {0} \cup (1 .. 0)
      BY <2>1, <2>2
    <2>4. {0} \cup {r.ver : r \in {s \in versions' : s.id = ids'[p]}} = {0} \cup (1 .. 0)
      BY <1>1, <2>1, <2>2
    <2>5. Max({0} \cup (1 .. 0)) = 0
      BY MaxOfRange
    <2>6. MaxVersion(ids[p])' = 0 /\ MaxVersion(ids[p]) = 0
      BY <2>3, <2>4, <2>5 DEF MaxVersion, RowsOf
    <2> QED BY <2>6 DEF History
  <1> QED BY <1>3, <1>4

\* A successful insert appends the contents to the history of its path and
\* leaves the other histories alone.
LEMMA InsertVersionHistory ==
  ASSUME OneInv, OneInv', NEW w \in Writers, InsertVersion(w),
         ~KeyTaken(fileId[w], nextVer[w]),
         NEW path \in Paths, path = call[w].path
  PROVE  /\ History(path)' = Append(History(path), call[w].data)
         /\ \A p \in Paths : p # path => History(p)' = History(p)
  <1>1. /\ pc[w] = "insert" /\ ids' = ids /\ call[w].path \in Paths
        /\ versions' = versions \cup {[id |-> fileId[w], ver |-> nextVer[w],
                                       path |-> call[w].path, data |-> call[w].data]}
    BY DEF InsertVersion, OneInv, FreeInv, TypeOK, Args, Steps
  <1>2. PICK new \in Row : new = [id |-> fileId[w], ver |-> nextVer[w],
                                  path |-> call[w].path, data |-> call[w].data]
    BY <1>1, InsertReady DEF OneInv
  <1>3. path = call[w].path
    OBVIOUS
  <1>4. new.id = ids[path] /\ new.id # 0 /\ new.id \in Nat /\ new.ver \in Nat
    BY <1>1, <1>2, <1>3 DEF OneInv, OwnFileId, Row
  <1>5. /\ versions' = versions \cup {new}
        /\ new.ver # 0 /\ ~KeyTaken(new.id, new.ver)
        /\ \A k \in 1 .. new.ver - 1 : KeyTaken(new.id, k)
        /\ Numbered /\ versions \subseteq Row
    BY <1>1, <1>2, InsertReady DEF OneInv, FreeInv, TypeOK
  <1>6. /\ MaxVersion(new.id) = new.ver - 1
        /\ MaxVersion(new.id)' = new.ver
        /\ \A i \in Nat : i # new.id => MaxVersion(i)' = MaxVersion(i)
    BY <1>5, InsertNumbers
  <1>7. ASSUME NEW p \in Paths, p # path PROVE History(p)' = History(p)
    <2>1. ids[p] # new.id /\ ids[p] \in Nat
      BY <1>3, <1>4, <1>7, HistoryLength DEF OneInv, IdsInjective
    <2>2. PICK i \in Nat : i = ids[p]
      BY <2>1
    <2>3. MaxVersion(i)' = MaxVersion(i)
      BY <1>6, <2>1, <2>2
    <2>4. MaxVersion(ids[p])' = MaxVersion(ids[p])
      BY <1>1, <2>2, <2>3 DEF MaxVersion, RowsOf
    <2>5. ASSUME NEW v PROVE DataAt(ids[p], v)' = DataAt(ids[p], v)
      <3>1. \A r : (r \in versions' /\ (r.id = ids'[p] /\ r.ver = v))
                   <=> (r \in versions /\ (r.id = ids[p] /\ r.ver = v))
        BY <1>1, <1>5, <2>1
      <3> QED BY <3>1 DEF DataAt
    <2>6. [v \in 1 .. MaxVersion(ids[p]) |-> DataAt(ids[p], v)]'
          = [v \in 1 .. MaxVersion(ids[p]) |-> DataAt(ids[p], v)]
      BY <2>4, <2>5
    <2> QED BY <2>6 DEF History
  <1>8. History(path)' = Append(History(path), new.data)
    <2> DEFINE n == new.ver - 1
               old == History(path)
    <2>1. old = [v \in 1 .. n |-> DataAt(ids[path], v)]
      BY <1>4, <1>6 DEF History
    <2>2. MaxVersion(ids[path])' = new.ver
      BY <1>1, <1>4, <1>6 DEF MaxVersion, RowsOf
    <2>3. History(path)' = [v \in 1 .. new.ver |-> DataAt(ids[path], v)']
      BY <2>2 DEF History
    <2>4. n \in Nat /\ new.ver = n + 1
      BY <1>4, <1>5
    <2>5. ASSUME NEW v \in 1 .. n PROVE DataAt(ids[path], v)' = old[v]
      <3>1. \A r : (r \in versions' /\ (r.id = ids'[path] /\ r.ver = v))
                   <=> (r \in versions /\ (r.id = ids[path] /\ r.ver = v))
        BY <1>1, <1>5, <2>4
      <3>2. DataAt(ids[path], v)' = DataAt(ids[path], v)
        BY <3>1 DEF DataAt
      <3> QED BY <2>1, <3>2
    <2>6. DataAt(ids[path], new.ver)' = new.data
      <3>1. \A r \in versions' : r.id = ids'[path] /\ r.ver = new.ver <=> r = new
        BY <1>1, <1>4, <1>5 DEF KeyTaken
      <3>2. (CHOOSE r \in versions' : r.id = ids'[path] /\ r.ver = new.ver) = new
        BY <1>5, <3>1
      <3> QED BY <3>2 DEF DataAt
    <2>7. Append(old, new.data)
          = [v \in 1 .. n + 1 |-> IF v = n + 1 THEN new.data ELSE old[v]]
      <3>1. Len(old) = n
        BY <2>1, <2>4
      <3> HIDE DEF old
      <3> QED BY <2>4, <3>1
    <2>8. \A v \in 1 .. new.ver :
            DataAt(ids[path], v)' = IF v = n + 1 THEN new.data ELSE old[v]
      <3> TAKE v \in 1 .. new.ver
      <3>1. CASE v = new.ver
        BY <2>4, <2>6, <3>1
      <3>2. CASE v \in 1 .. n
        BY <2>4, <2>5, <3>2
      <3> QED BY <2>4, <3>1, <3>2
    <2> QED BY <2>3, <2>4, <2>7, <2>8
  <1>9. new.data = call[w].data
    BY <1>2
  <1> QED BY <1>7, <1>8, <1>9

-----------------------------------------------------------------------------
(* The step simulation. *)

LEMMA FilesInit == Init => Files!Init
  <1> SUFFICES ASSUME Init PROVE Files!Init
    OBVIOUS
  <1>1. ASSUME NEW p \in Paths PROVE History(p) = <<>>
    <2>1. MaxVersion(ids[p]) = 0
      <3>1. Numbers(ids[p]) = 1 .. 0
        BY DEF Init, Numbers, RowsOf
      <3> QED BY <3>1, MaxVersionValue
    <2> QED BY <2>1 DEF History
  <1>2. \A w \in Writers : CallStatus(w) = "none"
    BY DEF Init, CallStatus
  <1> QED BY <1>1, <1>2 DEF Init, Files!Init

\* A step of one writer changes no other writer's status or arguments.
LEMMA OthersStatus ==
  ASSUME NEW w \in Writers, Write(w), OneInv
  PROVE  /\ \A v \in Writers : v # w =>
              CallStatus(v)' = CallStatus(v) /\ call'[v] = call[v]
         /\ call \in [Writers -> Args \cup {NoCall}]
         /\ call' \in [Writers -> Args \cup {NoCall}]
  <1> USE DEF OneInv, FreeInv, TypeOK
  <1>1. \A v \in Writers : v # w => pc'[v] = pc[v] /\ rc'[v] = rc[v] /\ call'[v] = call[v]
    BY DEF Write, Call, GetId, GetIdStepFails, InsertId, LastRowid, GetVersion,
       GetVersionStepFails, InsertVersion, StatementFails, Done, Goto, Return
  <1>2. TypeOK'
    BY WriteKeepsType
  <1> QED BY <1>1, <1>2 DEF CallStatus

\* Histories change only when a version is inserted.
LEMMA HistoriesStay ==
  ASSUME OneInv, OneInv', NEW w \in Writers, Write(w),
         ~(InsertVersion(w) /\ ~KeyTaken(fileId[w], nextVer[w]))
  PROVE  [p \in Paths |-> History(p)]' = [p \in Paths |-> History(p)]
  <1>1. CASE InsertId(w)
    BY <1>1, InsertIdHistory
  <1>2. CASE ~InsertId(w)
    <2>1. UNCHANGED <<ids, versions>>
      BY <1>2 DEF Write, Call, GetId, GetIdStepFails, LastRowid, GetVersion,
         GetVersionStepFails, InsertVersion, StatementFails, Done, db
    <2> QED BY <2>1, HistoryUnchanged
  <1> QED BY <1>1, <1>2

LEMMA FilesStep ==
  ASSUME OneInv, OneInv', NEW w \in Writers, Write(w)
  PROVE  [Files!Next]_Files!vars
  <1> DEFINE H == [p \in Paths |-> History(p)]
             St == [v \in Writers |-> CallStatus(v)]
  <1>1. /\ St' = [St EXCEPT ![w] = CallStatus(w)']
        /\ St[w] = CallStatus(w)
    BY OthersStatus
  <1>2. /\ call \in [Writers -> Args \cup {NoCall}]
        /\ call' = [call EXCEPT ![w] = call'[w]]
    BY OthersStatus
  <1>3. ASSUME CallStatus(w)' = CallStatus(w), call'[w] = call[w], H' = H
        PROVE  UNCHANGED Files!vars
    <2>1. St' = St
      BY <1>1, <1>3
    <2>2. call' = call
      BY <1>2, <1>3
    <2> QED BY <1>3, <2>1, <2>2 DEF Files!vars
  <1>4. ASSUME NEW path \in Paths, NEW data \in Contents, Call(w, path, data)
        PROVE  Files!Invoke(w, path, data)
    <2>1. CallStatus(w) = "none" /\ CallStatus(w)' = "pending"
      BY <1>4 DEF Call, Busy, Goto, CallStatus, OneInv, FreeInv, TypeOK
    <2>2. H' = H
      BY <1>4, HistoryUnchanged DEF Call, db
    <2>3. call' = [call EXCEPT ![w] = [path |-> path, data |-> data]]
      BY <1>4 DEF Call
    <2> HIDE DEF H, St
    <2> QED BY <1>1, <2>1, <2>2, <2>3 DEF Files!Invoke, H, St
  <1>5. ASSUME CallStatus(w) = "pending", CallStatus(w)' = "failed", call' = call, H' = H
        PROVE  Files!Fail(w)
    BY <1>1, <1>5 DEF Files!Fail
  <1>6. CASE InsertVersion(w) /\ ~KeyTaken(fileId[w], nextVer[w])
    <2>1. rc'[w] = 0 /\ pc'[w] = "return" /\ pc[w] = "insert" /\ call' = call
      BY <1>6 DEF InsertVersion, Return, Goto, OneInv, FreeInv, TypeOK
    <2>2. CallStatus(w) = "pending" /\ CallStatus(w)' = "stored"
      BY <2>1 DEF CallStatus
    <2>3. PICK path \in Paths : path = call[w].path
      BY <1>6 DEF InsertVersion, OneInv, FreeInv, TypeOK, Args
    <2>4. H' = [H EXCEPT ![call[w].path] = Append(@, call[w].data)]
      <3>1. /\ History(path)' = Append(History(path), call[w].data)
            /\ \A p \in Paths : p # path => History(p)' = History(p)
        BY <1>6, <2>3, InsertVersionHistory
      <3> QED BY <2>3, <3>1
    <2>5. Files!Store(w)
      BY <1>1, <2>1, <2>2, <2>4 DEF Files!Store
    <2> QED BY <2>5 DEF Files!Next
  <1>7. CASE ~(InsertVersion(w) /\ ~KeyTaken(fileId[w], nextVer[w]))
    <2>1. H' = H
      BY <1>7, HistoriesStay
    <2>2. CASE GetId(w) \/ GetIdStepFails(w) \/ LastRowid(w) \/ GetVersion(w)
               \/ GetVersionStepFails(w)
      <3>1. CallStatus(w)' = CallStatus(w) /\ call'[w] = call[w]
        BY <2>2 DEF GetId, GetIdStepFails, LastRowid, GetVersion, GetVersionStepFails,
                    Goto, CallStatus, OneInv, FreeInv, TypeOK
      <3> QED BY <1>3, <2>1, <3>1
    <2>3. CASE InsertId(w)
      <3>1. CallStatus(w) = "pending" /\ call' = call
        BY <2>3 DEF InsertId, CallStatus
      <3>2. CallStatus(w)' \in {"pending", "failed"}
        BY <2>3 DEF InsertId, Return, Goto, CallStatus, OneInv, FreeInv, TypeOK
      <3>3. CASE CallStatus(w)' = "pending"
        BY <1>3, <2>1, <3>1, <3>3
      <3>4. CASE CallStatus(w)' = "failed"
        BY <1>5, <2>1, <3>1, <3>4 DEF Files!Next
      <3> QED BY <3>2, <3>3, <3>4
    <2>4. CASE StatementFails(w) \/ (InsertVersion(w) /\ KeyTaken(fileId[w], nextVer[w]))
      <3>1. CallStatus(w) = "pending" /\ CallStatus(w)' = "failed" /\ call' = call
        BY <2>4 DEF StatementFails, InsertVersion, Return, Goto, CallStatus, OneInv,
                    FreeInv, TypeOK
      <3> QED BY <1>5, <2>1, <3>1 DEF Files!Next
    <2>5. CASE Done(w)
      <3>1. /\ CallStatus(w) \in {"stored", "failed"} /\ CallStatus(w)' = "none"
            /\ call' = [call EXCEPT ![w] = NoCall]
        BY <2>5 DEF Done, Goto, CallStatus, OneInv, FreeInv, TypeOK
      <3>2. Files!Reply(w)
        BY <1>1, <2>1, <3>1 DEF Files!Reply
      <3> QED BY <3>2 DEF Files!Next
    <2>6. CASE \E path \in Paths, data \in Contents : Call(w, path, data)
      BY <1>4, <2>6 DEF Files!Next
    <2> QED BY <1>7, <2>2, <2>3, <2>4, <2>5, <2>6 DEF Write
  <1> QED BY <1>6, <1>7

LEMMA FilesRestart ==
  ASSUME OneInv, Restart
  PROVE  Files!Crash
  <1>1. [p \in Paths |-> History(p)]' = [p \in Paths |-> History(p)]
    BY HistoryUnchanged DEF Restart
  <1>2. \A w \in Writers : CallStatus(w)' = "none"
    BY DEF Restart, CallStatus
  <1> QED BY <1>1, <1>2 DEF Files!Crash, Restart

\* overlay_fs_write is an atomic append: with one creator at a time, every
\* behaviour of the statements it consists of is a behaviour of VersionedFiles.
THEOREM ImplementsVersionedFiles == OneCreatorSpec => ImplementsFiles
  <1>1. OneInv /\ OneInv' /\ [OneNext]_vars => [Files!Next]_Files!vars
    <2> SUFFICES ASSUME OneInv, OneInv', [OneNext]_vars PROVE [Files!Next]_Files!vars
      OBVIOUS
    <2>1. ASSUME NEW w \in Writers, Write(w) PROVE [Files!Next]_Files!vars
      BY <2>1, FilesStep
    <2>2. CASE Restart
      BY <2>2, FilesRestart DEF Files!Next
    <2>3. CASE UNCHANGED vars
      BY <2>3, HistoryUnchanged DEF vars, CallStatus, Files!vars
    <2> QED BY <2>1, <2>2, <2>3 DEF OneNext, Next
  <1> QED BY <1>1, FilesInit, OneInvAlways, PTL
          DEF OneCreatorSpec, OneNext, ImplementsFiles, Files!Spec

\* Both reads of a path return the last content of its history: overlay_fs_read
\* by the file_id and, since they agree, overlay_fs_read_file by the path.
THEOREM NewestIsRead == OneCreatorSpec => []ReadsNewest
  <1>1. OneInv => ReadsNewest
    <2> SUFFICES ASSUME OneInv, NEW path \in Paths
                 PROVE  Read(path) = IF MaxVersion(ids[path]) = 0 THEN {}
                                     ELSE {History(path)[MaxVersion(ids[path])]}
      BY DEF ReadsNewest
    <2>1. PICK i \in Nat : i = ids[path]
      BY HistoryLength
    <2>2. PICK n \in Nat : n = MaxVersion(i) /\ Numbers(i) = 1 .. n
      BY <2>1, HistoryLength
    <2>3. Read(path) = {r.data : r \in {s \in versions : s.id = i /\ s.ver = n}}
      <3>1. {s \in Latest : s.id = ids[path]} = {s \in versions : s.id = i /\ s.ver = n}
        BY <2>1, <2>2 DEF Latest
      <3> QED BY <3>1 DEF Read
    <2>4. CASE n = 0
      <3>1. \A s \in versions : s.id = i => s.ver \in 1 .. n
        BY <2>2 DEF Numbers, RowsOf
      <3>2. {s \in versions : s.id = i /\ s.ver = n} = {}
        BY <2>4, <3>1
      <3> QED BY <2>1, <2>2, <2>3, <2>4, <3>2
    <2>5. CASE n # 0
      <3>1. PICK r \in versions : r.id = i /\ r.ver = n
        <4>1. n \in Numbers(i)
          BY <2>2, <2>5
        <4> QED BY <4>1 DEF Numbers, RowsOf
      <3>2. {s \in versions : s.id = i /\ s.ver = n} = {r}
        BY <3>1 DEF OneInv, FreeInv, Numbered
      <3>3. DataAt(i, n) = r.data
        <4>1. (CHOOSE s \in versions : s.id = i /\ s.ver = r.ver) = r
          BY <3>1, RowAt
        <4> QED BY <3>1, <4>1 DEF DataAt
      <3>4. History(path)[n] = r.data
        BY <2>1, <2>2, <2>5, <3>3 DEF History
      <3> QED BY <2>1, <2>2, <2>3, <2>5, <3>2, <3>4
    <2> QED BY <2>4, <2>5
  <1> QED BY <1>1, OneInvAlways, PTL

=============================================================================
