----------------------------- MODULE BootProofs -----------------------------
(***************************************************************************)
(* The start-up migration for any number of processes, bundles and crashes:*)
(* it implements AssetStore, stores a bundle completely or not at all, and *)
(* serves only what it has stored.                                         *)
(***************************************************************************)
EXTENDS Boot, FiniteSetTheorems, SequenceTheorems, TLAPS

-----------------------------------------------------------------------------
(* Sequences *)

\* The last element of a sequence, and of one made longer.
LEMMA LastOf ==
  ASSUME NEW S, NEW s \in Seq(S), s # <<>>
  PROVE  Len(s) \in Nat \ {0} /\ Last(s) = s[Len(s)] /\ Last(s) \in S
  <1>1. Len(s) \in Nat \ {0}
    BY EmptySeq
  <1> QED BY <1>1, ElementOfSeq DEF Last

LEMMA LastAppended ==
  ASSUME NEW S, NEW s \in Seq(S), NEW x \in S
  PROVE  /\ Append(s, x) \in Seq(S) /\ Append(s, x) # <<>> /\ Last(Append(s, x)) = x
         /\ Len(Append(s, x)) = Len(s) + 1
         /\ \A i \in 1 .. Len(s) : Append(s, x)[i] = s[i]
  BY AppendProperties DEF Last

\* A beginning of a sequence that is not empty.
LEMMA Beginning ==
  ASSUME NEW S, NEW s \in Seq(S), NEW k \in 1 .. Len(s)
  PROVE  /\ SubSeq(s, 1, k) \in Seq(S) /\ SubSeq(s, 1, k) # <<>>
         /\ Len(SubSeq(s, 1, k)) = k
         /\ \A i \in 1 .. k : SubSeq(s, 1, k)[i] = s[i]
  <1>1. /\ SubSeq(s, 1, k) \in Seq(S) /\ Len(SubSeq(s, 1, k)) = k
        /\ \A i \in 1 .. k : SubSeq(s, 1, k)[i] = s[i]
    BY SubSeqProperties
  <1> QED BY <1>1, EmptySeq

\* How often a value occurs in a sequence and in a longer one.
LEMMA TimesAppended ==
  ASSUME NEW S, NEW s \in Seq(S), NEW x \in S, NEW v
  PROVE  /\ Times(s, v) \in Nat
         /\ Times(Append(s, x), v) = Times(s, v) + IF x = v THEN 1 ELSE 0
  <1> DEFINE n == Len(s)
             C == {i \in 1 .. n : s[i] = v}
             D == {i \in 1 .. n + 1 : Append(s, x)[i] = v}
  <1>1. /\ n \in Nat /\ DOMAIN s = 1 .. n /\ DOMAIN Append(s, x) = 1 .. n + 1
        /\ Append(s, x)[n + 1] = x
        /\ \A i \in 1 .. n : Append(s, x)[i] = s[i]
    BY AppendProperties
  <1>2. Times(s, v) = Cardinality(C) /\ Times(Append(s, x), v) = Cardinality(D)
    BY <1>1 DEF Times
  <1>3. IsFiniteSet(C) /\ Cardinality(C) \in Nat /\ n + 1 \notin C
    <2>1. IsFiniteSet(1 .. n)
      BY <1>1, FS_Interval
    <2>2. IsFiniteSet(C)
      BY <2>1, FS_Subset
    <2> QED BY <1>1, <2>2, FS_CardinalityType
  <1>4. D = IF x = v THEN C \cup {n + 1} ELSE C
    BY <1>1
  <1> HIDE DEF n, C, D
  <1>5. Cardinality(D) = Cardinality(C) + IF x = v THEN 1 ELSE 0
    <2>1. Cardinality(C \cup {n + 1}) = Cardinality(C) + 1
      BY <1>3, FS_AddElement
    <2> QED BY <1>3, <1>4, <2>1
  <1>6. Times(Append(s, x), v) = Times(s, v) + IF x = v THEN 1 ELSE 0
    BY <1>2, <1>5
  <1> QED BY <1>2, <1>3, <1>6

-----------------------------------------------------------------------------
(* The first entries of a bundle *)

\* How often an entry is among the first n of a bundle.
Occurs(b, n, e) == Cardinality({i \in 1 .. n : Entries[b][i] = e})

\* A condition on one number more.
LEMMA CountNext ==
  ASSUME NEW S, NEW n \in Nat
  PROVE  LET C == {i \in 1 .. n : i \in S}
             D == {i \in 1 .. n + 1 : i \in S}
         IN  /\ IsFiniteSet(C) /\ Cardinality(C) \in Nat /\ n + 1 \notin C
             /\ D = IF n + 1 \in S THEN C \cup {n + 1} ELSE C
             /\ Cardinality(D) = Cardinality(C) + IF n + 1 \in S THEN 1 ELSE 0
  <1> DEFINE C == {i \in 1 .. n : i \in S}
             D == {i \in 1 .. n + 1 : i \in S}
  <1>1. IsFiniteSet(C) /\ Cardinality(C) \in Nat /\ n + 1 \notin C
    <2>1. IsFiniteSet(1 .. n)
      BY FS_Interval
    <2>2. IsFiniteSet(C)
      BY <2>1, FS_Subset
    <2> QED BY <2>2, FS_CardinalityType
  <1>2. D = IF n + 1 \in S THEN C \cup {n + 1} ELSE C
    OBVIOUS
  <1> HIDE DEF C, D
  <1>3. Cardinality(D) = Cardinality(C) + IF n + 1 \in S THEN 1 ELSE 0
    BY <1>1, <1>2, FS_AddElement
  <1> QED BY <1>1, <1>2, <1>3 DEF C, D

LEMMA OccursNext ==
  ASSUME NEW b, NEW e, NEW n \in Nat
  PROVE  /\ Occurs(b, n, e) \in Nat
         /\ Occurs(b, 0, e) = 0
         /\ Occurs(b, n + 1, e) = Occurs(b, n, e) + IF Entries[b][n + 1] = e THEN 1 ELSE 0
  <1> DEFINE S == {i \in Nat : Entries[b][i] = e}
  <1>1. \A m \in Nat : {i \in 1 .. m : i \in S} = {i \in 1 .. m : Entries[b][i] = e}
    OBVIOUS
  <1>2. n + 1 \in S <=> Entries[b][n + 1] = e
    OBVIOUS
  <1>3. {i \in 1 .. 0 : Entries[b][i] = e} = {}
    OBVIOUS
  <1>4. Occurs(b, 0, e) = 0
    BY <1>3, FS_EmptySet DEF Occurs
  <1> HIDE DEF S
  <1>5. \A m \in Nat : Occurs(b, m, e) = Cardinality({i \in 1 .. m : i \in S})
    BY <1>1 DEF Occurs
  <1> DEFINE c == Cardinality({i \in 1 .. n : i \in S})
             d == Cardinality({i \in 1 .. n + 1 : i \in S})
  <1>6. c \in Nat /\ d = c + IF n + 1 \in S THEN 1 ELSE 0
    BY CountNext
  <1>7. Occurs(b, n, e) = c /\ Occurs(b, n + 1, e) = d
    BY <1>5, n + 1 \in Nat
  <1> HIDE DEF c, d
  <1> QED BY <1>2, <1>4, <1>6, <1>7

LEMMA OccursAll ==
  ASSUME NEW b, Entries[b] \in Seq([path : Paths, data : Contents]), NEW e
  PROVE  Times(Entries[b], e) = Occurs(b, Len(Entries[b]), e)
  <1>1. DOMAIN Entries[b] = 1 .. Len(Entries[b])
    BY LenProperties
  <1> QED BY <1>1 DEF Times, Occurs

\* The content of one entry more is appended for its path.
LEMMA PartNext ==
  ASSUME NEW b, NEW n \in Nat, NEW path
  PROVE  /\ FirstPart(b, 0, path) = <<>>
         /\ FirstPart(b, n + 1, path) =
              IF Entries[b][n + 1].path = path
                THEN Append(FirstPart(b, n, path), Entries[b][n + 1].data)
                ELSE FirstPart(b, n, path)
  <1> DEFINE S == {i \in Nat : Entries[b][i].path = path}
             C(m) == {i \in 1 .. m : i \in S}
             Mine(m) == {i \in 1 .. m : Entries[b][i].path = path}
             The(m, k) == CHOOSE i \in C(m) : Place(b, i) = k
  <1>1. \A m \in Nat : C(m) = Mine(m)
    OBVIOUS
  <1>2. /\ IsFiniteSet(C(n)) /\ Cardinality(C(n)) \in Nat /\ n + 1 \notin C(n)
        /\ C(n + 1) = IF n + 1 \in S THEN C(n) \cup {n + 1} ELSE C(n)
        /\ Cardinality(C(n + 1)) = Cardinality(C(n)) + IF n + 1 \in S THEN 1 ELSE 0
    BY CountNext
  <1>3. \A m \in Nat : FirstPart(b, m, path) =
          [k \in 1 .. Cardinality(C(m)) |-> Entries[b][The(m, k)].data]
    <2> TAKE m \in Nat
    <2>1. FirstPart(b, m, path) =
            [k \in 1 .. Cardinality(Mine(m)) |->
               Entries[b][CHOOSE i \in Mine(m) : Place(b, i) = k].data]
      BY DEF FirstPart
    <2>2. C(m) = Mine(m)
      BY <1>1
    <2> HIDE DEF C, Mine
    <2> QED BY <2>1, <2>2
  <1>4. FirstPart(b, 0, path) = <<>>
    <2>1. C(0) = {}
      OBVIOUS
    <2>2. Cardinality(C(0)) = 0
      BY <2>1, FS_EmptySet
    <2> QED BY <1>3, <2>2
  <1>5. n + 1 \in S <=> Entries[b][n + 1].path = path
    OBVIOUS
  <1>6. CASE n + 1 \notin S
    <2>1. C(n + 1) = C(n)
      BY <1>2, <1>6
    <2>2. /\ FirstPart(b, n, path) =
               [k \in 1 .. Cardinality(C(n)) |-> Entries[b][The(n, k)].data]
          /\ FirstPart(b, n + 1, path) =
               [k \in 1 .. Cardinality(C(n + 1)) |-> Entries[b][The(n + 1, k)].data]
      BY <1>3, n + 1 \in Nat
    <2> HIDE DEF C
    <2>3. \A k : The(n + 1, k) = The(n, k)
      BY <2>1
    <2> HIDE DEF The
    <2>4. FirstPart(b, n + 1, path) = FirstPart(b, n, path)
      BY <2>1, <2>2, <2>3
    <2> QED BY <1>4, <1>5, <1>6, <2>4
  <1>7. CASE n + 1 \in S
    <2>1. \A i \in C(n) : Place(b, i) \in Nat /\ Place(b, i) <= Cardinality(C(n))
      <3> TAKE i \in C(n)
      <3>1. i \in 1 .. n /\ Entries[b][i].path = path
        OBVIOUS
      <3>2. Place(b, i) = Cardinality(Mine(i))
        BY <3>1 DEF Place
      <3>3. Mine(i) \subseteq C(n)
        BY <3>1
      <3> HIDE DEF C, Mine
      <3>4. IsFiniteSet(Mine(i)) /\ Cardinality(Mine(i)) <= Cardinality(C(n))
        BY <1>2, <3>3, FS_Subset
      <3> QED BY <3>2, <3>4, FS_CardinalityType
    <2>2. Place(b, n + 1) = Cardinality(C(n)) + 1
      <3>1. Place(b, n + 1) = Cardinality(Mine(n + 1))
        BY <1>5, <1>7 DEF Place
      <3> QED BY <1>1, <1>2, <1>7, <3>1
    <2> DEFINE c == Cardinality(C(n))
    <2>3. C(n + 1) = C(n) \cup {n + 1} /\ Cardinality(C(n + 1)) = c + 1 /\ c \in Nat
      BY <1>2, <1>7
    <2>4. \A k \in 1 .. c : The(n + 1, k) = The(n, k)
      <3> TAKE k \in 1 .. c
      <3>1. {i \in C(n + 1) : Place(b, i) = k} = {i \in C(n) : Place(b, i) = k}
        BY <2>2, <2>3
      <3> HIDE DEF C
      <3>2. \A X : (CHOOSE i \in X : Place(b, i) = k) =
                   (CHOOSE i \in {j \in X : Place(b, j) = k} : TRUE)
        OBVIOUS
      <3> QED BY <3>1, <3>2
    <2>5. The(n + 1, c + 1) = n + 1
      BY <2>1, <2>2, <2>3
    <2> DEFINE f == FirstPart(b, n, path)
               g == FirstPart(b, n + 1, path)
    <2>6. /\ f = [k \in 1 .. c |-> Entries[b][The(n, k)].data]
          /\ g = [k \in 1 .. c + 1 |-> Entries[b][The(n + 1, k)].data]
      <3> n + 1 \in Nat
        OBVIOUS
      <3> HIDE DEF C, The
      <3> QED BY <1>3, <2>3
    <2> HIDE DEF C, The, c
    <2>7. g = [k \in 1 .. c + 1 |-> IF k = c + 1 THEN Entries[b][n + 1].data ELSE f[k]]
      <3>1. \A k \in 1 .. c : f[k] = Entries[b][The(n + 1, k)].data
        BY <2>4, <2>6
      <3> HIDE DEF f
      <3>2. \A k \in 1 .. c + 1 : k # c + 1 => k \in 1 .. c
        BY <2>3
      <3>3. \A k \in 1 .. c + 1 : Entries[b][The(n + 1, k)].data
                                 = IF k = c + 1 THEN Entries[b][n + 1].data ELSE f[k]
        BY <2>5, <3>1, <3>2
      <3> QED BY <2>6, <3>3
    <2>8. f \in Seq({f[k] : k \in 1 .. c} \cup {Entries[b][n + 1].data}) /\ Len(f) = c
      BY <2>3, <2>6
    <2>9. g = Append(f, Entries[b][n + 1].data)
      BY <2>3, <2>7, <2>8
    <2> QED BY <1>4, <1>5, <1>7, <2>9
  <1> QED BY <1>6, <1>7

-----------------------------------------------------------------------------
(* Bundles, files and database states *)

\* The entries of a bundle.
LEMMA EntriesOf ==
  ASSUME NEW b \in Bundles
  PROVE  /\ Entries[b] \in Seq([path : Paths, data : Contents])
         /\ Len(Entries[b]) \in Nat
         /\ \A i \in 1 .. Len(Entries[b]) :
              /\ Entries[b][i] \in [path : Paths, data : Contents]
              /\ Entries[b][i] \in Range(Entries[b])
         /\ \A e \in Range(Entries[b]) : e \in [path : Paths, data : Contents]
  <1>1. Entries[b] \in Seq([path : Paths, data : Contents])
    BY EntriesAssumption
  <1>2. /\ Len(Entries[b]) \in Nat /\ DOMAIN Entries[b] = 1 .. Len(Entries[b])
        /\ \A i \in 1 .. Len(Entries[b]) : Entries[b][i] \in [path : Paths, data : Contents]
    BY <1>1, LenProperties, ElementOfSeq
  <1>3. Range(Entries[b]) = {Entries[b][i] : i \in 1 .. Len(Entries[b])}
    BY <1>2 DEF Range
  <1> QED BY <1>1, <1>2, <1>3

\* The step of overlay_fs_write appends to one path.
LEMMA Stored ==
  ASSUME NEW files \in [Paths -> Seq(Contents)],
         NEW e \in [path : Paths, data : Contents]
  PROVE  /\ Store(files, e) \in [Paths -> Seq(Contents)]
         /\ \A path \in Paths :
              Store(files, e)[path] = IF path = e.path THEN Append(files[path], e.data)
                                      ELSE files[path]
  BY DEF Store

\* The newest database state.
LEMMA Newest ==
  ASSUME TypeOK
  PROVE  /\ Len(commits) \in Nat \ {0} /\ DOMAIN commits = 1 .. Len(commits)
         /\ Current = commits[Len(commits)] /\ Current \in State
         /\ Current.files \in [Paths -> Seq(Contents)] /\ Current.applied \subseteq Bundles
  <1>1. commits \in Seq(State) /\ commits # <<>>
    BY DEF TypeOK
  <1>2. /\ Len(commits) \in Nat \ {0} /\ Current = commits[Len(commits)]
        /\ Current \in State
    BY <1>1, LastOf DEF Current
  <1>3. DOMAIN commits = 1 .. Len(commits)
    BY <1>1, LenProperties
  <1> QED BY <1>2, <1>3 DEF State

\* A commit adds a state.
LEMMA Committed ==
  ASSUME TypeOK, NEW s \in State, commits' = Append(commits, s)
  PROVE  /\ commits' \in Seq(State) /\ commits' # <<>> /\ Current' = s
         /\ Len(commits') = Len(commits) + 1 /\ DOMAIN commits' = 1 .. Len(commits) + 1
         /\ \A k \in DOMAIN commits' :
              commits'[k] = IF k \in DOMAIN commits THEN commits[k] ELSE s
  <1>1. /\ commits \in Seq(State) /\ Len(commits) \in Nat /\ DOMAIN commits = 1 .. Len(commits)
    BY LenProperties DEF TypeOK
  <1>2. /\ commits' \in Seq(State) /\ commits' # <<>> /\ Last(commits') = s
        /\ Len(commits') = Len(commits) + 1
        /\ \A i \in 1 .. Len(commits) : commits'[i] = commits[i]
    BY <1>1, LastAppended
  <1>3. DOMAIN commits' = 1 .. Len(commits) + 1 /\ commits'[Len(commits) + 1] = s
    BY <1>1, AppendProperties
  <1> QED BY <1>1, <1>2, <1>3 DEF Current

\* The state after an edit.
EditedState(path, data) ==
  [Current EXCEPT !.files = Store(@, [path |-> path, data |-> data])]

LEMMA EditedStateIs ==
  ASSUME TypeOK, NEW path \in Paths, NEW data \in Edits
  PROVE  /\ EditedState(path, data) \in State
         /\ EditedState(path, data).applied = Current.applied
         /\ EditedState(path, data).files = [Current.files EXCEPT ![path] = Append(@, data)]
  <1>1. /\ Current \in State /\ Current.files \in [Paths -> Seq(Contents)]
    BY Newest
  <1>2. [path |-> path, data |-> data] \in [path : Paths, data : Contents]
    BY DEF Contents
  <1>3. Store(Current.files, [path |-> path, data |-> data]) \in [Paths -> Seq(Contents)]
    BY <1>1, <1>2, Stored
  <1> QED BY <1>1, <1>3 DEF EditedState, State, Store

-----------------------------------------------------------------------------
(* The steps, sorted by what they change *)

\* Statements after which the process only goes on or fails.
Moves(p) ==
  \/ pc[p] = "pragma" /\ Continue(p, "schema")
  \/ pc[p] = "check" /\ Continue(p, "verify") /\ bundle[p] \in Current.applied
  \/ pc[p] = "check" /\ Continue(p, "begin") /\ bundle[p] \notin Garbage
  \/ pc[p] = "entries" /\ Continue(p, "record") /\ ~HasEntry(p) /\ bundle[p] \notin Truncated
  \/ /\ pc[p] = "alone" /\ Continue(p, "aloneRecord")
     /\ ~HasEntry(p) /\ bundle[p] \notin Truncated
  \/ pc[p] = "verify" /\ Continue(p, "running")

Fails(p) == pc[p] \in BootSteps /\ Fail(p)
Exits(p) == pc[p] # "off" /\ Exit(p)
Records(p) == Record(p) /\ ~Recorded(work.applied, bundle[p])
WritesAlone(p) == WriteAlone(p) /\ ~(pc[p] = "torn" /\ Current.files[Entry(p).path] # <<>>)
RecordsAlone(p) == RecordAlone(p) /\ ~Recorded(Current.applied, bundle[p])

LEMMA StepCases ==
  ASSUME [Next]_vars
  PROVE  \/ \E p \in Procs :
              \/ \E b \in Bundles : Start(p, b)
              \/ Moves(p) \/ Fails(p) \/ Exits(p)
              \/ SetJournalMode(p) \/ SchemaStatement(p) \/ SchemaCommit(p)
              \/ Begin(p) \/ WriteEntry(p) \/ Records(p) \/ Commit(p)
              \/ TransactionTorn(p) \/ WritesAlone(p) \/ RecordsAlone(p)
              \/ \E path \in Paths, data \in Edits : Edit(p, path, data)
         \/ Sync
         \/ PowerLoss
         \/ UNCHANGED vars
  <1>1. ASSUME NEW p \in Procs, BootStep(p)
        PROVE  \/ Moves(p) \/ Fails(p) \/ Exits(p)
               \/ SetJournalMode(p) \/ SchemaStatement(p) \/ SchemaCommit(p)
               \/ Begin(p) \/ WriteEntry(p) \/ Records(p) \/ Commit(p)
               \/ TransactionTorn(p) \/ WritesAlone(p) \/ RecordsAlone(p)
    <2>1. ASSUME CheckApplied(p) \/ CheckStepFails(p)
          PROVE  Moves(p) \/ Fails(p)
      BY <2>1 DEF CheckApplied, CheckStepFails, AlreadyApplied, Moves, Fails, BootSteps
    <2>2. ASSUME EntriesDone(p) \/ Verify(p)
          PROVE  Moves(p) \/ Fails(p)
      <3>1. CASE Verify(p)
        BY <3>1 DEF Verify, Moves
      <3>2. CASE EntriesDone(p)
        BY <3>2 DEF EntriesDone, ParseFails, Moves, Fails, BootSteps, Holding, Locking
      <3> QED BY <2>2, <3>1, <3>2
    <2>3. ASSUME Record(p) PROVE Records(p) \/ Fails(p)
      BY <2>3 DEF Record, Records, Fails, BootSteps, Holding
    <2>4. ASSUME WriteAlone(p) PROVE WritesAlone(p) \/ Fails(p)
      BY <2>4 DEF WriteAlone, WritesAlone, Fails, BootSteps, Locking
    <2>5. ASSUME RecordAlone(p) PROVE RecordsAlone(p) \/ Fails(p)
      BY <2>5 DEF RecordAlone, RecordsAlone, Fails, BootSteps, Locking
    <2>6. ASSUME Refused(p) \/ StatementFails(p) PROVE Fails(p)
      BY <2>6 DEF Refused, StatementFails, Fails, BootSteps
    <2>7. ASSUME Close(p) PROVE Exits(p)
      BY <2>7 DEF Close, Exits
    <2> QED BY <1>1, <2>1, <2>2, <2>3, <2>4, <2>5, <2>6, <2>7 DEF BootStep
  <1>2. ASSUME NEW p \in Procs, Stop(p) \/ Crash(p) PROVE Exits(p)
    BY <1>2 DEF Stop, Crash, Connected, Exits
  <1> QED BY <1>1, <1>2 DEF Next, StartAny

-----------------------------------------------------------------------------
(* Types *)

LEMMA TypeInit == Init => TypeOK
  <1> SUFFICES ASSUME Init PROVE TypeOK
    OBVIOUS
  <1>1. EmptyState \in State
    BY DEF EmptyState, State
  <1>2. commits \in Seq(State) /\ commits # <<>>
    BY <1>1 DEF Init
  <1> QED BY <1>1, <1>2, NoneAssumption DEF Init, TypeOK, BootSteps, Holding, Locking

\* The entry a process is about to write.
LEMMA NextToWrite ==
  ASSUME TypeOK, NEW p \in Procs, HasEntry(p), pc[p] \in {"entries", "torn", "alone"}
  PROVE  /\ bundle[p] \in Bundles /\ written[p] \in Nat
         /\ Entry(p) = Entries[bundle[p]][written[p] + 1]
         /\ Entry(p) \in [path : Paths, data : Contents]
         /\ Entry(p) \in Range(Entries[bundle[p]])
         /\ written[p] + 1 \in Nat /\ written[p] + 1 <= Len(Entries[bundle[p]])
  <1>1. bundle[p] \in Bundles /\ written[p] \in Nat
    BY DEF TypeOK
  <1>2. Len(Entries[bundle[p]]) \in Nat
    BY <1>1, EntriesOf
  <1>3. written[p] + 1 \in 1 .. Len(Entries[bundle[p]])
    BY <1>1, <1>2 DEF HasEntry
  <1> QED BY <1>1, <1>3, EntriesOf DEF Entry

\* The state after an entry is committed by itself.
EntryAlone(p) == [Current EXCEPT !.files = Store(@, Entry(p))]

LEMMA EntryAloneIs ==
  ASSUME TypeOK, NEW p \in Procs, HasEntry(p), pc[p] \in {"torn", "alone"}
  PROVE  /\ EntryAlone(p) \in State
         /\ EntryAlone(p).applied = Current.applied
         /\ EntryAlone(p).files = Store(Current.files, Entry(p))
  <1>1. /\ Current \in State /\ Current.files \in [Paths -> Seq(Contents)]
    BY Newest
  <1>2. Entry(p) \in [path : Paths, data : Contents]
    BY NextToWrite
  <1>3. Store(Current.files, Entry(p)) \in [Paths -> Seq(Contents)]
    BY <1>1, <1>2, Stored
  <1> QED BY <1>1, <1>3 DEF EntryAlone, State

\* The state after the record of a bundle is committed by itself.
MarkAlone(p) == [Current EXCEPT !.applied = @ \cup {bundle[p]}]

LEMMA MarkAloneIs ==
  ASSUME TypeOK, NEW p \in Procs, bundle[p] \in Bundles
  PROVE  /\ MarkAlone(p) \in State
         /\ MarkAlone(p).applied = Current.applied \cup {bundle[p]}
         /\ MarkAlone(p).files = Current.files
  <1>1. Current \in State
    BY Newest
  <1> QED BY <1>1 DEF MarkAlone, State

\* What TypeOK says of one process, and of the rest.
Local(p) ==
  /\ pc[p] = "off" <=> bundle[p] = NoBundle
  /\ pc[p] \in Holding => writer = p
  /\ writer = p => pc[p] \in Holding \cup {"failing"}
  /\ pc[p] \in {"off", "pragma", "check", "begin", "verify", "running", "failing"}
       => written[p] = 0
  /\ pc[p] \in {"entries", "record", "commit", "torn", "alone", "aloneRecord"}
       => written[p] <= Len(Entries[bundle[p]])

Global ==
  /\ commits \in Seq(State) /\ commits # <<>>
  /\ wal \in BOOLEAN
  /\ writer \in Procs \cup {NoProc}
  /\ work \in State
  /\ torn \subseteq Bundles
  /\ pc \in [Procs -> BootSteps \cup {"off", "running", "failing"}]
  /\ bundle \in [Procs -> Bundles \cup {NoBundle}]
  /\ written \in [Procs -> Nat]

LEMMA TypeParts == TypeOK <=> Global /\ \A p \in Procs : Local(p)
  BY DEF TypeOK, Global, Local

\* A step of one process leaves alone what the others are at.
Only(p) ==
  /\ \A q \in Procs \ {p} :
       pc'[q] = pc[q] /\ bundle'[q] = bundle[q] /\ written'[q] = written[q]
  /\ writer' = writer \/ (writer \in {p, NoProc} /\ writer' \in {p, NoProc})

LEMMA TypeStep ==
  ASSUME TypeOK, NEW p \in Procs, Only(p), Global', Local(p)'
  PROVE  TypeOK'
  <1>1. ASSUME NEW q \in Procs \ {p} PROVE Local(q)'
    <2>1. Local(q) /\ q # NoProc
      BY NoneAssumption, TypeParts
    <2>2. writer' = q <=> writer = q
      BY <2>1 DEF Only
    <2> QED BY <2>1, <2>2 DEF Local, Only
  <1> QED BY <1>1 DEF TypeOK, Global, Local

LEMMA TypeNext == TypeOK /\ [Next]_vars => TypeOK'
  <1> SUFFICES ASSUME TypeOK, [Next]_vars PROVE TypeOK'
    OBVIOUS
  <1>0. EmptyState \in State
    BY DEF EmptyState, State
  <1> USE DEF Goto, Forget, database
  <1>1. ASSUME NEW p \in Procs, NEW b \in Bundles, Start(p, b) PROVE TypeOK'
    <2>1. Only(p) /\ Global'
      BY <1>1 DEF Start, Only, Global, TypeOK, BootSteps
    <2>2. Local(p)'
      BY <1>1, NoneAssumption DEF Start, Local, TypeOK, Holding
    <2> QED BY <2>1, <2>2, TypeStep
  <1>2. ASSUME NEW p \in Procs, Exits(p) PROVE TypeOK'
    <2>1. Only(p) /\ Global'
      BY <1>0, <1>2 DEF Exits, Exit, Only, Global, TypeOK, BootSteps
    <2>2. Local(p)'
      BY <1>2, NoneAssumption DEF Exits, Exit, Local, TypeOK, Holding
    <2> QED BY <2>1, <2>2, TypeStep
  <1>3. ASSUME NEW p \in Procs, Fails(p) PROVE TypeOK'
    <2>1. Only(p) /\ Global'
      BY <1>3 DEF Fails, Fail, Only, Global, TypeOK, BootSteps
    <2>2. Local(p)'
      BY <1>3, NoneAssumption DEF Fails, Fail, Local, TypeOK, Holding, Locking, BootSteps
    <2> QED BY <2>1, <2>2, TypeStep
  <1>4. ASSUME NEW p \in Procs, Moves(p) PROVE TypeOK'
    <2>1. Only(p) /\ Global'
      BY <1>4 DEF Moves, Continue, Only, Global, TypeOK, BootSteps, Holding, Locking
    <2>2. Local(p)'
      BY <1>4, NoneAssumption DEF Moves, Continue, Local, TypeOK, Holding, Locking, BootSteps
    <2> QED BY <2>1, <2>2, TypeStep
  <1>5. ASSUME NEW p \in Procs, SetJournalMode(p) PROVE TypeOK'
    <2>1. Only(p) /\ Global'
      BY <1>5 DEF SetJournalMode, Only, Global, TypeOK, BootSteps, Locking
    <2>2. Local(p)'
      BY <1>5, NoneAssumption DEF SetJournalMode, Local, TypeOK, Holding, Locking, BootSteps
    <2> QED BY <2>1, <2>2, TypeStep
  <1>6. ASSUME NEW p \in Procs, SchemaStatement(p) \/ SchemaCommit(p) PROVE TypeOK'
    <2>1. Only(p)
      <3>1. pc[p] = "schemaCommit" => writer = p
        BY DEF TypeOK, Holding
      <3> QED BY <1>6, <3>1 DEF SchemaStatement, SchemaCommit, Only, TypeOK
    <2>2. Global'
      <3>1. CASE SchemaStatement(p)
        <4>1. Global /\ p \in Procs
          BY TypeParts
        <4>2. pc' \in [Procs -> BootSteps \cup {"off", "running", "failing"}]
          BY <3>1, <4>1 DEF SchemaStatement, Global, BootSteps, Holding
        <4>3. UNCHANGED <<database, wal, written, bundle>> /\ writer' = p
          BY <3>1 DEF SchemaStatement
        <4> QED BY <4>1, <4>2, <4>3 DEF Global
      <3>2. CASE SchemaCommit(p)
        <4>1. Global /\ p \in Procs
          BY TypeParts
        <4>2. pc' \in [Procs -> BootSteps \cup {"off", "running", "failing"}]
          BY <3>2, <4>1 DEF SchemaCommit, Global, BootSteps, Locking
        <4>3. written' \in [Procs -> Nat]
          <5>1. CASE written' = [written EXCEPT ![p] = @ + 1]
            BY <4>1, <5>1 DEF Global
          <5>2. CASE Forget(p)
            BY <4>1, <5>2 DEF Global, Forget
          <5> QED BY <3>2, <5>1, <5>2 DEF SchemaCommit
        <4>4. UNCHANGED <<database, wal, bundle>> /\ writer' = NoProc
          BY <3>2 DEF SchemaCommit
        <4> QED BY <4>1, <4>2, <4>3, <4>4 DEF Global
      <3> QED BY <1>6, <3>1, <3>2
    <2>3. Local(p)'
      BY <1>6, NoneAssumption
         DEF SchemaStatement, SchemaCommit, Local, TypeOK, Holding, Locking, BootSteps
    <2> QED BY <2>1, <2>2, <2>3, TypeStep
  <1>7. ASSUME NEW p \in Procs, Begin(p) PROVE TypeOK'
    <2>1. Only(p) /\ Global'
      <3>1. work' \in State
        BY <1>7, Newest DEF Begin
      <3> QED BY <1>7, <3>1 DEF Begin, Only, Global, TypeOK, BootSteps, Holding
    <2>2. Local(p)'
      <3>1. bundle[p] \in Bundles
        BY <1>7 DEF Begin, TypeOK
      <3>2. Len(Entries[bundle[p]]) \in Nat
        BY <3>1, EntriesOf
      <3> QED BY <1>7, <3>1, <3>2, NoneAssumption DEF Begin, Local, TypeOK, Holding
    <2> QED BY <2>1, <2>2, TypeStep
  <1>8. ASSUME NEW p \in Procs, WriteEntry(p) PROVE TypeOK'
    <2>1. /\ Entry(p) \in [path : Paths, data : Contents]
          /\ written[p] + 1 \in Nat /\ written[p] + 1 <= Len(Entries[bundle[p]])
          /\ bundle[p] \in Bundles
      BY <1>8, NextToWrite DEF WriteEntry
    <2>2. work' \in State
      <3>1. work \in State /\ work.files \in [Paths -> Seq(Contents)]
        BY DEF TypeOK, State
      <3>2. Store(work.files, Entry(p)) \in [Paths -> Seq(Contents)]
        BY <2>1, <3>1, Stored
      <3> QED BY <1>8, <3>1, <3>2 DEF WriteEntry, State
    <2>3. Only(p) /\ Global'
      BY <1>8, <2>1, <2>2 DEF WriteEntry, NextEntry, Only, Global, TypeOK
    <2>4. Local(p)'
      BY <1>8, <2>1 DEF WriteEntry, NextEntry, Local, TypeOK, Holding
    <2> QED BY <2>3, <2>4, TypeStep
  <1>9. ASSUME NEW p \in Procs, Records(p) PROVE TypeOK'
    <2>1. bundle[p] \in Bundles
      BY <1>9 DEF Records, Record, TypeOK
    <2>2. work' \in State
      <3>1. work' = [work EXCEPT !.applied = work.applied \cup {bundle[p]}]
        BY <1>9 DEF Records, Record
      <3>2. work \in State /\ work.applied \cup {bundle[p]} \in SUBSET Bundles
        BY <2>1 DEF TypeOK, State
      <3> QED BY <3>1, <3>2 DEF State
    <2>3. Only(p) /\ Global'
      BY <1>9, <2>2 DEF Records, Record, Only, Global, TypeOK, BootSteps, Holding
    <2>4. Local(p)'
      BY <1>9, NoneAssumption DEF Records, Record, Local, TypeOK, Holding
    <2> QED BY <2>3, <2>4, TypeStep
  <1>10. ASSUME NEW p \in Procs, Commit(p) PROVE TypeOK'
    <2>1. commits' \in Seq(State) /\ commits' # <<>>
      BY <1>10, Committed DEF Commit, TypeOK
    <2>2. writer = p
      BY <1>10 DEF Commit, TypeOK, Holding
    <2>3. Only(p) /\ Global'
      BY <1>0, <1>10, <2>1, <2>2 DEF Commit, Only, Global, TypeOK, BootSteps
    <2>4. Local(p)'
      BY <1>10, NoneAssumption DEF Commit, Local, TypeOK, Holding
    <2> QED BY <2>3, <2>4, TypeStep
  <1>11. ASSUME NEW p \in Procs, TransactionTorn(p) PROVE TypeOK'
    <2>1. writer = p /\ bundle[p] \in Bundles
      BY <1>11 DEF TransactionTorn, TypeOK, Holding
    <2>2. Only(p) /\ Global'
      BY <1>0, <1>11, <2>1 DEF TransactionTorn, Only, Global, TypeOK, BootSteps, Locking
    <2>3. Local(p)'
      BY <1>11, NoneAssumption DEF TransactionTorn, Local, TypeOK, Holding
    <2> QED BY <2>2, <2>3, TypeStep
  <1>12. ASSUME NEW p \in Procs, WritesAlone(p) PROVE TypeOK'
    <2>1. /\ commits' = Append(commits, EntryAlone(p))
          /\ pc[p] \in {"torn", "alone"} /\ HasEntry(p)
      BY <1>12 DEF WritesAlone, WriteAlone, EntryAlone
    <2>2. EntryAlone(p) \in State
      BY <2>1, EntryAloneIs
    <2>3. commits' \in Seq(State) /\ commits' # <<>>
      BY <2>1, <2>2, Committed
    <2>4. /\ written[p] + 1 \in Nat /\ written[p] + 1 <= Len(Entries[bundle[p]])
          /\ bundle[p] \in Bundles
      BY <2>1, NextToWrite
    <2>5. Global'
      <3>1. Global
        BY TypeParts
      <3>2. written' \in [Procs -> Nat]
        BY <1>12, <2>4, <3>1 DEF WritesAlone, WriteAlone, NextEntry, Global
      <3> QED BY <1>12, <2>3, <3>1, <3>2
          DEF WritesAlone, WriteAlone, Global, BootSteps, Locking
    <2>a. Only(p)
      BY <1>12, <2>3, <2>4 DEF WritesAlone, WriteAlone, NextEntry, Only, TypeOK
    <2>6. Local(p)'
      BY <1>12, <2>4, NoneAssumption
         DEF WritesAlone, WriteAlone, NextEntry, Local, TypeOK, Holding
    <2> QED BY <2>5, <2>a, <2>6, TypeStep
  <1>13. ASSUME NEW p \in Procs, RecordsAlone(p) PROVE TypeOK'
    <2>1. commits' = Append(commits, MarkAlone(p)) /\ bundle[p] \in Bundles
      BY <1>13 DEF RecordsAlone, RecordAlone, MarkAlone, TypeOK
    <2>2. commits' \in Seq(State) /\ commits' # <<>>
      BY <2>1, MarkAloneIs, Committed
    <2>3. Only(p) /\ Global'
      <3>1. /\ UNCHANGED <<work, torn, wal, writer, bundle>>
            /\ pc' = [pc EXCEPT ![p] = "failing"] /\ written' = [written EXCEPT ![p] = 0]
        BY <1>13 DEF RecordsAlone, RecordAlone
      <3> QED BY <2>2, <3>1 DEF Only, Global, TypeOK
    <2>4. Local(p)'
      BY <1>13, NoneAssumption DEF RecordsAlone, RecordAlone, Local, TypeOK, Holding
    <2> QED BY <2>3, <2>4, TypeStep
  <1>14. ASSUME NEW p \in Procs, NEW path \in Paths, NEW data \in Edits, Edit(p, path, data)
         PROVE  TypeOK'
    <2>1. commits' \in Seq(State) /\ commits' # <<>>
      BY <1>14, EditedStateIs, Committed DEF Edit, EditedState
    <2> QED BY <1>14, <2>1 DEF Edit, TypeOK
  <1>15. CASE Sync
    <2>1. commits' \in Seq(State) /\ commits' # <<>>
      BY <1>15, Newest DEF Sync
    <2> QED BY <1>15, <2>1 DEF Sync, TypeOK
  <1>16. CASE PowerLoss
    <2>1. commits' \in Seq(State) /\ commits' # <<>>
      <3>1. PICK k \in 1 .. Len(commits) : commits' = SubSeq(commits, 1, k)
        BY <1>16 DEF PowerLoss
      <3>2. commits \in Seq(State)
        BY DEF TypeOK
      <3> QED BY <3>1, <3>2, Beginning
    <2>2. Global'
      BY <1>0, <1>16, <2>1 DEF PowerLoss, Global, TypeOK
    <2>3. ASSUME NEW p \in Procs PROVE Local(p)'
      BY <1>16, NoneAssumption DEF PowerLoss, Local, Holding
    <2> QED BY <2>2, <2>3 DEF TypeOK, Global, Local
  <1>17. CASE UNCHANGED vars
    BY <1>17 DEF vars, TypeOK
  <1> QED BY <1>1, <1>2, <1>3, <1>4, <1>5, <1>6, <1>7, <1>8, <1>9, <1>10, <1>11, <1>12,
             <1>13, <1>14, <1>15, <1>16, <1>17, StepCases

\* The write lock and the open transaction belong together: in every state the
\* process that holds the lock is one between the statement that took it and its
\* commit, or one that is about to close its connection.
THEOREM Typing == Spec => []TypeOK
  BY TypeInit, TypeNext, PTL DEF Spec

-----------------------------------------------------------------------------
(* The inductive invariant *)

\* A damaged bundle is never recorded.
NoDamage == \A k \in DOMAIN commits : commits[k].applied \cap Damaged = {}

\* What a process has found out about its bundle when it gets to a statement:
\* the bundle of one that goes on after the migration is in the database, and one
\* that writes without a transaction has lost it.
Found(p) ==
  /\ pc[p] \in {"begin", "entries", "record", "commit", "torn", "alone", "aloneRecord"}
       => bundle[p] \notin Garbage
  /\ pc[p] \in {"record", "commit", "aloneRecord"} => bundle[p] \notin Truncated
  /\ pc[p] \in {"verify", "running"} => bundle[p] \in Current.applied
  /\ pc[p] \in {"torn", "alone", "aloneRecord"} => bundle[p] \in torn

\* The open transaction is the newest state with the first entries of the
\* writer's bundle, and nobody else's commit has come between.
Progress(p) ==
  pc[p] \in {"entries", "record", "commit"} =>
    /\ pc[p] \in {"record", "commit"} => written[p] = Len(Entries[bundle[p]])
    /\ work.applied = Current.applied \cup IF pc[p] = "commit" THEN {bundle[p]} ELSE {}
    /\ pc[p] = "commit" => bundle[p] \notin Current.applied
    /\ \A path \in Paths :
         work.files[path] = Current.files[path] \o FirstPart(bundle[p], written[p], path)

BootInv == TypeOK /\ NoDamage /\ \A p \in Procs : Found(p) /\ Progress(p)

LEMMA InvInit == Init => BootInv
  <1> SUFFICES ASSUME Init PROVE BootInv
    OBVIOUS
  <1>1. commits[1].applied = {} /\ DOMAIN commits = {1}
    BY DEF Init, EmptyState
  <1>2. NoDamage
    BY <1>1 DEF NoDamage
  <1>3. \A p \in Procs : Found(p) /\ Progress(p)
    BY DEF Init, Found, Progress
  <1> QED BY <1>2, <1>3, TypeInit DEF BootInv

\* The process in the middle of a migration is the only one that can commit.
LEMMA InvStep ==
  ASSUME BootInv, TypeOK', NoDamage', NEW p \in Procs, Only(p),
         torn \subseteq torn', Current.applied \subseteq Current'.applied,
         UNCHANGED <<commits, work>> \/ writer \in {p, NoProc},
         Found(p)', Progress(p)'
  PROVE  BootInv'
  <1> SUFFICES ASSUME NEW q \in Procs \ {p} PROVE Found(q)' /\ Progress(q)'
    BY DEF BootInv
  <1>1. pc'[q] = pc[q] /\ bundle'[q] = bundle[q] /\ written'[q] = written[q]
    BY DEF Only
  <1>2. Found(q) /\ Progress(q)
    BY DEF BootInv
  <1>3. Found(q)'
    BY <1>1, <1>2 DEF Found
  <1>4. Progress(q)'
    <2>1. CASE pc[q] \notin {"entries", "record", "commit"}
      BY <1>1, <2>1 DEF Progress
    <2>2. CASE pc[q] \in {"entries", "record", "commit"}
      <3>1. writer = q /\ q # NoProc
        BY <2>2, NoneAssumption DEF BootInv, TypeOK, Holding
      <3>2. UNCHANGED <<commits, work>>
        BY <3>1
      <3>3. Current' = Current
        BY <3>2 DEF Current
      <3> QED BY <1>1, <1>2, <3>2, <3>3 DEF Progress
    <2> QED BY <2>1, <2>2
  <1> QED BY <1>3, <1>4

\* A step that commits nothing.
LEMMA InvQuiet ==
  ASSUME BootInv, TypeOK', NEW p \in Procs, Only(p), UNCHANGED commits,
         torn \subseteq torn', UNCHANGED work \/ writer \in {p, NoProc},
         Found(p)', Progress(p)'
  PROVE  BootInv'
  <1>1. Current' = Current
    BY DEF Current
  <1>2. NoDamage'
    BY DEF BootInv, NoDamage
  <1> QED BY <1>1, <1>2, InvStep

\* Steps that commit nothing and are not in the middle of a migration afterwards.
Outside(p) ==
  \/ \E b \in Bundles : Start(p, b)
  \/ Fails(p) \/ Exits(p) \/ SetJournalMode(p) \/ SchemaStatement(p)
  \/ SchemaCommit(p) \/ TransactionTorn(p)

LEMMA OutsideIs ==
  ASSUME TypeOK, NEW p \in Procs, Outside(p)
  PROVE  /\ UNCHANGED commits /\ torn \subseteq torn' /\ Only(p)
         /\ UNCHANGED work \/ writer \in {p, NoProc}
         /\ pc'[p] \notin {"entries", "record", "commit"}
  <1> USE DEF Goto, Forget, database
  <1>1. UNCHANGED commits /\ torn \subseteq torn'
    BY DEF Outside, Start, Fails, Fail, Exits, Exit, SetJournalMode, SchemaStatement,
           SchemaCommit, TransactionTorn
  <1>2. pc[p] \in Holding => writer = p
    BY DEF TypeOK
  <1>3. Only(p) /\ (UNCHANGED work \/ writer \in {p, NoProc})
    <2>1. CASE \E b \in Bundles : Start(p, b)
      BY <2>1 DEF Start, Only, TypeOK
    <2>2. CASE Fails(p) \/ Exits(p)
      BY <2>2 DEF Fails, Fail, Exits, Exit, Only, TypeOK
    <2>3. CASE SetJournalMode(p)
      BY <2>3 DEF SetJournalMode, Only, TypeOK
    <2>4. CASE SchemaStatement(p) \/ SchemaCommit(p)
      BY <1>2, <2>4 DEF SchemaStatement, SchemaCommit, Only, TypeOK, Holding
    <2>5. CASE TransactionTorn(p)
      BY <1>2, <2>5 DEF TransactionTorn, Only, TypeOK, Holding
    <2> QED BY <2>1, <2>2, <2>3, <2>4, <2>5 DEF Outside
  <1>4. pc'[p] \notin {"entries", "record", "commit"}
    BY DEF Outside, Start, Fails, Fail, Exits, Exit, SetJournalMode, SchemaStatement,
           SchemaCommit, TransactionTorn, TypeOK
  <1> QED BY <1>1, <1>3, <1>4

LEMMA InvOutside ==
  ASSUME BootInv, TypeOK', NEW p \in Procs, Outside(p)
  PROVE  BootInv'
  <1>1. /\ UNCHANGED commits /\ torn \subseteq torn' /\ Only(p)
        /\ UNCHANGED work \/ writer \in {p, NoProc}
        /\ pc'[p] \notin {"entries", "record", "commit"}
    BY OutsideIs DEF BootInv
  <1>2. ASSUME ~TransactionTorn(p)
        PROVE  pc'[p] \in {"off", "pragma", "schema", "schemaCommit", "check", "failing"}
    BY <1>2 DEF Outside, Start, Fails, Fail, Exits, Exit, SetJournalMode, SchemaStatement,
                SchemaCommit, BootInv, TypeOK, Goto
  <1>3. ASSUME TransactionTorn(p)
        PROVE  /\ pc'[p] = "torn" /\ pc[p] = "entries" /\ bundle' = bundle
               /\ bundle[p] \in torn'
    BY <1>3 DEF TransactionTorn, BootInv, TypeOK, Goto
  <1>4. Found(p)
    BY DEF BootInv
  <1>5. Found(p)'
    BY <1>2, <1>3, <1>4 DEF Found
  <1>6. Progress(p)'
    BY <1>1 DEF Progress
  <1> QED BY <1>1, <1>5, <1>6, InvQuiet

LEMMA InvMoves ==
  ASSUME BootInv, TypeOK', NEW p \in Procs, Moves(p)
  PROVE  BootInv'
  <1> USE DEF Goto, database
  <1>1. UNCHANGED <<commits, work, torn, wal, writer, written, bundle>>
    BY DEF Moves, Continue
  <1>2. Only(p)
    BY DEF Moves, Continue, Only, BootInv, TypeOK
  <1>3. Current' = Current
    BY <1>1 DEF Current
  <1>4. Found(p) /\ Progress(p)
    BY DEF BootInv
  <1>5. Found(p)'
    BY <1>1, <1>3, <1>4 DEF Moves, Continue, Found, BootInv, TypeOK
  <1>6. Progress(p)'
    <2>1. CASE pc[p] = "entries"
      <3>1. pc'[p] = "record" /\ ~HasEntry(p)
        BY <2>1 DEF Moves, Continue, BootInv, TypeOK
      <3>2. /\ written[p] \in Nat /\ written[p] <= Len(Entries[bundle[p]])
            /\ bundle[p] \in Bundles
        BY <2>1 DEF BootInv, TypeOK
      <3>3. written[p] = Len(Entries[bundle[p]])
        BY <3>1, <3>2, EntriesOf DEF HasEntry
      <3> QED BY <1>1, <1>3, <1>4, <2>1, <3>1, <3>3 DEF Progress
    <2>2. CASE pc[p] # "entries"
      BY <2>2 DEF Moves, Continue, BootInv, TypeOK, Progress
    <2> QED BY <2>1, <2>2
  <1> QED BY <1>1, <1>2, <1>5, <1>6, InvQuiet

\* The transaction starts from the newest state.
LEMMA InvOpens ==
  ASSUME BootInv, TypeOK', NEW p \in Procs, Begin(p)
  PROVE  BootInv'
  <1>1. /\ UNCHANGED <<commits, torn, written, bundle>> /\ pc[p] = "begin"
        /\ pc' = [pc EXCEPT ![p] = "entries"]
        /\ writer = NoProc /\ writer' = p /\ work' = Current
    BY DEF Begin, Goto
  <1>2. Current' = Current
    BY <1>1 DEF Current
  <1>3. pc'[p] = "entries" /\ Only(p) /\ written[p] = 0
    BY <1>1 DEF BootInv, TypeOK, Only
  <1>4. Found(p)
    BY DEF BootInv
  <1>5. Found(p)'
    BY <1>1, <1>3, <1>4 DEF Found
  <1>6. Progress(p)'
    <2>1. ASSUME NEW path \in Paths
          PROVE  Current.files[path] = Current.files[path] \o FirstPart(bundle[p], 0, path)
      <3>1. FirstPart(bundle[p], 0, path) = <<>>
        BY PartNext
      <3>2. Current.files[path] \in Seq(Contents)
        BY Newest DEF BootInv
      <3> QED BY <3>1, <3>2, ConcatEmptySeq
    <2> QED BY <1>1, <1>2, <1>3, <2>1 DEF Progress
  <1> QED BY <1>1, <1>3, <1>5, <1>6, InvQuiet

\* Contents of a part of a bundle are a sequence, whatever they are.
LEMMA PartIsSeq ==
  ASSUME NEW b, NEW n \in Nat, NEW path
  PROVE  \E S : FirstPart(b, n, path) \in Seq(S)
  <1> DEFINE mine == {i \in 1 .. n : Entries[b][i].path = path}
             f == FirstPart(b, n, path)
             c == Cardinality(mine)
  <1>1. c \in Nat
    <2>1. IsFiniteSet(1 .. n)
      BY FS_Interval
    <2> QED BY <2>1, FS_Subset, FS_CardinalityType
  <1>2. f = [k \in 1 .. c |-> Entries[b][CHOOSE i \in mine : Place(b, i) = k].data]
    BY DEF FirstPart
  <1> HIDE DEF c, mine, f
  <1> DEFINE S == {f[k] : k \in 1 .. c}
  <1>3. f \in [1 .. c -> S]
    BY <1>2
  <1> HIDE DEF S
  <1>4. f \in Seq(S)
    BY <1>1, <1>3, SeqDef
  <1> QED BY <1>4 DEF f

LEMMA AppendAfter ==
  ASSUME NEW S, NEW s \in Seq(S), NEW T, NEW t \in Seq(T), NEW x
  PROVE  Append(s \o t, x) = s \o Append(t, x)
  <1> DEFINE U == S \cup T \cup {x}
  <1>1. s \in Seq(U) /\ t \in Seq(U) /\ x \in U /\ <<x>> \in Seq(U)
    BY SeqMonotonic
  <1> HIDE DEF U
  <1>2. s \o t \in Seq(U)
    BY <1>1, ConcatProperties
  <1>3. /\ Append(s \o t, x) = (s \o t) \o <<x>>
        /\ Append(t, x) = t \o <<x>>
    BY <1>1, <1>2, AppendIsConcat
  <1> QED BY <1>1, <1>3, ConcatAssociative

\* One entry more is written.
LEMMA InvWrites ==
  ASSUME BootInv, TypeOK', NEW p \in Procs, WriteEntry(p)
  PROVE  BootInv'
  <1> DEFINE b == bundle[p]
             n == written[p]
             e == Entry(p)
  <1>1. /\ UNCHANGED <<commits, torn, writer, pc, bundle>>
        /\ pc[p] = "entries" /\ writer = p /\ HasEntry(p)
        /\ work' = [work EXCEPT !.files = Store(work.files, e)]
        /\ written' = [written EXCEPT ![p] = n + 1]
    BY DEF BootInv, TypeOK, WriteEntry, NextEntry, Holding
  <1>2. Current' = Current
    BY <1>1 DEF Current
  <1>3. Only(p) /\ written'[p] = n + 1
    BY <1>1 DEF BootInv, TypeOK, Only
  <1>4. Found(p) /\ Progress(p)
    BY DEF BootInv
  <1>5. Found(p)'
    BY <1>1, <1>2, <1>4 DEF Found
  <1>6. /\ b \in Bundles /\ n \in Nat /\ e = Entries[b][n + 1]
        /\ e \in [path : Paths, data : Contents]
    BY <1>1, NextToWrite DEF BootInv
  <1>7. /\ work \in State /\ work.files \in [Paths -> Seq(Contents)]
        /\ work'.applied = work.applied /\ work'.files = Store(work.files, e)
    BY <1>1 DEF BootInv, TypeOK, State
  <1> HIDE DEF e
  <1>8. ASSUME NEW path \in Paths
        PROVE  work'.files[path] = Current.files[path] \o FirstPart(b, n + 1, path)
    <2>1. work.files[path] = Current.files[path] \o FirstPart(b, n, path)
      BY <1>1, <1>4 DEF Progress
    <2>2. work'.files[path] = IF path = e.path THEN Append(work.files[path], e.data)
                              ELSE work.files[path]
      BY <1>6, <1>7, Stored
    <2>3. FirstPart(b, n + 1, path) =
            IF e.path = path THEN Append(FirstPart(b, n, path), e.data)
                             ELSE FirstPart(b, n, path)
      BY <1>6, PartNext
    <2>4. Append(Current.files[path] \o FirstPart(b, n, path), e.data)
            = Current.files[path] \o Append(FirstPart(b, n, path), e.data)
      <3>1. Current.files[path] \in Seq(Contents)
        BY Newest DEF BootInv
      <3>2. PICK T : FirstPart(b, n, path) \in Seq(T)
        BY <1>6, PartIsSeq
      <3> DEFINE s == Current.files[path]
                 t == FirstPart(b, n, path)
      <3> HIDE DEF s, t
      <3>3. s \in Seq(Contents) /\ t \in Seq(T)
        BY <3>1, <3>2 DEF s, t
      <3>4. Append(s \o t, e.data) = s \o Append(t, e.data)
        BY <3>3, AppendAfter
      <3> QED BY <3>4 DEF s, t
    <2> QED BY <2>1, <2>2, <2>3, <2>4
  <1>9. Progress(p)'
    BY <1>1, <1>2, <1>3, <1>4, <1>7, <1>8 DEF Progress
  <1> QED BY <1>1, <1>3, <1>5, <1>9, InvQuiet

LEMMA InvRecords ==
  ASSUME BootInv, TypeOK', NEW p \in Procs, Records(p)
  PROVE  BootInv'
  <1>1. /\ UNCHANGED <<commits, torn, writer, written, bundle>>
        /\ pc[p] = "record" /\ pc' = [pc EXCEPT ![p] = "commit"]
        /\ bundle[p] \notin work.applied
        /\ work' = [work EXCEPT !.applied = work.applied \cup {bundle[p]}]
    BY DEF Records, Record, Recorded, Goto
  <1>2. Current' = Current
    BY <1>1 DEF Current
  <1>3. writer = p /\ pc'[p] = "commit" /\ Only(p)
    BY <1>1 DEF BootInv, TypeOK, Holding, Only
  <1>4. Found(p) /\ Progress(p)
    BY DEF BootInv
  <1>5. Found(p)'
    BY <1>1, <1>3, <1>4 DEF Found
  <1>6. work'.files = work.files /\ work'.applied = work.applied \cup {bundle[p]}
    BY <1>1 DEF BootInv, TypeOK, State
  <1>7. work.applied = Current.applied /\ written[p] = Len(Entries[bundle[p]])
    BY <1>1, <1>4 DEF Progress
  <1>8. Progress(p)'
    BY <1>1, <1>2, <1>3, <1>4, <1>6, <1>7 DEF Progress
  <1> QED BY <1>1, <1>3, <1>5, <1>8, InvQuiet

\* A commit of a state that records no damaged bundle.
LEMMA InvCommitted ==
  ASSUME BootInv, TypeOK', NEW p \in Procs, Only(p), writer \in {p, NoProc},
         NEW s \in State, commits' = Append(commits, s), UNCHANGED torn,
         Current.applied \subseteq s.applied,
         (s.applied \ Current.applied) \cap Damaged = {},
         Current' = s => Found(p)',
         pc'[p] \notin {"entries", "record", "commit"}
  PROVE  BootInv'
  <1>1. /\ Current' = s
        /\ \A k \in DOMAIN commits' :
             commits'[k] = IF k \in DOMAIN commits THEN commits[k] ELSE s
    BY Committed DEF BootInv
  <1>2. Current.applied \cap Damaged = {}
    BY Newest DEF BootInv, NoDamage
  <1>3. s.applied \cap Damaged = {}
    BY <1>2
  <1>4. NoDamage'
    BY <1>1, <1>3 DEF BootInv, NoDamage
  <1>5. Progress(p)'
    BY DEF Progress
  <1> QED BY <1>1, <1>4, <1>5, InvStep

\* The migration becomes visible, and its bundle is neither damaged nor
\* recorded already.
LEMMA InvCommits ==
  ASSUME BootInv, TypeOK', NEW p \in Procs, Commit(p)
  PROVE  BootInv'
  <1>1. /\ commits' = Append(commits, work) /\ UNCHANGED <<bundle, torn>>
        /\ pc[p] = "commit" /\ pc' = [pc EXCEPT ![p] = "verify"] /\ writer' = NoProc
        /\ written' = [written EXCEPT ![p] = 0]
    BY DEF Commit, Goto, Forget
  <1>2. writer = p /\ pc'[p] = "verify" /\ work \in State /\ Only(p)
    BY <1>1 DEF BootInv, TypeOK, Holding, Only
  <1>3. Found(p) /\ Progress(p)
    BY DEF BootInv
  <1>4. work.applied = Current.applied \cup {bundle[p]}
    BY <1>1, <1>3 DEF Progress
  <1>5. bundle[p] \notin Damaged
    BY <1>1, <1>3 DEF Found, Damaged
  <1>6. Current' = work => Found(p)'
    BY <1>1, <1>2, <1>4 DEF Found
  <1> QED BY <1>1, <1>2, <1>4, <1>5, <1>6, InvCommitted

\* An entry or the record of a bundle that lost its transaction.
LEMMA InvAlone ==
  ASSUME BootInv, TypeOK', NEW p \in Procs, WritesAlone(p) \/ RecordsAlone(p)
  PROVE  BootInv'
  <1> USE DEF Goto, Forget
  <1>1. UNCHANGED <<torn, writer, bundle>> /\ writer = NoProc
    BY DEF WritesAlone, WriteAlone, RecordsAlone, RecordAlone
  <1>2. Only(p)
    BY <1>1 DEF WritesAlone, WriteAlone, RecordsAlone, RecordAlone, Only, BootInv, TypeOK
  <1>3. Found(p)
    BY DEF BootInv
  <1>4. CASE WritesAlone(p)
    <2>1. /\ commits' = Append(commits, EntryAlone(p)) /\ HasEntry(p)
          /\ pc[p] \in {"torn", "alone"} /\ pc'[p] = "alone"
      BY <1>4 DEF WritesAlone, WriteAlone, EntryAlone, BootInv, TypeOK
    <2>2. EntryAlone(p) \in State /\ EntryAlone(p).applied = Current.applied
      BY <2>1, EntryAloneIs DEF BootInv
    <2>3. Found(p)'
      BY <1>1, <1>3, <2>1 DEF Found
    <2> QED BY <1>1, <1>2, <2>1, <2>2, <2>3, InvCommitted
  <1>5. CASE RecordsAlone(p)
    <2>1. /\ commits' = Append(commits, MarkAlone(p))
          /\ pc[p] = "aloneRecord" /\ pc'[p] = "failing" /\ bundle[p] \in Bundles
      BY <1>5 DEF RecordsAlone, RecordAlone, MarkAlone, BootInv, TypeOK
    <2>2. /\ MarkAlone(p) \in State
          /\ MarkAlone(p).applied = Current.applied \cup {bundle[p]}
      BY <2>1, MarkAloneIs DEF BootInv
    <2>3. bundle[p] \notin Damaged
      BY <1>3, <2>1 DEF Found, Damaged
    <2>4. Found(p)'
      BY <2>1 DEF Found
    <2> QED BY <1>1, <1>2, <2>1, <2>2, <2>3, <2>4, InvCommitted
  <1> QED BY <1>4, <1>5

\* An edit finds the write lock free and keeps the recorded bundles.
LEMMA InvEdits ==
  ASSUME BootInv, TypeOK', NEW p \in Procs, NEW path \in Paths, NEW data \in Edits,
         Edit(p, path, data)
  PROVE  BootInv'
  <1>1. /\ commits' = Append(commits, EditedState(path, data)) /\ pc[p] = "running"
        /\ UNCHANGED <<torn, writer, written, pc, bundle>> /\ writer = NoProc
    BY DEF Edit, EditedState
  <1>2. /\ EditedState(path, data) \in State
        /\ EditedState(path, data).applied = Current.applied
    BY EditedStateIs DEF BootInv
  <1>3. Only(p)
    BY <1>1 DEF Only
  <1>4. Found(p)
    BY DEF BootInv
  <1>5. Current' = EditedState(path, data) => Found(p)'
    BY <1>1, <1>2, <1>4 DEF Found
  <1> QED BY <1>1, <1>2, <1>3, <1>5, InvCommitted

LEMMA InvSyncs ==
  ASSUME BootInv, TypeOK', Sync
  PROVE  BootInv'
  <1>1. commits' = <<Current>> /\ UNCHANGED <<work, torn, writer, written, pc, bundle>>
    BY DEF Sync
  <1>2. DOMAIN commits' = {1} /\ commits'[1] = Current /\ Current' = Current
    BY <1>1 DEF Current, Last
  <1>3. Current.applied \cap Damaged = {}
    BY Newest DEF BootInv, NoDamage
  <1>4. NoDamage'
    BY <1>2, <1>3 DEF NoDamage
  <1>5. \A p \in Procs : Found(p)' /\ Progress(p)'
    BY <1>1, <1>2 DEF BootInv, Found, Progress
  <1> QED BY <1>4, <1>5 DEF BootInv

LEMMA InvLosesPower ==
  ASSUME BootInv, TypeOK', PowerLoss
  PROVE  BootInv'
  <1>1. pc' = [q \in Procs |-> "off"]
    BY DEF PowerLoss
  <1>2. PICK k \in 1 .. Len(commits) : commits' = SubSeq(commits, 1, k)
    BY DEF PowerLoss
  <1>3. /\ Len(commits') = k /\ commits' \in Seq(State)
        /\ \A i \in 1 .. k : commits'[i] = commits[i]
    BY <1>2, Beginning DEF BootInv, TypeOK
  <1>4. DOMAIN commits' = 1 .. k /\ 1 .. k \subseteq DOMAIN commits
    <2>1. DOMAIN commits' = 1 .. k
      BY <1>3, LenProperties
    <2> QED BY <1>2, <2>1, Newest DEF BootInv
  <1>5. NoDamage'
    BY <1>3, <1>4 DEF BootInv, NoDamage
  <1>6. \A p \in Procs : Found(p)' /\ Progress(p)'
    BY <1>1 DEF Found, Progress
  <1> QED BY <1>5, <1>6 DEF BootInv

LEMMA InvNext == BootInv /\ [Next]_vars => BootInv'
  <1> SUFFICES ASSUME BootInv, [Next]_vars PROVE BootInv'
    OBVIOUS
  <1>1. TypeOK'
    BY TypeNext DEF BootInv
  <1>2. CASE UNCHANGED vars
    BY <1>2 DEF vars, BootInv, TypeOK, NoDamage, Found, Progress, Current
  <1> QED BY <1>1, <1>2, StepCases, InvOutside, InvMoves, InvOpens, InvWrites,
             InvRecords, InvCommits, InvAlone, InvEdits, InvSyncs, InvLosesPower
             DEF Outside

LEMMA InvAlways == Spec => []BootInv
  BY InvInit, InvNext, PTL DEF Spec

\* A process that answers requests finds its own assets in the database: no
\* crash, power loss, failed statement or other process makes it serve with a
\* bundle that is damaged or that is not recorded.
THEOREM ServesWhatIsStored == Spec => []RunningIsApplied
  <1>1. BootInv => RunningIsApplied
    <2> SUFFICES ASSUME BootInv, NEW p \in Procs, pc[p] = "running"
                 PROVE  bundle[p] \in Current.applied /\ bundle[p] \notin Damaged
      BY DEF RunningIsApplied
    <2>1. bundle[p] \in Current.applied
      BY DEF BootInv, Found
    <2>2. Current.applied \cap Damaged = {}
      BY Newest DEF BootInv, NoDamage
    <2> QED BY <2>1, <2>2
  <1> QED BY <1>1, InvAlways, PTL

-----------------------------------------------------------------------------
(* Refinement *)

LEMMA AssetsInit == Init => Assets!Init
  BY DEF Init, EmptyState, Assets!Init

LEMMA AssetsNewest ==
  ASSUME BootInv
  PROVE  Assets!Newest = Current /\ Current \in State
  BY Newest DEF BootInv, Assets!Newest

\* COMMIT adds all entries of the bundle and its record in one step.
LEMMA AssetsCommit ==
  ASSUME BootInv, NEW p \in Procs, Commit(p)
  PROVE  Assets!Apply(bundle[p])
  <1> DEFINE b == bundle[p]
             n == written[p]
  <1>1. commits' = Append(commits, work) /\ pc[p] = "commit" /\ UNCHANGED torn
    BY DEF Commit
  <1>2. b \in Bundles /\ work \in State
    BY <1>1 DEF BootInv, TypeOK
  <1>3. /\ b \notin Current.applied /\ work.applied = Current.applied \cup {b}
        /\ n = Len(Entries[b])
        /\ \A path \in Paths :
             work.files[path] = Current.files[path] \o FirstPart(b, n, path)
    BY <1>1 DEF BootInv, Progress
  <1>4. b \notin Damaged
    BY <1>1 DEF BootInv, Found, Damaged
  <1>5. Assets!Newest = Current
    BY AssetsNewest
  <1>6. \A path \in Paths : AddedByBundle[b][path] = FirstPart(b, n, path)
    BY <1>2, <1>3 DEF AddedByBundle
  <1>7. work = [files |-> [path \in Paths |->
                             Current.files[path] \o AddedByBundle[b][path]],
                applied |-> Current.applied \cup {b}]
    <2>1. /\ work = [files |-> work.files, applied |-> work.applied]
          /\ work.files = [path \in Paths |-> work.files[path]]
      BY <1>2 DEF State
    <2>2. \A path \in Paths :
            work.files[path] = Current.files[path] \o AddedByBundle[b][path]
      BY <1>3, <1>6
    <2> QED BY <1>3, <2>1, <2>2
  <1> QED BY <1>1, <1>3, <1>4, <1>5, <1>7 DEF Assets!Apply, Assets!MayRecord

LEMMA AssetsEdit ==
  ASSUME BootInv, NEW p \in Procs, NEW path \in Paths, NEW data \in Edits,
         Edit(p, path, data)
  PROVE  Assets!Edit(path, data)
  <1>1. commits' = Append(commits, EditedState(path, data)) /\ UNCHANGED torn
    BY DEF Edit, EditedState
  <1>2. Assets!Newest = Current /\ Current \in State
    BY AssetsNewest
  <1>3. EditedState(path, data) = [Current EXCEPT !.files[path] = Append(@, data)]
    BY <1>2 DEF EditedState, Store, State
  <1> QED BY <1>1, <1>2, <1>3 DEF Assets!Edit, Assets!Write

\* What is committed without a transaction belongs to a bundle that lost its own.
LEMMA AssetsPiece ==
  ASSUME BootInv, NEW p \in Procs, WritesAlone(p)
  PROVE  Assets!Piece(bundle[p])
  <1> DEFINE b == bundle[p]
             e == Entry(p)
  <1>1. /\ commits' = Append(commits, EntryAlone(p)) /\ UNCHANGED torn
        /\ pc[p] \in {"torn", "alone"} /\ HasEntry(p)
    BY DEF WritesAlone, WriteAlone, EntryAlone
  <1>2. b \in Bundles /\ b \in torn /\ e \in Range(Entries[b])
    BY <1>1, NextToWrite DEF BootInv, Found
  <1>3. Assets!Newest = Current /\ Current \in State
    BY AssetsNewest
  <1>4. EntryAlone(p) = [Current EXCEPT !.files[e.path] = Append(@, e.data)]
    BY <1>3 DEF EntryAlone, Store, State
  <1> HIDE DEF e
  <1>5. Assets!Write(e.path, e.data)
    BY <1>1, <1>3, <1>4 DEF Assets!Write
  <1>6. e \in [c \in Bundles |-> Range(Entries[c])][b]
    BY <1>2
  <1> QED BY <1>1, <1>2, <1>5, <1>6 DEF Assets!Piece

LEMMA AssetsMark ==
  ASSUME BootInv, NEW p \in Procs, RecordsAlone(p)
  PROVE  Assets!Mark(bundle[p])
  <1> DEFINE b == bundle[p]
  <1>1. /\ commits' = Append(commits, MarkAlone(p)) /\ UNCHANGED torn
        /\ pc[p] = "aloneRecord" /\ b \notin Current.applied
    BY DEF RecordsAlone, RecordAlone, Recorded, MarkAlone
  <1>2. b \in torn /\ b \notin Damaged
    BY <1>1 DEF BootInv, Found, Damaged
  <1> QED BY <1>1, <1>2, AssetsNewest DEF MarkAlone, Assets!Mark, Assets!MayRecord

\* The statements of the start-up implement AssetStore, whose migration is one
\* atomic, at most once step for an undamaged bundle, and which leaves a bundle
\* in pieces only after SQLite has rolled its transaction back unnoticed: for any
\* number of processes, bundles and versions, with failing statements, crashes
\* and power loss.
THEOREM AssetsImplemented == Spec => ImplementsAssetStore
  <1>1. BootInv /\ [Next]_vars => [Assets!Next]_(Assets!vars)
    <2> SUFFICES ASSUME BootInv, [Next]_vars
                 PROVE  Assets!Next \/ UNCHANGED <<commits, torn>>
      BY DEF Assets!vars
    <2>1. ASSUME NEW p \in Procs,
                 \/ Commit(p) \/ TransactionTorn(p) \/ WritesAlone(p) \/ RecordsAlone(p)
          PROVE  Assets!Next
      <3>1. bundle[p] \in Bundles
        BY <2>1 DEF BootInv, TypeOK, Commit, TransactionTorn, WritesAlone, WriteAlone,
                    RecordsAlone, RecordAlone
      <3>2. TransactionTorn(p) => Assets!LoseTransaction(bundle[p])
        BY DEF TransactionTorn, Assets!LoseTransaction
      <3> QED BY <2>1, <3>1, <3>2, AssetsCommit, AssetsPiece, AssetsMark DEF Assets!Next
    <2>2. ASSUME NEW p \in Procs, NEW path \in Paths, NEW data \in Edits,
                 Edit(p, path, data)
          PROVE  Assets!Next
      BY <2>2, AssetsEdit DEF Assets!Next
    <2>3. CASE Sync
      BY <2>3, AssetsNewest DEF Sync, Assets!Settle, Assets!Next
    <2>4. CASE PowerLoss
      BY <2>4 DEF PowerLoss, Assets!LosePower, Assets!Next
    <2>5. ASSUME NEW p \in Procs,
                 \/ \E b \in Bundles : Start(p, b)
                 \/ Moves(p) \/ Fails(p) \/ Exits(p)
                 \/ SetJournalMode(p) \/ SchemaStatement(p) \/ SchemaCommit(p)
                 \/ Begin(p) \/ WriteEntry(p) \/ Records(p)
          PROVE  UNCHANGED <<commits, torn>>
      BY <2>5 DEF Start, Moves, Continue, Fails, Fail, Exits, Exit, SetJournalMode,
                  SchemaStatement, SchemaCommit, Begin, WriteEntry, Records, Record, database
    <2>6. CASE UNCHANGED vars
      BY <2>6 DEF vars
    <2> QED BY <2>1, <2>2, <2>3, <2>4, <2>5, <2>6, StepCases
  <1> QED BY <1>1, AssetsInit, InvAlways, PTL
          DEF Spec, ImplementsAssetStore, Assets!Spec

-----------------------------------------------------------------------------
(* All entries of a bundle or none *)

LEMMA TimesFacts ==
  ASSUME NEW b \in Bundles, NEW e \in Range(Entries[b]), NEW n \in Nat
  PROVE  /\ Times(Entries[b], e) = Occurs(b, Len(Entries[b]), e)
         /\ Times(Entries[b], e) \in Nat /\ Occurs(b, n, e) \in Nat
         /\ e \in [path : Paths, data : Contents]
  <1>1. Entries[b] \in Seq([path : Paths, data : Contents]) /\ Len(Entries[b]) \in Nat
    BY EntriesOf
  <1>2. Times(Entries[b], e) = Occurs(b, Len(Entries[b]), e)
    BY <1>1, OccursAll
  <1>3. Occurs(b, Len(Entries[b]), e) \in Nat /\ Occurs(b, n, e) \in Nat
    BY <1>1, OccursNext
  <1>4. e \in [path : Paths, data : Contents]
    BY EntriesOf
  <1> QED BY <1>2, <1>3, <1>4

\* How often an entry is stored after one more has been written.
LEMMA TimesStored ==
  ASSUME NEW files \in [Paths -> Seq(Contents)],
         NEW x \in [path : Paths, data : Contents],
         NEW e \in [path : Paths, data : Contents]
  PROVE  /\ Times(files[e.path], e.data) \in Nat
         /\ Times(Store(files, x)[e.path], e.data) =
              Times(files[e.path], e.data) + IF x = e THEN 1 ELSE 0
  <1>1. files[e.path] \in Seq(Contents) /\ x.data \in Contents /\ e.path \in Paths
    OBVIOUS
  <1>2. x = e <=> x.path = e.path /\ x.data = e.data
    OBVIOUS
  <1>3. Store(files, x)[e.path] = IF e.path = x.path THEN Append(files[e.path], x.data)
                                  ELSE files[e.path]
    BY Stored
  <1>4. /\ Times(files[e.path], e.data) \in Nat
        /\ Times(Append(files[e.path], x.data), e.data) =
             Times(files[e.path], e.data) + IF x.data = e.data THEN 1 ELSE 0
    BY <1>1, TimesAppended
  <1> QED BY <1>2, <1>3, <1>4

\* How often an entry of bundle b is in the open transaction of p.
Counted(p) ==
  pc[p] \in {"entries", "record", "commit"} =>
    \A b \in Bundles \ torn : \A e \in Range(Entries[b]) :
      Times(work.files[e.path], e.data) =
        (IF b \in Current.applied THEN Times(Entries[b], e) ELSE 0)
        + (IF b = bundle[p] THEN Occurs(b, written[p], e) ELSE 0)

CountInv == BootInv /\ AllOrNothing /\ \A p \in Procs : Counted(p)

LEMMA CountInit == Init => CountInv
  <1> SUFFICES ASSUME Init PROVE AllOrNothing /\ \A p \in Procs : Counted(p)
    BY InvInit DEF CountInv
  <1>1. \A v : Times(<<>>, v) = 0
    <2> TAKE v
    <2>1. {i \in DOMAIN <<>> : (<<>>)[i] = v} = {}
      OBVIOUS
    <2> QED BY <2>1, FS_EmptySet DEF Times
  <1>2. DOMAIN commits = {1} /\ commits[1] = EmptyState
    BY DEF Init
  <1>3. AllOrNothing
    <2> SUFFICES ASSUME NEW b \in Bundles, NEW e \in Range(Entries[b])
                 PROVE  Times(EmptyState.files[e.path], e.data) = 0
      BY <1>2 DEF AllOrNothing, EmptyState
    <2>1. e.path \in Paths
      BY EntriesOf
    <2> QED BY <1>1, <2>1 DEF EmptyState
  <1>4. \A p \in Procs : Counted(p)
    BY DEF Init, Counted
  <1> QED BY <1>3, <1>4

\* What AllOrNothing says of one state.
Holds(s, lost) ==
  \A b \in Bundles \ lost : \A e \in Range(Entries[b]) :
    Times(s.files[e.path], e.data) = IF b \in s.applied THEN Times(Entries[b], e) ELSE 0

LEMMA AllHold == AllOrNothing <=> \A k \in DOMAIN commits : Holds(commits[k], torn)
  BY DEF AllOrNothing, Holds

LEMMA HoldsNow == BootInv /\ AllOrNothing => Holds(Current, torn)
  BY Newest, AllHold DEF BootInv

\* A step of one process, seen from the others.
LEMMA CountStepOf ==
  ASSUME CountInv, BootInv', NEW p \in Procs, Only(p), torn \subseteq torn',
         UNCHANGED <<commits, work>> \/ writer \in {p, NoProc},
         AllOrNothing', Counted(p)'
  PROVE  CountInv'
  <1> SUFFICES ASSUME NEW q \in Procs \ {p}, pc[q] \in {"entries", "record", "commit"}
               PROVE  Counted(q)'
    BY DEF CountInv, Only, Counted
  <1>1. writer = q /\ q # NoProc
    BY NoneAssumption DEF CountInv, BootInv, TypeOK, Holding
  <1>2. UNCHANGED <<commits, work>>
    BY <1>1
  <1>3. Current' = Current
    BY <1>2 DEF Current
  <1>4. pc'[q] = pc[q] /\ bundle'[q] = bundle[q] /\ written'[q] = written[q]
    BY DEF Only
  <1>5. Counted(q)
    BY DEF CountInv
  <1> QED BY <1>2, <1>3, <1>4, <1>5 DEF Counted

LEMMA CountQuiet ==
  ASSUME CountInv, BootInv', NEW p \in Procs, Only(p), UNCHANGED commits,
         torn \subseteq torn', UNCHANGED work \/ writer \in {p, NoProc}, Counted(p)'
  PROVE  CountInv'
  <1>1. AllOrNothing'
    BY DEF CountInv, AllOrNothing
  <1> QED BY <1>1, CountStepOf

LEMMA CountCommitted ==
  ASSUME CountInv, BootInv', NEW p \in Procs, Only(p), writer \in {p, NoProc},
         NEW s \in State, commits' = Append(commits, s), UNCHANGED torn,
         Holds(s, torn), pc'[p] \notin {"entries", "record", "commit"}
  PROVE  CountInv'
  <1>1. \A k \in DOMAIN commits' :
          commits'[k] = IF k \in DOMAIN commits THEN commits[k] ELSE s
    BY Committed DEF CountInv, BootInv
  <1>2. \A k \in DOMAIN commits : Holds(commits[k], torn)
    BY AllHold DEF CountInv
  <1>3. \A k \in DOMAIN commits' : Holds(commits'[k], torn')
    BY <1>1, <1>2
  <1>4. AllOrNothing'
    BY <1>3 DEF AllOrNothing, Holds
  <1>5. Counted(p)'
    BY DEF Counted
  <1> QED BY <1>4, <1>5, CountStepOf

\* The entries of different bundles differ.
LEMMA OtherEntry ==
  ASSUME ToldApart, NEW b \in Bundles, NEW c \in Bundles \ {b}, NEW e \in Range(Entries[b]),
         NEW x \in Range(Entries[c])
  PROVE  x # e
  BY DEF ToldApart

LEMMA CountWrites ==
  ASSUME ToldApart, CountInv, BootInv', NEW p \in Procs, WriteEntry(p)
  PROVE  CountInv'
  <1> DEFINE own == bundle[p]
             n == written[p]
             x == Entry(p)
  <1>1. /\ UNCHANGED <<commits, torn, writer, pc, bundle>>
        /\ pc[p] = "entries" /\ HasEntry(p)
        /\ work'.files = Store(work.files, x) /\ work.files \in [Paths -> Seq(Contents)]
        /\ written' = [written EXCEPT ![p] = n + 1]
    <2>1. work \in State
      BY DEF CountInv, BootInv, TypeOK
    <2> QED BY <2>1 DEF WriteEntry, NextEntry, State
  <1>2. Current' = Current
    BY <1>1 DEF Current
  <1>3. /\ own \in Bundles /\ n \in Nat /\ x \in Range(Entries[own])
        /\ x = Entries[own][n + 1]
    BY <1>1, NextToWrite DEF CountInv, BootInv
  <1>4. writer = p /\ Only(p) /\ written'[p] = n + 1
    <2>1. writer = p /\ written \in [Procs -> Nat]
      BY <1>1 DEF CountInv, BootInv, TypeOK, Holding
    <2> HIDE DEF n
    <2> QED BY <1>1, <2>1 DEF Only
  <1>5. Counted(p)
    BY DEF CountInv
  <1> HIDE DEF x, n, own
  <1>6. ASSUME NEW b \in Bundles \ torn, NEW e \in Range(Entries[b])
        PROVE  Times(work'.files[e.path], e.data) =
                 (IF b \in Current.applied THEN Times(Entries[b], e) ELSE 0)
                 + (IF b = own THEN Occurs(b, n + 1, e) ELSE 0)
    <2> DEFINE old == IF b \in Current.applied THEN Times(Entries[b], e) ELSE 0
               t == Times(work.files[e.path], e.data)
               u == Times(work'.files[e.path], e.data)
               c == Occurs(b, n, e)
               d == Occurs(b, n + 1, e)
    <2>1. t = old + IF b = own THEN c ELSE 0
      BY <1>1, <1>5 DEF Counted, own, n
    <2>2. u = t + IF b = own /\ x = e THEN 1 ELSE 0
      <3>1. x \in [path : Paths, data : Contents] /\ e \in [path : Paths, data : Contents]
        BY <1>3, EntriesOf
      <3>2. /\ Times(work.files[e.path], e.data) \in Nat
            /\ Times(Store(work.files, x)[e.path], e.data) =
                 Times(work.files[e.path], e.data) + IF x = e THEN 1 ELSE 0
        BY <1>1, <3>1, TimesStored
      <3>3. b # own => x # e
        BY <1>3, OtherEntry
      <3> QED BY <1>1, <3>2, <3>3
    <2>3. old \in Nat /\ c \in Nat
      BY <1>3, TimesFacts
    <2>4. b = own => d = c + IF x = e THEN 1 ELSE 0
      BY <1>3, OccursNext
    <2> HIDE DEF old, t, u, c, d
    <2>5. u = old + IF b = own THEN d ELSE 0
      BY <2>1, <2>2, <2>3, <2>4
    <2> QED BY <2>5 DEF old, u, d
  <1>7. Counted(p)'
    BY <1>1, <1>2, <1>4, <1>6 DEF Counted, own
  <1> QED BY <1>1, <1>4, <1>7, CountQuiet

LEMMA CountCommits ==
  ASSUME CountInv, BootInv', NEW p \in Procs, Commit(p)
  PROVE  CountInv'
  <1> DEFINE own == bundle[p]
             n == written[p]
  <1>1. /\ commits' = Append(commits, work) /\ pc[p] = "commit" /\ UNCHANGED <<torn, bundle>>
        /\ pc' = [pc EXCEPT ![p] = "verify"] /\ written' = [written EXCEPT ![p] = 0]
        /\ writer' = NoProc
    BY DEF Commit, Goto, Forget
  <1>2. writer = p /\ own \in Bundles /\ work \in State /\ pc'[p] = "verify" /\ Only(p)
    BY <1>1 DEF CountInv, BootInv, TypeOK, Holding, Only
  <1>3. /\ own \notin Current.applied /\ work.applied = Current.applied \cup {own}
        /\ n = Len(Entries[own]) /\ n \in Nat
    BY <1>1, <1>2, EntriesOf DEF CountInv, BootInv, Progress
  <1>4. Counted(p)
    BY DEF CountInv
  <1> HIDE DEF own, n
  <1>5. Holds(work, torn)
    <2> SUFFICES ASSUME NEW b \in Bundles \ torn, NEW e \in Range(Entries[b])
                 PROVE  Times(work.files[e.path], e.data) =
                          IF b \in work.applied THEN Times(Entries[b], e) ELSE 0
      BY DEF Holds
    <2>1. Times(work.files[e.path], e.data) =
            (IF b \in Current.applied THEN Times(Entries[b], e) ELSE 0)
            + (IF b = own THEN Occurs(b, n, e) ELSE 0)
      BY <1>1, <1>4 DEF Counted, own, n
    <2>2. /\ Times(Entries[b], e) = Occurs(b, Len(Entries[b]), e)
          /\ Times(Entries[b], e) \in Nat
      BY <1>3, TimesFacts
    <2> QED BY <1>3, <2>1, <2>2
  <1> QED BY <1>1, <1>2, <1>5, CountCommitted

\* An entry or a record without the transaction is of a bundle that is torn.
LEMMA CountAlone ==
  ASSUME ToldApart, CountInv, BootInv', NEW p \in Procs, WritesAlone(p) \/ RecordsAlone(p)
  PROVE  CountInv'
  <1> DEFINE own == bundle[p]
  <1>1. UNCHANGED <<torn, writer, bundle>> /\ writer = NoProc
    BY DEF WritesAlone, WriteAlone, RecordsAlone, RecordAlone
  <1>2. Only(p) /\ pc'[p] \in {"alone", "failing"}
    BY <1>1 DEF WritesAlone, WriteAlone, RecordsAlone, RecordAlone, Only, Goto, Forget,
                CountInv, BootInv, TypeOK
  <1>3. Found(p) /\ Holds(Current, torn)
    BY HoldsNow DEF CountInv, BootInv
  <1>4. /\ Current \in State /\ Current.files \in [Paths -> Seq(Contents)]
    BY Newest DEF CountInv, BootInv
  <1>5. CASE WritesAlone(p)
    <2> DEFINE x == Entry(p)
    <2>1. /\ commits' = Append(commits, EntryAlone(p)) /\ HasEntry(p)
          /\ pc[p] \in {"torn", "alone"}
      BY <1>5 DEF WritesAlone, WriteAlone, EntryAlone
    <2>2. /\ EntryAlone(p) \in State /\ EntryAlone(p).applied = Current.applied
          /\ EntryAlone(p).files = Store(Current.files, x)
      BY <2>1, EntryAloneIs DEF CountInv, BootInv
    <2>3. own \in torn /\ own \in Bundles /\ x \in Range(Entries[own])
      BY <1>3, <2>1, NextToWrite DEF Found, CountInv, BootInv
    <2> HIDE DEF x, own
    <2>4. Holds(EntryAlone(p), torn)
      <3> SUFFICES ASSUME NEW b \in Bundles \ torn, NEW e \in Range(Entries[b])
                   PROVE  Times(Store(Current.files, x)[e.path], e.data) =
                            IF b \in Current.applied THEN Times(Entries[b], e) ELSE 0
        BY <2>2 DEF Holds
      <3>1. x # e
        BY <2>3, OtherEntry
      <3>2. /\ Times(Current.files[e.path], e.data) \in Nat
            /\ Times(Store(Current.files, x)[e.path], e.data) =
                 Times(Current.files[e.path], e.data) + 0
        <4>1. x \in [path : Paths, data : Contents] /\ e \in [path : Paths, data : Contents]
          BY <2>3, EntriesOf
        <4>2. /\ Times(Current.files[e.path], e.data) \in Nat
              /\ Times(Store(Current.files, x)[e.path], e.data) =
                   Times(Current.files[e.path], e.data) + IF x = e THEN 1 ELSE 0
          BY <1>4, <4>1, TimesStored
        <4> QED BY <3>1, <4>2
      <3> QED BY <1>3, <3>2 DEF Holds
    <2> QED BY <1>1, <1>2, <2>1, <2>2, <2>4, CountCommitted
  <1>6. CASE RecordsAlone(p)
    <2>1. commits' = Append(commits, MarkAlone(p)) /\ pc[p] = "aloneRecord"
      BY <1>6 DEF RecordsAlone, RecordAlone, MarkAlone
    <2>2. own \in torn /\ own \in Bundles
      BY <1>3, <2>1 DEF Found, CountInv, BootInv, TypeOK
    <2>3. /\ MarkAlone(p) \in State /\ MarkAlone(p).files = Current.files
          /\ MarkAlone(p).applied = Current.applied \cup {own}
      BY <1>4, <2>2 DEF MarkAlone, State
    <2>4. Holds(MarkAlone(p), torn)
      BY <1>3, <2>2, <2>3 DEF Holds
    <2> QED BY <1>1, <1>2, <2>1, <2>3, <2>4, CountCommitted
  <1> QED BY <1>5, <1>6

\* An edit is no entry of a bundle.
LEMMA CountEdits ==
  ASSUME ToldApart, CountInv, BootInv', NEW p \in Procs, NEW path \in Paths,
         NEW data \in Edits, Edit(p, path, data)
  PROVE  CountInv'
  <1> DEFINE s == EditedState(path, data)
             x == [path |-> path, data |-> data]
  <1>1. /\ commits' = Append(commits, s) /\ writer = NoProc /\ pc[p] = "running"
        /\ UNCHANGED <<torn, writer, written, pc, bundle>>
    BY DEF Edit, EditedState
  <1>2. s \in State /\ s.applied = Current.applied
    BY EditedStateIs DEF CountInv, BootInv
  <1>3. Current \in State /\ Current.files \in [Paths -> Seq(Contents)]
    BY Newest DEF CountInv, BootInv
  <1>4. s.files = Store(Current.files, x)
    BY <1>3 DEF EditedState, State
  <1>5. x \in [path : Paths, data : Contents] /\ x.data \in Edits
    BY DEF Contents
  <1>6. Only(p)
    BY <1>1 DEF Only
  <1> HIDE DEF s, x
  <1>7. Holds(s, torn)
    <2> SUFFICES ASSUME NEW b \in Bundles \ torn, NEW e \in Range(Entries[b])
                 PROVE  Times(s.files[e.path], e.data) =
                          IF b \in s.applied THEN Times(Entries[b], e) ELSE 0
      BY DEF Holds
    <2>1. x # e
      BY <1>5 DEF ToldApart
    <2>2. /\ Times(Current.files[e.path], e.data) \in Nat
          /\ Times(s.files[e.path], e.data) = Times(Current.files[e.path], e.data) + 0
      <3>1. e \in [path : Paths, data : Contents]
        BY EntriesOf
      <3>2. /\ Times(Current.files[e.path], e.data) \in Nat
            /\ Times(Store(Current.files, x)[e.path], e.data) =
                 Times(Current.files[e.path], e.data) + IF x = e THEN 1 ELSE 0
        BY <1>3, <1>5, <3>1, TimesStored
      <3> QED BY <1>4, <2>1, <3>2
    <2> QED BY <1>2, <2>2, HoldsNow DEF CountInv, Holds
  <1> QED BY <1>1, <1>2, <1>6, <1>7, CountCommitted

LEMMA CountOpens ==
  ASSUME CountInv, BootInv', NEW p \in Procs, Begin(p)
  PROVE  CountInv'
  <1>1. /\ UNCHANGED <<commits, torn, written, bundle>> /\ writer = NoProc /\ writer' = p
        /\ pc[p] = "begin" /\ pc' = [pc EXCEPT ![p] = "entries"] /\ work' = Current
    BY DEF Begin, Goto
  <1>2. Current' = Current
    BY <1>1 DEF Current
  <1>3. Only(p) /\ pc'[p] = "entries" /\ written'[p] = 0
    <2>1. pc \in [Procs -> BootSteps \cup {"off", "running", "failing"}] /\ written[p] = 0
      BY <1>1 DEF CountInv, BootInv, TypeOK
    <2> QED BY <1>1, <2>1 DEF Only
  <1>4. ASSUME NEW b \in Bundles \ torn, NEW e \in Range(Entries[b])
        PROVE  Times(Current.files[e.path], e.data) =
                 (IF b \in Current.applied THEN Times(Entries[b], e) ELSE 0)
                 + (IF b = bundle[p] THEN Occurs(b, 0, e) ELSE 0)
    <2>1. Times(Current.files[e.path], e.data) =
            IF b \in Current.applied THEN Times(Entries[b], e) ELSE 0
      BY HoldsNow DEF CountInv, Holds
    <2>2. Occurs(b, 0, e) = 0 /\ Times(Entries[b], e) \in Nat
      BY OccursNext, TimesFacts
    <2> QED BY <2>1, <2>2
  <1>5. Counted(p)'
    BY <1>1, <1>2, <1>3, <1>4 DEF Counted
  <1> QED BY <1>1, <1>3, <1>5, CountQuiet

\* Steps that leave the files of the open transaction and the commits alone.
LEMMA CountOthers ==
  ASSUME CountInv, BootInv', NEW p \in Procs, Outside(p) \/ Moves(p) \/ Records(p)
  PROVE  CountInv'
  <1>1. CASE Outside(p)
    <2>1. /\ UNCHANGED commits /\ torn \subseteq torn' /\ Only(p)
          /\ UNCHANGED work \/ writer \in {p, NoProc}
          /\ pc'[p] \notin {"entries", "record", "commit"}
      BY <1>1, OutsideIs DEF CountInv, BootInv
    <2> QED BY <2>1, CountQuiet DEF Counted
  <1>2. CASE Moves(p) \/ Records(p)
    <2> USE DEF Goto, database
    <2>1. UNCHANGED <<commits, torn, writer, written, bundle>>
      BY <1>2 DEF Moves, Continue, Records, Record, Recorded
    <2>2. Current' = Current
      BY <2>1 DEF Current
    <2>3. Only(p)
      BY <1>2, <2>1 DEF Moves, Continue, Records, Record, Recorded, Only, CountInv, BootInv,
                        TypeOK
    <2>4. /\ UNCHANGED work \/ writer \in {p, NoProc}
          /\ work'.files = work.files
      BY <1>2 DEF Moves, Continue, Records, Record, Recorded, CountInv, BootInv, TypeOK,
                  State, Holding
    <2>5. pc'[p] \in {"entries", "record", "commit"}
            => pc[p] \in {"entries", "record", "commit"}
      BY <1>2 DEF Moves, Continue, Records, Record, Recorded, CountInv, BootInv, TypeOK
    <2>6. Counted(p)
      BY DEF CountInv
    <2>7. Counted(p)'
      BY <2>1, <2>2, <2>4, <2>5, <2>6 DEF Counted
    <2> QED BY <2>1, <2>3, <2>4, <2>7, CountQuiet
  <1> QED BY <1>1, <1>2

LEMMA CountStep ==
  ASSUME ToldApart, CountInv, [Next]_vars
  PROVE  CountInv'
  <1>1. BootInv'
    BY InvNext DEF CountInv
  <1>2. CASE Sync
    <2>1. commits' = <<Current>> /\ UNCHANGED <<torn, work, written, pc, bundle>>
      BY <1>2 DEF Sync
    <2>2. DOMAIN commits' = {1} /\ commits'[1] = Current /\ Current' = Current
      BY <2>1 DEF Current, Last
    <2>3. AllOrNothing'
      BY <2>1, <2>2, HoldsNow DEF CountInv, AllOrNothing, Holds
    <2>4. \A p \in Procs : Counted(p)'
      BY <2>1, <2>2 DEF CountInv, Counted
    <2> QED BY <1>1, <2>3, <2>4 DEF CountInv
  <1>3. CASE PowerLoss
    <2>1. PICK k \in 1 .. Len(commits) : commits' = SubSeq(commits, 1, k)
      BY <1>3 DEF PowerLoss
    <2>2. /\ Len(commits') = k /\ commits' \in Seq(State)
          /\ \A i \in 1 .. k : commits'[i] = commits[i]
      BY <2>1, Beginning DEF CountInv, BootInv, TypeOK
    <2>3. DOMAIN commits' = 1 .. k /\ 1 .. k \subseteq DOMAIN commits
      <3>1. DOMAIN commits' = 1 .. k
        BY <2>2, LenProperties
      <3> QED BY <2>1, <3>1, Newest DEF CountInv, BootInv
    <2>4. torn' = torn /\ pc' = [p \in Procs |-> "off"]
      BY <1>3 DEF PowerLoss
    <2>5. AllOrNothing'
      BY <2>2, <2>3, <2>4 DEF CountInv, AllOrNothing
    <2>6. \A p \in Procs : Counted(p)'
      BY <2>4 DEF Counted
    <2> QED BY <1>1, <2>5, <2>6 DEF CountInv
  <1>4. CASE UNCHANGED vars
    BY <1>1, <1>4 DEF vars, CountInv, AllOrNothing, Counted, Current
  <1> QED BY <1>1, <1>2, <1>3, <1>4, StepCases, CountWrites, CountCommits, CountAlone,
             CountEdits, CountOpens, CountOthers DEF Outside

\* Bundles whose contents tell them apart, and whose transaction was not rolled
\* back unnoticed, are in the database completely and once when they are recorded
\* and not at all otherwise: in every state that a crash or a power loss can
\* leave, with any number of processes migrating, whatever others tear.
THEOREM Atomicity ==
  ASSUME ToldApart
  PROVE  Spec => []AllOrNothing
  <1>1. CountInv /\ [Next]_vars => CountInv'
    BY CountStep
  <1>2. CountInv => AllOrNothing
    BY DEF CountInv
  <1> QED BY <1>1, <1>2, CountInit, PTL DEF Spec

=============================================================================
