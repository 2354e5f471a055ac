------------------------------- MODULE Bundle -------------------------------
(***************************************************************************)
(* An asset bundle from the build to the database: tools/asset_packer.c    *)
(* collects files, sorts and packs them and compresses the result;         *)
(* overlay_fs_migrate_assets (src/hbf/db/overlay_fs.c) decompresses it at  *)
(* start-up and reads it back entry by entry. Bytes are numbers, a path is *)
(* a sequence of bytes without a 0. Boot models the same migration with    *)
(* its transaction, processes and crashes, and takes for granted what is   *)
(* shown here: that parsing yields the packed files or fails.              *)
(*                                                                         *)
(* zlib is external: uncompress gives back what was compressed, if the     *)
(* buffer is large enough. That need not be what the packer packed: a      *)
(* prefix of it, or one wrong byte in it, stands for a damaged bundle.     *)
(***************************************************************************)
EXTENDS Integers, Sequences, FiniteSets

CONSTANTS
  Content,       \* the file system: path -> bytes of the file
  Unreadable,    \* paths that cannot be opened or read
  SourceMaps,    \* paths that end in .js.map
  MaxFileSize,   \* MAX_FILE_SIZE
  CommandLines,  \* sequences of file arguments the packer may be given
  Sizes,         \* sizes the compressed bundle may have
  WrongBytes     \* what a damaged byte may read

Paths == DOMAIN Content
Byte == 0 .. 255
IsWord(n) == n \in Nat /\ n \div 65536 < 65536

ASSUME ContentAssumption == \A p \in Paths : Content[p] \in Seq(Byte)
ASSUME PathAssumption ==
  \A p \in Paths : p \in Seq(Byte \ {0}) /\ IsWord(Len(p))
ASSUME SizeAssumption == IsWord(MaxFileSize) /\ Sizes \subseteq Nat
ASSUME CommandLineAssumption ==
  \A c \in CommandLines : c \in Seq(Paths) \ {<<>>} /\ IsWord(Len(c))
ASSUME ByteAssumption == WrongBytes \subseteq Byte

VARIABLES
  phase,     \* what is done next
  args,      \* the file arguments
  next,      \* number of arguments, entries or bundle entries dealt with
  entries,   \* bundle->entries of the packer
  packed,    \* the bytes it has packed
  offsets,   \* history: where each packed entry starts, from 0
  blob,      \* the asset bundle: what it decompresses to, its own size
  ptr,       \* read position of the migration, from 0
  files,     \* [path, data] read and written in its transaction
  status     \* "none", or what overlay_fs_migrate_assets returned

vars == <<phase, args, next, entries, packed, offsets, blob, ptr, files, status>>

parser == <<ptr, files, status>>

NoBlob == [bytes |-> <<>>, size |-> 0]

Init ==
  /\ phase = "add"
  /\ args \in CommandLines
  /\ next = 0
  /\ entries = <<>>
  /\ packed = <<>> /\ offsets = <<>> /\ blob = NoBlob
  /\ ptr = 0 /\ files = <<>> /\ status = "none"

-----------------------------------------------------------------------------
(* The packer *)

Entry(path) == [path |-> path, data |-> Content[path]]

Skipped(path) == path \in SourceMaps

\* bundle_add_file, or its error, which ends the build.
AddFile ==
  /\ phase = "add"
  /\ next < Len(args)
  /\ LET path == args[next + 1] IN
       IF Skipped(path)
         THEN entries' = entries /\ phase' = phase
       ELSE IF path \in Unreadable \/ Len(Content[path]) > MaxFileSize
         THEN entries' = entries /\ phase' = "failed"
         ELSE entries' = Append(entries, Entry(path)) /\ phase' = phase
  /\ next' = next + 1
  /\ UNCHANGED <<args, packed, offsets, blob, parser>>

\* strcmp: at the first byte that differs, the end of a path counting as 0.
Before(p, q) ==
  \/ Len(p) < Len(q) /\ \A i \in 1 .. Len(p) : p[i] = q[i]
  \/ \E i \in 1 .. Len(p) :
       /\ i <= Len(q) /\ p[i] < q[i]
       /\ \A j \in 1 .. i - 1 : p[j] = q[j]

\* Mutant: only the first byte is compared.
FirstByte(s) == \A i, j \in DOMAIN s : Head(s[i].path) < Head(s[j].path) => i < j
InOrder(s) == \A i, j \in DOMAIN s : Before(s[i].path, s[j].path) => i < j

\* qsort is not stable: any arrangement in the order of strcmp.
Sort ==
  /\ phase = "add"
  /\ next = Len(args)
  /\ \E pi \in [DOMAIN entries -> DOMAIN entries] :
       /\ \A i, j \in DOMAIN entries : pi[i] = pi[j] => i = j
       /\ entries' = [i \in DOMAIN entries |-> entries[pi[i]]]
       /\ InOrder(entries')
  /\ phase' = "pack"
  /\ next' = 0
  /\ UNCHANGED <<args, packed, offsets, blob, parser>>

\* memcpy of a uint32_t on a little-endian machine.
Word(n) == <<n % 256, (n \div 256) % 256, (n \div 65536) % 256, n \div 16777216>>

Encode(e) == Word(Len(e.path)) \o e.path \o Word(Len(e.data)) \o e.data

\* bundle_pack: the number of entries, then every entry.
PackCount ==
  /\ phase = "pack"
  /\ packed = <<>>
  /\ packed' = Word(Len(entries))
  /\ UNCHANGED <<phase, args, next, entries, offsets, blob, parser>>

PackEntry ==
  /\ phase = "pack"
  /\ packed # <<>>
  /\ next < Len(entries)
  /\ packed' = packed \o Encode(entries[next + 1])
  /\ offsets' = Append(offsets, Len(packed))
  /\ next' = next + 1
  /\ UNCHANGED <<phase, args, entries, blob, parser>>

\* compress_bundle: the size is whatever zlib achieves. The last two
\* disjuncts are bundles this packer did not write.
Embed ==
  /\ phase = "pack"
  /\ packed # <<>>
  /\ next = Len(entries)
  /\ \E size \in Sizes :
       \/ blob' = [bytes |-> packed, size |-> size]
       \/ \E n \in 0 .. Len(packed) - 1 :
            blob' = [bytes |-> SubSeq(packed, 1, n), size |-> size]
       \/ \E i \in DOMAIN packed, b \in WrongBytes :
            blob' = [bytes |-> [packed EXCEPT ![i] = b], size |-> size]
  /\ phase' = "decompress"
  /\ next' = 0
  /\ UNCHANGED <<args, entries, packed, offsets, parser>>

-----------------------------------------------------------------------------
(* The migration *)

End == Len(blob.bytes)

\* Mutants: the error is noted but does not return; nothing is rolled back.
RefuseAndGoOn(error) == status' = error /\ files' = <<>> /\ UNCHANGED <<phase, ptr, next>>
RefuseAndKeep(error) == phase' = "end" /\ status' = error /\ UNCHANGED <<files, ptr, next>>

\* Every error after BEGIN rolls back what was written.
Refuse(error) ==
  /\ phase' = "end"
  /\ status' = error
  /\ files' = <<>>
  /\ UNCHANGED <<ptr, next>>

BufferHolds(n) == n <= 10 * blob.size

Decompress ==
  /\ phase = "decompress"
  /\ \/ /\ BufferHolds(End)
        /\ phase' = "count"
        /\ UNCHANGED <<parser, next>>
     \/ ~BufferHolds(End) /\ Refuse("decompress")
  /\ UNCHANGED <<args, entries, packed, offsets, blob>>

\* n bytes at position p: the test before every read. Mutants: only the
\* start is tested, or the last byte is never used.
StartOnly(p, n) == p <= End
LastUnused(p, n) == p + n < End
Available(p, n) == p + n <= End

Read32(p) ==
  LET b == blob.bytes IN
  b[p + 1] + 256 * b[p + 2] + 65536 * b[p + 3] + 16777216 * b[p + 4]

\* Mutant: one byte too early.
ShiftedSlice(p, n) == SubSeq(blob.bytes, p, p + n - 1)
Slice(p, n) == SubSeq(blob.bytes, p + 1, p + n)

\* num_entries; BEGIN IMMEDIATE.
ReadCount ==
  /\ phase = "count"
  /\ \/ /\ Available(0, 4)
        /\ phase' = "entries" /\ ptr' = 4
        /\ UNCHANGED <<files, status, next>>
     \/ ~Available(0, 4) /\ Refuse("corrupt")
  /\ UNCHANGED <<args, entries, packed, offsets, blob>>

\* The parts of the entry at ptr.
NameLen == Read32(ptr)
DataLen == Read32(ptr + 4 + NameLen)
Name == Slice(ptr + 4, NameLen)
Data == Slice(ptr + 8 + NameLen, DataLen)

EntryAvailable ==
  /\ Available(ptr, 4)
  /\ Available(ptr + 4, NameLen)
  /\ Available(ptr + 4 + NameLen, 4)
  /\ Available(ptr + 8 + NameLen, DataLen)

\* One turn of the loop; overlay_fs_write may fail. It takes the name up to
\* its first 0, which only a damaged bundle has.
ReadEntry ==
  /\ phase = "entries"
  /\ next < Read32(0)
  /\ \/ /\ EntryAvailable
        /\ files' = Append(files, [path |-> Name, data |-> Data])
        /\ ptr' = ptr + 8 + NameLen + DataLen
        /\ next' = next + 1
        /\ UNCHANGED <<phase, status>>
     \/ ~EntryAvailable /\ Refuse("corrupt")
     \/ EntryAvailable /\ Refuse("db")
  /\ UNCHANGED <<args, entries, packed, offsets, blob>>

\* The record and COMMIT (Boot has their failures).
Commit ==
  /\ phase = "entries"
  /\ next = Read32(0)
  /\ phase' = "end" /\ status' = "ok"
  /\ UNCHANGED <<args, next, entries, packed, offsets, blob, ptr, files>>

Next ==
  \/ AddFile \/ Sort \/ PackCount \/ PackEntry \/ Embed
  \/ Decompress \/ ReadCount \/ ReadEntry \/ Commit

Spec == Init /\ [][Next]_vars

-----------------------------------------------------------------------------
(* Properties *)

EntrySet == [path : Paths, data : {Content[p] : p \in Paths}]

\* Types; a return value says how the migration ended.
TypeOK ==
  /\ phase \in {"add", "failed", "pack", "decompress", "count", "entries", "end"}
  /\ args \in CommandLines
  /\ next \in Nat
  /\ entries \in Seq(EntrySet) /\ Len(entries) <= Len(args)
  /\ packed \in Seq(Byte)
  /\ offsets \in Seq(Nat)
  /\ blob \in [bytes : Seq(Byte), size : Nat]
  /\ ptr \in Nat
  /\ files \in Seq([path : Seq(Byte), data : Seq(Byte)])
  /\ status \in {"none", "ok", "corrupt", "decompress", "db"}
  /\ (status # "none") = (phase = "end")

Undamaged == blob.bytes = packed

\* A bundle that arrives as it was packed and is accepted leaves exactly the
\* packed files in the database, and was read to its last byte
\* (bundle_pack against the parser in overlay_fs_migrate_assets).
RoundTrip ==
  status = "ok" /\ Undamaged => files = entries /\ ptr = End

\* The parser never moves past the end of the buffer, whatever lengths the
\* bundle states, and every byte it passed belongs to the count or to one entry
\* it stored: two lengths, the name and the data.
FileBytes ==
  UNION {{i} \X (1 .. 8 + Len(files[i].path) + Len(files[i].data)) : i \in DOMAIN files}

Accounted == phase = "entries" => ptr = 4 + Cardinality(FileBytes) /\ ptr <= End

\* A bundle that ends early is never taken for a whole one, at whatever byte
\* it ends, and a refused bundle leaves no file behind ("Bundle truncated").
TruncatedRefused ==
  /\ status = "ok" => Len(blob.bytes) = Len(packed)
  /\ status \notin {"none", "ok"} => files = <<>>

\* The migration finds no fault with what the packer wrote, unless zlib made
\* it more than ten times smaller: MIGRATE_ERR_DECOMPRESS for a bundle that
\* is as good as any other. (The buffer and the name are malloc'ed, and without
\* memory the code refuses a bundle too: overlay_fs.c:317, 401. Not modelled.)
CompleteAccepted ==
  Undamaged /\ phase = "end" /\ status # "db" =>
    status = IF Len(packed) > 10 * blob.size THEN "decompress" ELSE "ok"

\* What the packer should pack: every argument but the source maps, sorted.
\* The r-th of them is found by counting the smaller ones.
Kept == {k \in DOMAIN args : args[k] \notin SourceMaps}
Ranked(r) ==
  CHOOSE p \in Paths :
    /\ Cardinality({k \in Kept : Before(args[k], p)}) < r
    /\ r <= Cardinality({k \in Kept : ~Before(p, args[k])})

Canonical ==
  LET bytes[n \in 0 .. Cardinality(Kept)] ==
        IF n = 0 THEN Word(Cardinality(Kept)) ELSE bytes[n - 1] \o Encode(Entry(Ranked(n)))
  IN  bytes[Cardinality(Kept)]

\* "Sort entries for deterministic output": the packed bytes, and so the
\* identity the migration gives the bundle, depend on the files alone, not
\* on the order of the arguments or on what qsort does with equal paths.
Deterministic == phase \notin {"add", "failed", "pack"} => packed = Canonical

=============================================================================
