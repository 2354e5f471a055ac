---------------------------- MODULE BundleProofs ----------------------------
(***************************************************************************)
(* What the packer writes is what the migration reads, for any files, of   *)
(* any names and sizes a 32 bit length can state.                          *)
(***************************************************************************)
EXTENDS Bundle, FiniteSetTheorems, SequenceTheorems, WellFoundedInduction, TLAPS

AnyEntry == [path : Seq(Byte), data : Seq(Byte)]
Size(e) == 8 + Len(e.path) + Len(e.data)
Packable(e) == e \in AnyEntry /\ IsWord(Len(e.path)) /\ IsWord(Len(e.data))

\* The bytes of w are in b after position p.
At(b, p, w) == p + Len(w) <= Len(b) /\ \A i \in 1 .. Len(w) : b[p + i] = w[i]

\* The encoding of e is in b after position p.
EntryAt(b, p, e) ==
  /\ At(b, p, Word(Len(e.path)))
  /\ At(b, p + 4, e.path)
  /\ At(b, p + 4 + Len(e.path), Word(Len(e.data)))
  /\ At(b, p + 8 + Len(e.path), e.data)

-----------------------------------------------------------------------------
(* Words and pieces of byte sequences *)

LEMMA WordType ==
  ASSUME NEW n, IsWord(n)
  PROVE  Word(n) \in Seq(Byte) /\ Len(Word(n)) = 4
  <1>1. n \in Nat /\ n \div 65536 < 65536
    BY DEF IsWord
  <1>2. n % 256 \in Byte /\ (n \div 256) % 256 \in Byte /\ (n \div 65536) % 256 \in Byte
    BY <1>1 DEF Byte
  <1>3. n \div 16777216 \in Byte
    BY <1>1 DEF Byte
  <1> QED BY <1>2, <1>3 DEF Word

\* One digit to the base 256, and the next.
LEMMA Digit ==
  ASSUME NEW n \in Nat
  PROVE  n % 256 = n - 256 * (n \div 256) /\ n \div 256 \in Nat
  <1>1. n % 256 = n - 256 * (n \div 256)
    OBVIOUS
  <1>2. n \div 256 \in Nat
    OBVIOUS
  <1> QED BY <1>1, <1>2

LEMMA NextDigit ==
  ASSUME NEW n \in Nat
  PROVE  /\ (n \div 256) \div 256 = n \div 65536
         /\ (n \div 65536) \div 256 = n \div 16777216
         /\ n \div 65536 \in Nat
  <1>1. (n \div 256) \div 256 = n \div 65536
    OBVIOUS
  <1>2. (n \div 65536) \div 256 = n \div 16777216
    OBVIOUS
  <1>3. n \div 65536 \in Nat
    OBVIOUS
  <1> QED BY <1>1, <1>2, <1>3

\* The bytes of a word add up to it: read_u32 inverts memcpy.
LEMMA WordValue ==
  ASSUME NEW n, IsWord(n)
  PROVE  Word(n)[1] + 256 * Word(n)[2] + 65536 * Word(n)[3] + 16777216 * Word(n)[4] = n
  <1> DEFINE q1 == n \div 256
             q2 == n \div 65536
             q3 == n \div 16777216
  <1>0. n \in Nat
    BY DEF IsWord
  <1>1. /\ Word(n)[1] = n % 256 /\ Word(n)[2] = q1 % 256
        /\ Word(n)[3] = q2 % 256 /\ Word(n)[4] = q3
    BY DEF Word
  <1>2. q1 \in Nat /\ q2 \in Nat /\ q1 \div 256 = q2 /\ q2 \div 256 = q3
    BY <1>0, Digit, NextDigit
  <1> HIDE DEF q1, q2, q3
  <1>3. q1 % 256 = q1 - 256 * q2 /\ q2 % 256 = q2 - 256 * q3 /\ q3 \in Nat
    BY <1>2, Digit
  <1>4. n % 256 = n - 256 * q1
    BY <1>0, Digit DEF q1
  <1> QED BY <1>0, <1>1, <1>2, <1>3, <1>4

\* Positions in an entry at p whose path has n bytes.
LEMMA Positions ==
  ASSUME NEW p \in Nat, NEW n \in Nat
  PROVE  /\ p + 4 \in Nat /\ p + 4 + n \in Nat /\ p + 8 + n \in Nat
         /\ (p + 4) + n = p + 4 + n /\ p + 8 + n = (p + 4 + n) + 4
  OBVIOUS

LEMMA Joined ==
  ASSUME NEW b \in Seq(Byte), NEW c \in Seq(Byte)
  PROVE  b \o c \in Seq(Byte) /\ Len(b \o c) = Len(b) + Len(c)
  OBVIOUS

\* Concatenation as a name that the provers do not look into.
Cat(b, c) == b \o c

LEMMA JoinedTwice ==
  ASSUME NEW b \in Seq(Byte), NEW c \in Seq(Byte), NEW d \in Seq(Byte)
  PROVE  Cat(b, Cat(c, d)) = Cat(Cat(b, c), d)
  BY ConcatAssociative, SMTT(30) DEF Cat

LEMMA JoinedFourTimes ==
  ASSUME NEW b \in Seq(Byte), NEW c \in Seq(Byte), NEW d \in Seq(Byte),
         NEW e \in Seq(Byte), NEW f \in Seq(Byte)
  PROVE  Cat(b, Cat(Cat(Cat(c, d), e), f)) = Cat(Cat(Cat(Cat(b, c), d), e), f)
  <1>1. Cat(c, d) \in Seq(Byte) /\ Cat(Cat(c, d), e) \in Seq(Byte)
    <2>1. \A x, y \in Seq(Byte) : Cat(x, y) \in Seq(Byte)
      BY Joined DEF Cat
    <2> QED BY <2>1
  <1>2. Cat(b, Cat(Cat(Cat(c, d), e), f)) = Cat(Cat(b, Cat(Cat(c, d), e)), f)
    BY <1>1, JoinedTwice
  <1>3. Cat(b, Cat(Cat(c, d), e)) = Cat(Cat(b, Cat(c, d)), e)
    BY <1>1, JoinedTwice
  <1>4. Cat(b, Cat(c, d)) = Cat(Cat(b, c), d)
    BY JoinedTwice
  <1> QED BY <1>2, <1>3, <1>4

\* What is in a sequence stays there when more is appended.
LEMMA AtExtends ==
  ASSUME NEW b \in Seq(Byte), NEW c \in Seq(Byte), NEW w \in Seq(Byte), NEW p \in Nat,
         At(b, p, w)
  PROVE  At(b \o c, p, w)
  BY DEF At

LEMMA AtEnd ==
  ASSUME NEW b \in Seq(Byte), NEW w \in Seq(Byte)
  PROVE  At(b \o w, Len(b), w)
  BY DEF At

\* A piece that is cut out is the piece that was put in.
LEMMA SliceAt ==
  ASSUME NEW b \in Seq(Byte), NEW w \in Seq(Byte), NEW p \in Nat, At(b, p, w)
  PROVE  SubSeq(b, p + 1, p + Len(w)) = w
  <1> DEFINE m == p + 1
             n == p + Len(w)
             t == SubSeq(b, m, n)
  <1>1. /\ m \in Int /\ n \in Int /\ Len(w) \in Nat /\ n - m + 1 = Len(w)
        /\ \A i \in m .. n : b[i] \in Byte
        /\ \A i \in 1 .. Len(w) : b[m + i - 1] = w[i]
    BY DEF At
  <1> HIDE DEF m, n
  <1>2. /\ t \in Seq(Byte) /\ Len(t) = IF m <= n THEN n - m + 1 ELSE 0
        /\ \A i \in 1 .. n - m + 1 : t[i] = b[m + i - 1]
    BY <1>1, SubSeqProperties
  <1> HIDE DEF t
  <1>3. Len(t) = Len(w)
    BY <1>1, <1>2
  <1>4. \A i \in 1 .. Len(w) : t[i] = w[i]
    BY <1>1, <1>2
  <1>5. t = w
    BY <1>2, <1>3, <1>4, SeqEqual
  <1> QED BY <1>5 DEF t, m, n

LEMMA EncodeType ==
  ASSUME NEW e, Packable(e)
  PROVE  Encode(e) \in Seq(Byte) /\ Len(Encode(e)) = Size(e)
  <1> DEFINE u == Word(Len(e.path))
             v == Word(Len(e.data))
  <1>1. /\ e.path \in Seq(Byte) /\ e.data \in Seq(Byte)
        /\ u \in Seq(Byte) /\ Len(u) = 4 /\ v \in Seq(Byte) /\ Len(v) = 4
    BY WordType DEF Packable, AnyEntry
  <1>2. Encode(e) = ((u \o e.path) \o v) \o e.data
    BY DEF Encode
  <1> HIDE DEF u, v
  <1>3. u \o e.path \in Seq(Byte) /\ Len(u \o e.path) = 4 + Len(e.path)
    BY <1>1, Joined
  <1>4. (u \o e.path) \o v \in Seq(Byte) /\ Len((u \o e.path) \o v) = 8 + Len(e.path)
    BY <1>1, <1>3, Joined
  <1>5. /\ ((u \o e.path) \o v) \o e.data \in Seq(Byte)
        /\ Len(((u \o e.path) \o v) \o e.data) = 8 + Len(e.path) + Len(e.data)
    BY <1>1, <1>4, Joined
  <1> QED BY <1>2, <1>5 DEF Size

LEMMA SizeType ==
  ASSUME NEW e, Packable(e)
  PROVE  Size(e) \in Nat
  <1> DEFINE m == Len(e.path)
             n == Len(e.data)
  <1>1. e.path \in Seq(Byte) /\ e.data \in Seq(Byte)
    BY DEF Packable, AnyEntry
  <1>2. m \in Nat /\ n \in Nat /\ Size(e) = 8 + m + n
    BY <1>1 DEF Size
  <1> HIDE DEF m, n
  <1> QED BY <1>2

\* An entry appended to b is found at its end.
LEMMA EncodeAt ==
  ASSUME NEW e, Packable(e), NEW b \in Seq(Byte)
  PROVE  EntryAt(b \o Encode(e), Len(b), e)
  <1> DEFINE u == Word(Len(e.path))
             v == Word(Len(e.data))
             c1 == b \o u
             c2 == c1 \o e.path
             c3 == c2 \o v
             c4 == c3 \o e.data
  <1>1. /\ e.path \in Seq(Byte) /\ e.data \in Seq(Byte)
        /\ u \in Seq(Byte) /\ Len(u) = 4 /\ v \in Seq(Byte) /\ Len(v) = 4
    BY WordType DEF Packable, AnyEntry
  <1>2. Encode(e) = ((u \o e.path) \o v) \o e.data
    BY DEF Encode
  <1> HIDE DEF u, v
  <1>3. /\ c1 \in Seq(Byte) /\ Len(c1) = Len(b) + 4 /\ At(c1, Len(b), u)
    BY <1>1, Joined, AtEnd
  <1>4. b \o Encode(e) = c4
    <2>1. b \o Encode(e) = Cat(b, Cat(Cat(Cat(u, e.path), v), e.data))
      BY <1>2, Zenon DEF Cat
    <2>2. c4 = Cat(Cat(Cat(Cat(b, u), e.path), v), e.data)
      BY Zenon DEF Cat
    <2> HIDE DEF c1, c2, c3, c4
    <2> QED BY <1>1, <2>1, <2>2, JoinedFourTimes
  <1> DEFINE p1 == Len(b) + 4
             p2 == Len(b) + 4 + Len(e.path)
             p3 == Len(b) + 8 + Len(e.path)
  <1>5. /\ Len(b) \in Nat /\ p1 \in Nat /\ p2 \in Nat /\ p3 \in Nat
        /\ p2 = p1 + Len(e.path) /\ p3 = p2 + 4
    <2>1. Len(b) \in Nat /\ Len(e.path) \in Nat
      BY <1>1
    <2> QED BY <2>1, Positions
  <1>6. Len(c1) = p1
    BY <1>3
  <1> HIDE DEF c1, p1
  <1>7. c2 \in Seq(Byte) /\ Len(c2) = p2 /\ At(c2, p1, e.path) /\ At(c2, Len(b), u)
    <2>1. c2 \in Seq(Byte) /\ Len(c2) = p1 + Len(e.path)
      BY <1>1, <1>3, <1>6, Joined
    <2>2. At(c2, p1, e.path)
      BY <1>1, <1>3, <1>6, AtEnd
    <2>3. At(c2, Len(b), u)
      BY <1>1, <1>3, <1>5, AtExtends
    <2> QED BY <1>5, <2>1, <2>2, <2>3
  <1> HIDE DEF c2, p2
  <1>8. /\ c3 \in Seq(Byte) /\ Len(c3) = p3 /\ At(c3, p2, v)
        /\ At(c3, p1, e.path) /\ At(c3, Len(b), u)
    <2>1. c3 \in Seq(Byte) /\ Len(c3) = p2 + 4
      <3>1. c3 \in Seq(Byte) /\ Len(c3) = Len(c2) + Len(v)
        BY <1>1, <1>7, Joined
      <3> QED BY <1>1, <1>7, <3>1
    <2>2. At(c3, p2, v)
      BY <1>1, <1>7, AtEnd
    <2>3. At(c3, p1, e.path) /\ At(c3, Len(b), u)
      BY <1>1, <1>5, <1>7, AtExtends
    <2> QED BY <1>5, <2>1, <2>2, <2>3
  <1> HIDE DEF c3, p3
  <1>9. At(c4, p3, e.data)
    BY <1>1, <1>8, AtEnd
  <1>10. At(c4, p2, v) /\ At(c4, p1, e.path) /\ At(c4, Len(b), u)
    BY <1>1, <1>5, <1>8, AtExtends
  <1> QED BY <1>4, <1>9, <1>10 DEF EntryAt, u, v, p1, p2, p3

\* Entries stay where they are when more is appended.
LEMMA EntryExtends ==
  ASSUME NEW e, Packable(e), NEW b \in Seq(Byte), NEW c \in Seq(Byte), NEW p \in Nat,
         EntryAt(b, p, e)
  PROVE  EntryAt(b \o c, p, e)
  <1>1. /\ e.path \in Seq(Byte) /\ e.data \in Seq(Byte)
        /\ Word(Len(e.path)) \in Seq(Byte) /\ Word(Len(e.data)) \in Seq(Byte)
    BY WordType DEF Packable, AnyEntry
  <1>2. p + 4 \in Nat /\ p + 4 + Len(e.path) \in Nat /\ p + 8 + Len(e.path) \in Nat
    <2>1. Len(e.path) \in Nat
      BY <1>1
    <2> QED BY <2>1, Positions
  <1> QED BY <1>1, <1>2, AtExtends DEF EntryAt

-----------------------------------------------------------------------------
(* Reading: what the migration sees is a beginning of the packed bytes *)

Faithful == End <= Len(packed) /\ \A i \in 1 .. End : blob.bytes[i] = packed[i]

LEMMA ReadWord ==
  ASSUME Faithful, blob.bytes \in Seq(Byte), packed \in Seq(Byte),
         NEW n, IsWord(n), NEW p \in Nat, At(packed, p, Word(n)), p + 4 <= End
  PROVE  Read32(p) = n
  <1>1. \A i \in 1 .. 4 : blob.bytes[p + i] = Word(n)[i]
    BY WordType DEF Faithful, At, End
  <1>2. /\ blob.bytes[p + 1] = Word(n)[1] /\ blob.bytes[p + 2] = Word(n)[2]
        /\ blob.bytes[p + 3] = Word(n)[3] /\ blob.bytes[p + 4] = Word(n)[4]
    BY <1>1
  <1> QED BY <1>2, WordValue DEF Read32

LEMMA ReadSlice ==
  ASSUME Faithful, blob.bytes \in Seq(Byte), packed \in Seq(Byte),
         NEW w \in Seq(Byte), NEW p \in Nat, At(packed, p, w), p + Len(w) <= End
  PROVE  Slice(p, Len(w)) = w
  <1>1. At(blob.bytes, p, w)
    BY DEF Faithful, At, End
  <1> QED BY <1>1, SliceAt DEF Slice

\* An entry is available if all its bytes arrived, and then it is read back.
LEMMA ReadBack ==
  ASSUME Faithful, blob.bytes \in Seq(Byte), packed \in Seq(Byte), ptr \in Nat,
         NEW e, Packable(e), EntryAt(packed, ptr, e)
  PROVE  /\ EntryAvailable <=> ptr + Size(e) <= End
         /\ EntryAvailable => /\ [path |-> Name, data |-> Data] = e
                              /\ ptr + 8 + NameLen + DataLen = ptr + Size(e)
  <1>1. /\ e.path \in Seq(Byte) /\ e.data \in Seq(Byte) /\ e = [path |-> e.path, data |-> e.data]
        /\ IsWord(Len(e.path)) /\ IsWord(Len(e.data))
        /\ Len(e.path) \in Nat /\ Len(e.data) \in Nat /\ End \in Nat
    BY DEF Packable, AnyEntry, End
  <1>2. /\ At(packed, ptr, Word(Len(e.path))) /\ At(packed, ptr + 4, e.path)
        /\ At(packed, ptr + 4 + Len(e.path), Word(Len(e.data)))
        /\ At(packed, ptr + 8 + Len(e.path), e.data)
    BY DEF EntryAt
  <1>3. ptr + 4 <= End => NameLen = Len(e.path)
    BY <1>1, <1>2, ReadWord DEF NameLen
  <1>4. ptr + 8 + Len(e.path) <= End => DataLen = Len(e.data)
    <2>1. ptr + 4 + Len(e.path) \in Nat
      BY <1>1
    <2>2. ptr + 8 + Len(e.path) <= End => ptr + 4 <= End /\ ptr + 4 + Len(e.path) + 4 <= End
      BY <1>1
    <2> QED BY <1>1, <1>2, <1>3, <2>1, <2>2, ReadWord DEF DataLen
  <1>5. ASSUME EntryAvailable PROVE ptr + Size(e) <= End
    <2>1. ptr + 4 <= End
      BY <1>5 DEF EntryAvailable, Available
    <2>2. ptr + 4 + Len(e.path) + 4 <= End
      BY <1>3, <1>5, <2>1 DEF EntryAvailable, Available
    <2>3. ptr + 8 + Len(e.path) + Len(e.data) <= End
      BY <1>1, <1>3, <1>4, <1>5, <2>1, <2>2 DEF EntryAvailable, Available
    <2> QED BY <1>1, <2>3 DEF Size
  <1>6. ASSUME ptr + Size(e) <= End
        PROVE  NameLen = Len(e.path) /\ DataLen = Len(e.data) /\ EntryAvailable
    <2>1. ptr + 4 <= End /\ ptr + 8 + Len(e.path) <= End
      BY <1>1, <1>6 DEF Size
    <2>2. NameLen = Len(e.path) /\ DataLen = Len(e.data)
      BY <1>3, <1>4, <2>1
    <2>3. /\ ptr + 4 + Len(e.path) <= End
          /\ ptr + 4 + Len(e.path) + 4 <= End
          /\ ptr + 8 + Len(e.path) + Len(e.data) <= End
      BY <1>1, <1>6 DEF Size
    <2> QED BY <2>1, <2>2, <2>3 DEF EntryAvailable, Available
  <1>7. ASSUME ptr + Size(e) <= End PROVE Name = e.path /\ Data = e.data
    <2>1. /\ ptr + 4 \in Nat /\ ptr + 8 + Len(e.path) \in Nat
          /\ ptr + 4 + Len(e.path) <= End /\ ptr + 8 + Len(e.path) + Len(e.data) <= End
      BY <1>1, <1>7 DEF Size
    <2>2. Slice(ptr + 4, Len(e.path)) = e.path
      BY <1>1, <1>2, <2>1, ReadSlice
    <2>3. Slice(ptr + 8 + Len(e.path), Len(e.data)) = e.data
      BY <1>1, <1>2, <2>1, ReadSlice
    <2> QED BY <1>6, <1>7, <2>2, <2>3 DEF Name, Data
  <1>8. ASSUME EntryAvailable
        PROVE  /\ [path |-> Name, data |-> Data] = e
               /\ ptr + 8 + NameLen + DataLen = ptr + Size(e)
    <2>1. Name = e.path /\ Data = e.data /\ NameLen = Len(e.path) /\ DataLen = Len(e.data)
      BY <1>5, <1>6, <1>7, <1>8
    <2> QED BY <1>1, <2>1 DEF Size
  <1> QED BY <1>5, <1>6, <1>8

-----------------------------------------------------------------------------
(* Types *)

LEMMA SmallerWord ==
  ASSUME NEW n \in Nat, NEW m, IsWord(m), n <= m
  PROVE  IsWord(n)
  <1>1. m \in Nat /\ m \div 65536 < 65536
    BY DEF IsWord
  <1>2. n \div 65536 <= m \div 65536
    BY <1>1
  <1>3. n \div 65536 \in Int /\ m \div 65536 \in Int
    BY <1>1
  <1> QED BY <1>1, <1>2, <1>3 DEF IsWord

LEMMA SliceType ==
  ASSUME NEW b \in Seq(Byte), NEW p \in Nat, NEW n \in Nat, p + n <= Len(b)
  PROVE  SubSeq(b, p + 1, p + n) \in Seq(Byte) /\ Len(SubSeq(b, p + 1, p + n)) = n
  <1>1. p + 1 \in Int /\ p + n \in Int /\ \A i \in p + 1 .. p + n : b[i] \in Byte
    OBVIOUS
  <1>2. /\ SubSeq(b, p + 1, p + n) \in Seq(Byte)
        /\ Len(SubSeq(b, p + 1, p + n)) =
             IF p + 1 <= p + n THEN p + n - (p + 1) + 1 ELSE 0
    BY <1>1, SubSeqProperties
  <1>3. (IF p + 1 <= p + n THEN p + n - (p + 1) + 1 ELSE 0) = n
    OBVIOUS
  <1> QED BY <1>2, <1>3

\* A length that is read is a natural number.
LEMMA ReadType ==
  ASSUME blob.bytes \in Seq(Byte), NEW p \in Nat, p + 4 <= End
  PROVE  Read32(p) \in Nat
  <1> DEFINE b1 == blob.bytes[p + 1]
             b2 == blob.bytes[p + 2]
             b3 == blob.bytes[p + 3]
             b4 == blob.bytes[p + 4]
  <1>1. b1 \in Byte /\ b2 \in Byte /\ b3 \in Byte /\ b4 \in Byte
    BY DEF End
  <1>2. Read32(p) = b1 + 256 * b2 + 65536 * b3 + 16777216 * b4
    BY DEF Read32
  <1> HIDE DEF b1, b2, b3, b4
  <1>3. b1 \in Nat /\ b2 \in Nat /\ b3 \in Nat /\ b4 \in Nat
    BY <1>1 DEF Byte
  <1> QED BY <1>2, <1>3

LEMMA ReadEntryType ==
  ASSUME blob.bytes \in Seq(Byte), ptr \in Nat, EntryAvailable
  PROVE  /\ NameLen \in Nat /\ DataLen \in Nat
         /\ [path |-> Name, data |-> Data] \in AnyEntry
         /\ Len(Name) = NameLen /\ Len(Data) = DataLen
         /\ ptr + 8 + NameLen + DataLen <= End
  <1>1. End \in Nat
    BY DEF End
  <1>2. ptr + 4 <= End /\ NameLen \in Nat
    <2>1. ptr + 4 <= End
      BY DEF EntryAvailable, Available
    <2> QED BY <2>1, ReadType DEF NameLen
  <1>3. ptr + 4 + NameLen <= End /\ ptr + 4 + NameLen + 4 <= End /\ ptr + 8 + NameLen + DataLen <= End
    BY DEF EntryAvailable, Available
  <1>4. DataLen \in Nat
    <2>1. ptr + 4 + NameLen \in Nat
      BY <1>2
    <2> QED BY <1>3, <2>1, ReadType DEF DataLen
  <1>5. Name \in Seq(Byte) /\ Len(Name) = NameLen
    <2>1. ptr + 4 \in Nat
      OBVIOUS
    <2> QED BY <1>2, <1>3, <2>1, SliceType DEF Name, Slice, End
  <1>6. Data \in Seq(Byte) /\ Len(Data) = DataLen
    <2>1. ptr + 8 + NameLen \in Nat
      BY <1>2
    <2> QED BY <1>3, <1>4, <2>1, SliceType DEF Data, Slice, End
  <1> QED BY <1>2, <1>3, <1>4, <1>5, <1>6 DEF AnyEntry

\* The packer's own part of the type invariant: no more entries than
\* arguments dealt with, each small enough for its lengths to be words.
Collected ==
  /\ phase = "add" => next <= Len(args) /\ Len(entries) <= next
  /\ \A i \in 1 .. Len(entries) : Packable(entries[i])

LEMMA EntryPackable ==
  ASSUME NEW path \in Paths, Len(Content[path]) <= MaxFileSize
  PROVE  Entry(path) \in EntrySet /\ Packable(Entry(path))
  <1>1. path \in Seq(Byte) /\ IsWord(Len(path))
    <2>1. path \in Seq(Byte \ {0}) /\ IsWord(Len(path))
      BY PathAssumption
    <2>2. Seq(Byte \ {0}) \subseteq Seq(Byte)
      OBVIOUS
    <2> QED BY <2>1, <2>2
  <1>2. Content[path] \in Seq(Byte) /\ IsWord(MaxFileSize)
    BY ContentAssumption, SizeAssumption
  <1>3. IsWord(Len(Content[path]))
    <2>1. Len(Content[path]) \in Nat
      BY <1>2
    <2> QED BY <1>2, <2>1, SmallerWord
  <1> QED BY <1>1, <1>2, <1>3 DEF Entry, EntrySet, Packable, AnyEntry

LEMMA Appended ==
  ASSUME NEW S, NEW s \in Seq(S), NEW e \in S
  PROVE  /\ Append(s, e) \in Seq(S) /\ Len(Append(s, e)) = Len(s) + 1
         /\ \A i \in 1 .. Len(s) : Append(s, e)[i] = s[i]
         /\ Append(s, e)[Len(s) + 1] = e
  OBVIOUS

LEMMA IndexedSeq ==
  ASSUME NEW S, NEW n \in Nat, NEW s \in [1 .. n -> S]
  PROVE  s \in Seq(S) /\ Len(s) = n
  OBVIOUS

\* Types and the packer's counts, for any files and command lines.
Typed == TypeOK /\ Collected

LEMMA TypedInit == Init => Typed
  <1> SUFFICES ASSUME Init PROVE Typed
    OBVIOUS
  <1>1. args \in CommandLines /\ Len(args) \in Nat
    BY CommandLineAssumption DEF Init
  <1> QED BY <1>1 DEF Init, Typed, TypeOK, Collected, NoBlob

LEMMA TypedNext == Typed /\ [Next]_vars => Typed'
  <1> SUFFICES ASSUME Typed, [Next]_vars PROVE Typed'
    OBVIOUS
  <1>0. /\ args \in CommandLines /\ args \in Seq(Paths) /\ Len(args) \in Nat
        /\ IsWord(Len(args)) /\ next \in Nat /\ entries \in Seq(EntrySet)
        /\ Len(entries) \in Nat /\ Len(entries) <= Len(args)
        /\ packed \in Seq(Byte) /\ offsets \in Seq(Nat) /\ blob \in [bytes : Seq(Byte), size : Nat]
        /\ ptr \in Nat /\ files \in Seq([path : Seq(Byte), data : Seq(Byte)])
    BY CommandLineAssumption DEF Typed, TypeOK
  <1>11. <<>> \in Seq([path : Seq(Byte), data : Seq(Byte)])
    BY EmptySeq
  <1>1. CASE AddFile
    <2> DEFINE path == args[next + 1]
    <2>1. next < Len(args) /\ Len(entries) <= next /\ path \in Paths
      BY <1>0, <1>1 DEF AddFile, Typed, Collected
    <2>2. CASE entries' = entries
      BY <1>0, <1>1, <2>1, <2>2 DEF AddFile, Typed, TypeOK, Collected, parser
    <2>3. CASE entries' # entries
      <3>1. /\ entries' = Append(entries, Entry(path)) /\ phase' = phase
            /\ ~(Len(Content[path]) > MaxFileSize)
        BY <1>1, <2>3 DEF AddFile
      <3>2. Entry(path) \in EntrySet /\ Packable(Entry(path))
        <4>1. Len(Content[path]) \in Nat /\ MaxFileSize \in Nat
          BY <2>1, ContentAssumption, SizeAssumption DEF IsWord
        <4>2. Len(Content[path]) <= MaxFileSize
          BY <3>1, <4>1
        <4> QED BY <2>1, <4>2, EntryPackable
      <3>3. /\ entries' \in Seq(EntrySet) /\ Len(entries') = Len(entries) + 1
            /\ \A i \in 1 .. Len(entries) : entries'[i] = entries[i]
            /\ entries'[Len(entries) + 1] = Entry(path)
        BY <1>0, <3>1, <3>2, Appended
      <3>4. Collected'
        <4>1. \A i \in 1 .. Len(entries) : Packable(entries[i])
          BY DEF Typed, Collected
        <4>2. \A i \in 1 .. Len(entries') : Packable(entries'[i])
          <5> TAKE i \in 1 .. Len(entries')
          <5>1. CASE i = Len(entries) + 1
            BY <3>2, <3>3, <5>1
          <5>2. CASE i # Len(entries) + 1
            <6>1. i \in 1 .. Len(entries)
              BY <1>0, <3>3, <5>2
            <6> QED BY <3>3, <4>1, <6>1
          <5> QED BY <5>1, <5>2
        <4>3. next' <= Len(args') /\ Len(entries') <= next'
          BY <1>0, <1>1, <2>1, <3>3 DEF AddFile
        <4> QED BY <4>2, <4>3 DEF Collected
      <3>5. TypeOK'
        BY <1>0, <1>1, <2>1, <3>1, <3>3 DEF AddFile, Typed, TypeOK, parser
      <3> QED BY <3>4, <3>5 DEF Typed
    <2> QED BY <2>2, <2>3
  <1>2. CASE Sort
    <2>1. PICK pi \in [DOMAIN entries -> DOMAIN entries] :
            entries' = [i \in DOMAIN entries |-> entries[pi[i]]]
      BY <1>2 DEF Sort
    <2>2. entries' = [i \in 1 .. Len(entries) |-> entries[pi[i]]]
      BY <1>0, <2>1
    <2>3. \A i \in 1 .. Len(entries) : pi[i] \in 1 .. Len(entries)
      BY <1>0, <2>1
    <2>4. entries' \in [1 .. Len(entries) -> EntrySet]
      BY <1>0, <2>2, <2>3
    <2>5. entries' \in Seq(EntrySet) /\ Len(entries') = Len(entries)
      BY <1>0, <2>4, IndexedSeq
    <2>6. /\ entries' \in Seq(EntrySet) /\ Len(entries') = Len(entries)
          /\ \A i \in 1 .. Len(entries') : \E j \in 1 .. Len(entries) : entries'[i] = entries[j]
      BY <2>2, <2>3, <2>5
    <2>7. Collected'
      BY <1>2, <2>6 DEF Sort, Typed, Collected
    <2>8. TypeOK'
      BY <1>0, <1>2, <2>6 DEF Sort, Typed, TypeOK, parser
    <2> QED BY <2>7, <2>8 DEF Typed
  <1>3. CASE PackCount
    <2>1. Word(Len(entries)) \in Seq(Byte)
      BY <1>0, SmallerWord, WordType
    <2> QED BY <1>0, <1>3, <2>1 DEF PackCount, Typed, TypeOK, Collected, parser
  <1>4. CASE PackEntry
    <2>1. Packable(entries[next + 1])
      BY <1>0, <1>4 DEF PackEntry, Typed, Collected
    <2>2. packed' \in Seq(Byte)
      BY <1>0, <1>4, <2>1, EncodeType, Joined DEF PackEntry
    <2>3. offsets' \in Seq(Nat)
      BY <1>0, <1>4, Appended DEF PackEntry
    <2> QED BY <1>0, <1>4, <2>2, <2>3 DEF PackEntry, Typed, TypeOK, Collected, parser
  <1>5. CASE Embed
    <2>1. blob' \in [bytes : Seq(Byte), size : Nat]
      <3> SUFFICES ASSUME NEW size \in Sizes,
                          \/ blob' = [bytes |-> packed, size |-> size]
                          \/ \E n \in 0 .. Len(packed) - 1 :
                               blob' = [bytes |-> SubSeq(packed, 1, n), size |-> size]
                          \/ \E i \in DOMAIN packed, b \in WrongBytes :
                               blob' = [bytes |-> [packed EXCEPT ![i] = b], size |-> size]
                   PROVE  blob' \in [bytes : Seq(Byte), size : Nat]
        BY <1>5 DEF Embed
      <3>0. size \in Nat
        BY SizeAssumption
      <3>1. CASE blob' = [bytes |-> packed, size |-> size]
        BY <1>0, <3>0, <3>1
      <3>2. ASSUME NEW n \in 0 .. Len(packed) - 1,
                   blob' = [bytes |-> SubSeq(packed, 1, n), size |-> size]
            PROVE  blob' \in [bytes : Seq(Byte), size : Nat]
        <4>1. SubSeq(packed, 0 + 1, 0 + n) \in Seq(Byte)
          BY <1>0, SliceType
        <4> QED BY <3>0, <3>2, <4>1
      <3>3. ASSUME NEW i \in DOMAIN packed, NEW b \in WrongBytes,
                   blob' = [bytes |-> [packed EXCEPT ![i] = b], size |-> size]
            PROVE  blob' \in [bytes : Seq(Byte), size : Nat]
        <4>1. b \in Byte
          BY ByteAssumption
        <4> QED BY <1>0, <3>0, <3>3, <4>1
      <3> QED BY <3>1, <3>2, <3>3
    <2> QED BY <1>0, <1>5, <2>1 DEF Embed, Typed, TypeOK, Collected, parser
  <1>6. CASE Decompress
    <2>1. Collected'
      BY <1>0, <1>6 DEF Decompress, Refuse, Typed, Collected, parser
    <2>2. /\ UNCHANGED <<args, next, entries, packed, offsets, blob, ptr>>
          /\ phase' \in {"count", "end"}
      BY <1>6 DEF Decompress, Refuse, parser
    <2>3. files' \in Seq([path : Seq(Byte), data : Seq(Byte)])
      BY <1>0, <1>11, <1>6 DEF Decompress, Refuse, parser
    <2>4. /\ status' \in {"none", "ok", "corrupt", "decompress", "db"}
          /\ (status' # "none") = (phase' = "end")
      BY <1>6 DEF Decompress, Refuse, Typed, TypeOK, parser
    <2> QED BY <1>0, <2>1, <2>2, <2>3, <2>4 DEF Typed, TypeOK
  <1>7. CASE ReadCount
    <2>1. Collected'
      BY <1>0, <1>7 DEF ReadCount, Refuse, Typed, Collected
    <2>2. /\ UNCHANGED <<args, next, entries, packed, offsets, blob>>
          /\ phase' \in {"entries", "end"} /\ ptr' \in Nat
      BY <1>0, <1>7 DEF ReadCount, Refuse
    <2>3. files' \in Seq([path : Seq(Byte), data : Seq(Byte)])
      BY <1>0, <1>11, <1>7 DEF ReadCount, Refuse
    <2>4. /\ status' \in {"none", "ok", "corrupt", "decompress", "db"}
          /\ (status' # "none") = (phase' = "end")
      BY <1>7 DEF ReadCount, Refuse, Typed, TypeOK
    <2> QED BY <1>0, <2>1, <2>2, <2>3, <2>4 DEF Typed, TypeOK
  <1>8. CASE ReadEntry
    <2>1. ASSUME EntryAvailable, files' = Append(files, [path |-> Name, data |-> Data]),
                 ptr' = ptr + 8 + NameLen + DataLen
          PROVE  files' \in Seq([path : Seq(Byte), data : Seq(Byte)]) /\ ptr' \in Nat
      <3>1. /\ NameLen \in Nat /\ DataLen \in Nat
            /\ [path |-> Name, data |-> Data] \in AnyEntry
        BY <1>0, <2>1, ReadEntryType
      <3> QED BY <1>0, <2>1, <3>1, Appended DEF AnyEntry
    <2>2. CASE Refuse("corrupt") \/ Refuse("db")
      BY <1>0, <1>11, <1>8, <2>2 DEF ReadEntry, Refuse, Typed, TypeOK, Collected
    <2>3. CASE ~(Refuse("corrupt") \/ Refuse("db"))
      <3>1. files' \in Seq([path : Seq(Byte), data : Seq(Byte)]) /\ ptr' \in Nat
        BY <1>8, <2>1, <2>3 DEF ReadEntry
      <3>2. UNCHANGED <<phase, status>> /\ next' = next + 1
        BY <1>8, <2>3 DEF ReadEntry
      <3>3. UNCHANGED <<args, entries, packed, offsets, blob>>
        BY <1>8, <2>3 DEF ReadEntry
      <3>6. phase = "entries"
        BY <1>8 DEF ReadEntry
      <3>4. TypeOK'
        BY <1>0, <3>1, <3>2, <3>3 DEF Typed, TypeOK
      <3>5. Collected'
        BY <1>0, <3>2, <3>3, <3>6 DEF Typed, Collected
      <3> QED BY <3>4, <3>5 DEF Typed
    <2> QED BY <2>2, <2>3
  <1>9. CASE Commit
    BY <1>0, <1>9 DEF Commit, Typed, TypeOK, Collected
  <1>10. CASE UNCHANGED vars
    BY <1>10 DEF vars, Typed, TypeOK, Collected
  <1> QED BY <1>1, <1>2, <1>3, <1>4, <1>5, <1>6, <1>7, <1>8, <1>9, <1>10 DEF Next

-----------------------------------------------------------------------------
(* What has been packed *)

\* The end of the k-th packed entry, which is where the next one starts.
Boundary(k) == IF k < Len(offsets) THEN offsets[k + 1] ELSE Len(packed)

EntryPacked(k) ==
  /\ EntryAt(packed, offsets[k], entries[k])
  /\ Boundary(k) = offsets[k] + Size(entries[k])

\* The packed bytes: the number of entries, then the entries packed so far,
\* one after the other.
Layout ==
  /\ phase \in {"add", "failed"} => packed = <<>>
  /\ packed = <<>> => offsets = <<>>
  /\ packed # <<>> => At(packed, 0, Word(Len(entries))) /\ Boundary(0) = 4
  /\ Len(offsets) <= Len(entries)
  /\ \A k \in 1 .. Len(offsets) : EntryPacked(k)
  /\ phase = "pack" => next = Len(offsets)
  /\ phase \notin {"add", "failed", "pack"} => packed # <<>> /\ Len(offsets) = Len(entries)

LEMMA LayoutInit == Init => Layout
  <1> SUFFICES ASSUME Init PROVE Layout
    OBVIOUS
  <1>1. phase = "add" /\ packed = <<>> /\ offsets = <<>> /\ entries = <<>>
    BY DEF Init
  <1>2. Len(offsets) = 0 /\ Len(entries) = 0
    BY <1>1
  <1> QED BY <1>1, <1>2 DEF Layout

\* Nothing about the layout changes when the packer's variables do not.
LEMMA LayoutKept ==
  ASSUME Layout, UNCHANGED <<entries, packed, offsets>>,
         phase' \in {"add", "failed"} => packed = <<>>,
         phase' = "pack" => next' = Len(offsets),
         phase' \notin {"add", "failed", "pack"} => packed # <<>> /\ Len(offsets) = Len(entries)
  PROVE  Layout'
  <1>1. \A k \in 1 .. Len(offsets) : EntryPacked(k)' = EntryPacked(k)
    BY DEF EntryPacked, EntryAt, At, Boundary, Size, Word
  <1>2. Boundary(0)' = Boundary(0)
    BY DEF Boundary
  <1>3. At(packed, 0, Word(Len(entries)))' = At(packed, 0, Word(Len(entries)))
    BY DEF At, Word
  <1> QED BY <1>1, <1>2, <1>3 DEF Layout

LEMMA LayoutNext == Typed /\ Layout /\ [Next]_vars => Layout'
  <1> SUFFICES ASSUME Typed, Layout, [Next]_vars PROVE Layout'
    OBVIOUS
  <1>0. /\ IsWord(Len(args)) /\ next \in Nat
        /\ Len(entries) \in Nat /\ Len(entries) <= Len(args)
        /\ packed \in Seq(Byte) /\ offsets \in Seq(Nat)
        /\ \A i \in 1 .. Len(entries) : Packable(entries[i])
    BY CommandLineAssumption DEF Typed, TypeOK, Collected
  <1>1. CASE AddFile \/ Sort
    <2>1. packed' = <<>> /\ offsets' = <<>> /\ phase' \in {"add", "failed", "pack"}
      BY <1>1 DEF AddFile, Sort, Layout
    <2>2. phase' = "pack" => next' = 0
      BY <1>1 DEF AddFile, Sort
    <2>3. Len(entries') \in Nat /\ Len(offsets') = 0
      BY <2>1, TypedNext DEF Typed, TypeOK
    <2> QED BY <2>1, <2>2, <2>3 DEF Layout
  <1>2. CASE PackCount
    <2> DEFINE w == Word(Len(entries))
    <2>1. w \in Seq(Byte) /\ Len(w) = 4
      BY <1>0, SmallerWord, WordType
    <2>2. /\ packed' = w /\ UNCHANGED <<entries, offsets, phase, next>>
          /\ phase = "pack" /\ offsets = <<>> /\ next = Len(offsets)
      BY <1>2 DEF PackCount, Layout
    <2>3. Word(Len(entries))' = w
      BY <2>2
    <2> HIDE DEF w
    <2>4. At(w, 0, w)
      BY <2>1 DEF At
    <2>5. Len(offsets) = 0 /\ packed' # <<>>
      BY <2>1, <2>2
    <2>6. Boundary(0)' = 4
      BY <2>1, <2>2, <2>5 DEF Boundary
    <2>7. At(packed', 0, Word(Len(entries))')
      BY <2>2, <2>3, <2>4
    <2> QED BY <1>0, <2>2, <2>5, <2>6, <2>7 DEF Layout
  <1>3. CASE PackEntry
    <2> DEFINE e == entries[next + 1]
    <2>0. PICK n : n = Len(offsets)
      OBVIOUS
    <2>1. /\ n = next /\ next < Len(entries) /\ packed # <<>> /\ phase = "pack"
          /\ packed' = packed \o Encode(e) /\ offsets' = Append(offsets, Len(packed))
          /\ next' = next + 1 /\ UNCHANGED <<phase, entries>>
      BY <1>3, <2>0 DEF PackEntry, Layout
    <2>2. /\ next + 1 \in 1 .. Len(entries) /\ Packable(e)
      BY <1>0, <2>1
    <2>3. /\ Encode(e) \in Seq(Byte) /\ Len(Encode(e)) = Size(e)
      BY <2>2, EncodeType
    <2>4. Len(packed) \in Nat /\ n \in Nat
      BY <1>0, <2>0
    <2>5. packed' \in Seq(Byte) /\ Len(packed') = Len(packed) + Size(e)
      BY <1>0, <2>1, <2>3, Joined
    <2>6. /\ offsets' \in Seq(Nat) /\ Len(offsets') = n + 1
          /\ \A i \in 1 .. n : offsets'[i] = offsets[i]
          /\ offsets'[n + 1] = Len(packed)
      <3>1. /\ offsets' \in Seq(Nat) /\ Len(offsets') = Len(offsets) + 1
            /\ \A i \in 1 .. Len(offsets) : offsets'[i] = offsets[i]
            /\ offsets'[Len(offsets) + 1] = Len(packed)
        BY <1>0, <2>1, <2>4, Appended
      <3> QED BY <2>0, <3>1
    <2>7. \A k \in 0 .. n : Boundary(k)' = Boundary(k)
      <3> TAKE k \in 0 .. n
      <3>1. CASE k < n
        <4>1. k + 1 \in 1 .. n
          BY <2>4, <3>1
        <4> QED BY <2>0, <2>4, <2>6, <3>1, <4>1 DEF Boundary
      <3>2. CASE k = n
        BY <2>0, <2>4, <2>6, <3>2 DEF Boundary
      <3> QED BY <2>4, <3>1, <3>2
    <2>8. \A k \in 1 .. n : EntryPacked(k)'
      <3> TAKE k \in 1 .. n
      <3>1. k \in 1 .. Len(entries) /\ k \in 0 .. n /\ offsets[k] \in Nat
        <4>1. k \in 1 .. Len(entries) /\ k \in 0 .. n
          BY <1>0, <2>1, <2>4
        <4>2. k \in 1 .. Len(offsets)
          BY <2>0
        <4>3. offsets[k] \in Nat
          BY <1>0, <4>2, ElementOfSeq
        <4> QED BY <4>1, <4>3
      <3>2. EntryAt(packed, offsets[k], entries[k]) /\ Boundary(k) = offsets[k] + Size(entries[k])
        BY <2>0 DEF Layout, EntryPacked
      <3>3. EntryAt(packed', offsets[k], entries[k])
        BY <1>0, <2>1, <2>3, <3>1, <3>2, EntryExtends
      <3>4. EntryAt(packed', offsets'[k], entries'[k])
        BY <2>1, <2>6, <3>3
      <3>5. Boundary(k)' = offsets'[k] + Size(entries'[k])
        BY <2>1, <2>6, <2>7, <3>1, <3>2
      <3> QED BY <3>4, <3>5 DEF EntryPacked, Size, EntryAt
    <2>9. EntryPacked(n + 1)'
      <3>1. EntryAt(packed', Len(packed), e)
        BY <1>0, <2>1, <2>2, EncodeAt
      <3>2. offsets'[n + 1] = Len(packed) /\ entries'[n + 1] = e
        BY <2>1, <2>6
      <3>3. Boundary(n + 1)' = Len(packed) + Size(e)
        BY <2>4, <2>5, <2>6 DEF Boundary
      <3> QED BY <3>1, <3>2, <3>3 DEF EntryPacked, Size, EntryAt
    <2>10. \A k \in 1 .. Len(offsets') : EntryPacked(k)'
      <3> TAKE k \in 1 .. Len(offsets')
      <3>1. k \in 1 .. n \/ k = n + 1
        BY <2>4, <2>6
      <3> QED BY <2>8, <2>9, <3>1
    <2>11. At(packed', 0, Word(Len(entries')))
      <3>1. Word(Len(entries)) \in Seq(Byte)
        BY <1>0, SmallerWord, WordType
      <3>2. At(packed, 0, Word(Len(entries)))
        BY <2>1 DEF Layout
      <3> QED BY <1>0, <2>1, <2>3, <3>1, <3>2, AtExtends
    <2>12. Boundary(0)' = 4
      <3>1. 0 \in 0 .. n /\ Boundary(0) = 4
        BY <2>1, <2>4 DEF Layout
      <3> QED BY <2>7, <3>1
    <2>13. packed' # <<>>
      <3>1. Len(packed') >= Len(packed) /\ Len(packed) # 0
        <4>1. Size(e) \in Nat
          BY <2>2, SizeType
        <4> QED BY <1>0, <2>1, <2>4, <2>5, <4>1
      <3> QED BY <2>4, <2>5, <3>1
    <2> QED BY <1>0, <2>1, <2>4, <2>6, <2>10, <2>11, <2>12, <2>13 DEF Layout
  <1>4. CASE Embed
    <2>1. /\ UNCHANGED <<entries, packed, offsets>> /\ phase' = "decompress"
          /\ packed # <<>> /\ Len(offsets) = Len(entries)
      BY <1>4 DEF Embed, Layout
    <2> QED BY <2>1, LayoutKept
  <1>5. CASE Decompress \/ ReadCount \/ ReadEntry \/ Commit
    <2>1. /\ UNCHANGED <<entries, packed, offsets>>
          /\ phase \in {"decompress", "count", "entries"}
          /\ phase' \in {"count", "entries", "end"}
      BY <1>5 DEF Decompress, ReadCount, ReadEntry, Commit, Refuse
    <2>2. packed # <<>> /\ Len(offsets) = Len(entries)
      BY <2>1 DEF Layout
    <2> QED BY <2>1, <2>2, LayoutKept
  <1>6. CASE UNCHANGED vars
    <2>1. UNCHANGED <<entries, packed, offsets, phase, next>>
      BY <1>6 DEF vars
    <2> QED BY <2>1, LayoutKept DEF Layout
  <1> QED BY <1>1, <1>2, <1>3, <1>4, <1>5, <1>6 DEF Next

-----------------------------------------------------------------------------
(* What the migration has read of it *)

\* The first n entries have been read and stored.
Parsed(n) ==
  /\ n <= Len(entries)
  /\ ptr = Boundary(n) /\ ptr <= End
  /\ Len(files) = n /\ \A i \in 1 .. n : files[i] = entries[i]

\* How far the migration is, and what its return value says. Bytes that are
\* not a beginning of the packed ones are as many as those.
Reading ==
  /\ phase \notin {"entries", "end"} => files = <<>> /\ ptr = 0
  /\ phase \in {"decompress", "count"} => next = 0
  /\ phase \in {"decompress", "count", "entries", "end"} => Faithful \/ End = Len(packed)
  /\ phase \in {"count", "entries"} => BufferHolds(End)
  /\ phase = "entries" => 4 <= End
  /\ phase = "entries" /\ Faithful => Parsed(next)
  /\ status = "ok" => BufferHolds(End)
  /\ status = "ok" /\ Faithful => files = entries /\ ptr = Len(packed) /\ ptr <= End
  /\ status = "decompress" => ~BufferHolds(End)
  /\ status = "corrupt" => ~Undamaged
  /\ status \notin {"none", "ok"} => files = <<>>

LEMMA ReadingInit == Init => Reading
  <1> SUFFICES ASSUME Init PROVE Reading
    OBVIOUS
  <1>1. phase = "add" /\ status = "none" /\ files = <<>> /\ ptr = 0
    BY DEF Init
  <1> QED BY <1>1 DEF Reading

\* A bundle as it was packed is faithful, and all of it can be read.
LEMMA UndamagedIsFaithful ==
  ASSUME Undamaged, packed \in Seq(Byte)
  PROVE  Faithful /\ End = Len(packed)
  BY DEF Undamaged, Faithful, End

\* The number of entries is read back.
LEMMA CountRead ==
  ASSUME Typed, Layout, Faithful, packed # <<>>, 4 <= End
  PROVE  Read32(0) = Len(entries)
  <1>1. /\ packed \in Seq(Byte) /\ blob.bytes \in Seq(Byte)
        /\ Len(entries) \in Nat /\ IsWord(Len(entries))
    <2>1. /\ IsWord(Len(args)) /\ Len(entries) \in Nat /\ Len(entries) <= Len(args)
      BY CommandLineAssumption DEF Typed, TypeOK
    <2>2. packed \in Seq(Byte) /\ blob.bytes \in Seq(Byte)
      BY DEF Typed, TypeOK
    <2> QED BY <2>1, <2>2, SmallerWord
  <1>2. At(packed, 0, Word(Len(entries)))
    BY DEF Layout
  <1> QED BY <1>1, <1>2, ReadWord

\* The entry at ptr, when the ones before it have been read.
LEMMA EntryReached ==
  ASSUME Typed, Layout, Reading, Faithful, phase = "entries", next < Read32(0)
  PROVE  LET e == entries[next + 1] IN
           /\ next + 1 <= Len(entries) /\ Packable(e)
           /\ EntryAt(packed, ptr, e)
           /\ Boundary(next + 1) = ptr + Size(e)
           /\ EntryAvailable <=> ptr + Size(e) <= End
           /\ EntryAvailable => /\ [path |-> Name, data |-> Data] = e
                                /\ ptr + 8 + NameLen + DataLen = ptr + Size(e)
  <1> DEFINE e == entries[next + 1]
  <1>1. /\ packed \in Seq(Byte) /\ blob.bytes \in Seq(Byte) /\ ptr \in Nat /\ next \in Nat
        /\ Len(entries) \in Nat
    BY DEF Typed, TypeOK
  <1>2. packed # <<>> /\ Len(offsets) = Len(entries) /\ 4 <= End /\ ptr = Boundary(next)
    BY DEF Layout, Reading, Parsed
  <1>3. next < Len(entries)
    BY <1>2, CountRead
  <1>4. next + 1 \in 1 .. Len(entries)
    BY <1>1, <1>3
  <1>5. ptr = offsets[next + 1]
    BY <1>2, <1>3 DEF Boundary
  <1>6. EntryAt(packed, ptr, e) /\ Boundary(next + 1) = ptr + Size(e)
    BY <1>2, <1>4, <1>5 DEF Layout, EntryPacked
  <1>7. Packable(e)
    BY <1>4 DEF Typed, Collected
  <1> HIDE DEF e
  <1>8. /\ EntryAvailable <=> ptr + Size(e) <= End
        /\ EntryAvailable => /\ [path |-> Name, data |-> Data] = e
                             /\ ptr + 8 + NameLen + DataLen = ptr + Size(e)
    BY <1>1, <1>6, <1>7, ReadBack
  <1>9. next + 1 <= Len(entries)
    BY <1>1, <1>3
  <1> QED BY <1>6, <1>7, <1>8, <1>9 DEF e

\* What zlib gives back when the bundle is one of those Embed allows.
LEMMA Delivered ==
  ASSUME Typed, Embed
  PROVE  Faithful' \/ End' = Len(packed')
  <1>0. packed \in Seq(Byte) /\ packed' = packed /\ Len(packed) \in Nat
    BY DEF Typed, TypeOK, Embed
  <1>1. CASE blob'.bytes = packed
    BY <1>0, <1>1 DEF Faithful, End
  <1>2. ASSUME NEW n \in 0 .. Len(packed) - 1, blob'.bytes = SubSeq(packed, 1, n)
        PROVE  Faithful'
    <2>1. n \in Nat /\ n <= Len(packed) /\ \A i \in 1 .. n : packed[i] \in Byte
      BY <1>0
    <2>2. /\ Len(blob'.bytes) = IF 1 <= n THEN n - 1 + 1 ELSE 0
          /\ \A i \in 1 .. n - 1 + 1 : blob'.bytes[i] = packed[1 + i - 1]
      BY <1>2, <2>1, SubSeqProperties
    <2>3. Len(blob'.bytes) = n
      BY <2>1, <2>2
    <2>4. \A i \in 1 .. n : blob'.bytes[i] = packed[i]
      BY <2>1, <2>2
    <2> QED BY <1>0, <2>1, <2>3, <2>4 DEF Faithful, End
  <1>3. ASSUME NEW i \in DOMAIN packed, NEW b \in WrongBytes,
               blob'.bytes = [packed EXCEPT ![i] = b]
        PROVE  End' = Len(packed')
    <2>1. b \in Byte
      BY ByteAssumption
    <2> QED BY <1>0, <1>3, <2>1 DEF End
  <1> QED BY <1>1, <1>2, <1>3 DEF Embed

LEMMA ReadingNext == Typed /\ Layout /\ Reading /\ [Next]_vars => Reading'
  <1> SUFFICES ASSUME Typed, Layout, Reading, [Next]_vars PROVE Reading'
    OBVIOUS
  <1>0. /\ packed \in Seq(Byte) /\ blob.bytes \in Seq(Byte) /\ ptr \in Nat /\ next \in Nat
        /\ Len(entries) \in Nat /\ Len(packed) \in Nat /\ End \in Nat
        /\ (status # "none") = (phase = "end")
    BY DEF Typed, TypeOK, End
  <1>1. CASE AddFile \/ Sort \/ PackCount \/ PackEntry
    <2>1. /\ phase' \in {"add", "failed", "pack"} /\ status' = "none"
          /\ files' = <<>> /\ ptr' = 0
      BY <1>0, <1>1 DEF AddFile, Sort, PackCount, PackEntry, parser, Reading
    <2> QED BY <2>1 DEF Reading
  <1>2. CASE Embed
    <2>1. Faithful' \/ End' = Len(packed')
      BY <1>2, Delivered
    <2>2. /\ phase' = "decompress" /\ status' = "none" /\ next' = 0
          /\ files' = <<>> /\ ptr' = 0
      BY <1>0, <1>2 DEF Embed, parser, Reading
    <2> QED BY <2>1, <2>2 DEF Reading
  <1>3. CASE Decompress \/ ReadCount \/ ReadEntry \/ Commit \/ UNCHANGED vars
    <2>1. UNCHANGED <<entries, packed, offsets, blob>>
      BY <1>3 DEF Decompress, ReadCount, ReadEntry, Commit, vars
    <2>2. /\ End' = End /\ Len(packed)' = Len(packed) /\ Faithful' = Faithful
          /\ Undamaged' = Undamaged /\ BufferHolds(End)' = BufferHolds(End)
          /\ \A k : Boundary(k)' = Boundary(k)
      BY <2>1 DEF End, Faithful, Undamaged, BufferHolds, Boundary
    <2>3. ASSUME NEW error \in {"decompress", "corrupt", "db"}, Refuse(error),
                 phase \in {"decompress", "count", "entries"},
                 error = "decompress" => ~BufferHolds(End),
                 error = "corrupt" => ~Undamaged
          PROVE  Reading'
      <3>1. phase' = "end" /\ status' = error /\ files' = <<>>
        BY <2>3 DEF Refuse
      <3> QED BY <2>2, <2>3, <3>1 DEF Reading
    <2>4. CASE Decompress
      <3>1. CASE Refuse("decompress") /\ ~BufferHolds(End)
        BY <2>3, <2>4, <3>1 DEF Decompress
      <3>2. CASE /\ BufferHolds(End) /\ phase' = "count"
                 /\ UNCHANGED <<parser, next>>
        BY <1>0, <2>2, <2>4, <3>2 DEF Decompress, parser, Reading
      <3> QED BY <2>4, <3>1, <3>2 DEF Decompress
    <2>5. CASE ReadCount
      <3>0. phase = "count" /\ packed # <<>> /\ next = 0 /\ files = <<>>
        BY <2>5 DEF ReadCount, Layout, Reading
      <3>1. CASE Refuse("corrupt") /\ ~Available(0, 4)
        <4>1. 4 <= Len(packed)
          BY <1>0, <3>0 DEF Layout, At, Word
        <4>2. ~Undamaged
          BY <1>0, <3>1, <4>1, UndamagedIsFaithful DEF Available
        <4> QED BY <2>3, <3>0, <3>1, <4>2
      <3>2. CASE /\ Available(0, 4) /\ phase' = "entries" /\ ptr' = 4
                 /\ UNCHANGED <<files, status, next>>
        <4>1. 4 <= End
          BY <3>2 DEF Available
        <4>2. Parsed(next)'
          <5>1. next' = 0 /\ files' = <<>> /\ ptr' = 4 /\ Len(entries') = Len(entries)
            BY <2>1, <3>0, <3>2
          <5>2. Boundary(0) = 4
            BY <3>0 DEF Layout
          <5>3. Boundary(next)' = 4 /\ Len(files') = 0
            BY <2>1, <5>1, <5>2 DEF Boundary
          <5> QED BY <1>0, <2>2, <4>1, <5>1, <5>3 DEF Parsed
        <4>3. status' = "none"
          BY <1>0, <3>0, <3>2
        <4> QED BY <2>2, <3>0, <3>2, <4>1, <4>2, <4>3 DEF Reading
      <3> QED BY <2>5, <3>1, <3>2 DEF ReadCount
    <2>6. CASE ReadEntry
      <3>0. phase = "entries" /\ next < Read32(0) /\ status = "none" /\ 4 <= End
        BY <1>0, <2>6 DEF ReadEntry, Reading
      <3>1. CASE Refuse("db")
        BY <2>3, <3>0, <3>1
      <3>2. CASE Refuse("corrupt") /\ ~EntryAvailable
        <4>1. ASSUME Undamaged PROVE FALSE
          <5> DEFINE e == entries[next + 1]
          <5>1. Faithful /\ End = Len(packed)
            BY <1>0, <4>1, UndamagedIsFaithful
          <5>2. Packable(e) /\ EntryAt(packed, ptr, e) /\ ~(ptr + Size(e) <= End)
            BY <3>0, <3>2, <5>1, EntryReached
          <5> HIDE DEF e
          <5>3. e.data \in Seq(Byte) /\ e.path \in Seq(Byte)
            BY <5>2 DEF Packable, AnyEntry
          <5>4. ptr + 8 + Len(e.path) + Len(e.data) <= Len(packed)
            BY <5>2 DEF EntryAt, At
          <5> DEFINE m == Len(e.path)
                     n == Len(e.data)
          <5>5. m \in Nat /\ n \in Nat /\ Size(e) = 8 + m + n
            BY <5>3 DEF Size
          <5>6. ptr + 8 + m + n <= End /\ ~(ptr + Size(e) <= End)
            BY <5>1, <5>2, <5>4
          <5> HIDE DEF m, n
          <5> QED BY <1>0, <5>5, <5>6
        <4> QED BY <2>3, <3>0, <3>2, <4>1
      <3>3. CASE /\ EntryAvailable
                 /\ files' = Append(files, [path |-> Name, data |-> Data])
                 /\ ptr' = ptr + 8 + NameLen + DataLen
                 /\ next' = next + 1
                 /\ UNCHANGED <<phase, status>>
        <4>1. ASSUME Faithful PROVE Parsed(next)'
          <5> DEFINE e == entries[next + 1]
          <5>1. /\ next + 1 <= Len(entries) /\ Boundary(next + 1) = ptr + Size(e)
                /\ ptr + Size(e) <= End /\ [path |-> Name, data |-> Data] = e
                /\ ptr' = ptr + Size(e)
            BY <3>0, <3>3, <4>1, EntryReached
          <5>2. Parsed(next) /\ files \in Seq(AnyEntry)
            BY <3>0, <4>1 DEF Reading, Typed, TypeOK, AnyEntry
          <5>3. [path |-> Name, data |-> Data] \in AnyEntry
            BY <1>0, <3>3, ReadEntryType
          <5>4. /\ Len(files') = Len(files) + 1
                /\ \A i \in 1 .. Len(files) : files'[i] = files[i]
                /\ files'[Len(files) + 1] = e
            BY <3>3, <5>1, <5>2, <5>3, Appended
          <5>5. Len(files) = next /\ \A i \in 1 .. next : files[i] = entries[i]
            BY <5>2 DEF Parsed
          <5>6. Len(files') = next + 1 /\ \A i \in 1 .. next + 1 : files'[i] = entries[i]
            <6>1. Len(files') = next + 1 /\ files'[next + 1] = entries[next + 1]
              BY <5>4, <5>5
            <6>2. \A i \in 1 .. next : files'[i] = entries[i]
              BY <5>4, <5>5
            <6>3. \A i \in 1 .. next + 1 : i \in 1 .. next \/ i = next + 1
              BY <1>0
            <6> QED BY <6>1, <6>2, <6>3
          <5>7. Boundary(next)' = ptr'
            BY <2>1, <3>3, <5>1 DEF Boundary
          <5> HIDE DEF e
          <5> QED BY <2>1, <2>2, <3>3, <5>1, <5>6, <5>7 DEF Parsed
        <4> QED BY <2>2, <3>0, <3>3, <4>1 DEF Reading
      <3> QED BY <2>6, <3>1, <3>2, <3>3 DEF ReadEntry
    <2>7. CASE Commit
      <3>0. /\ phase = "entries" /\ next = Read32(0) /\ 4 <= End /\ BufferHolds(End)
            /\ phase' = "end" /\ status' = "ok" /\ UNCHANGED <<files, ptr>>
        BY <2>7 DEF Commit, Reading
      <3>1. ASSUME Faithful PROVE files = entries /\ ptr = Len(packed) /\ ptr <= End
        <4>1. packed # <<>> /\ Len(offsets) = Len(entries) /\ Parsed(next)
          BY <3>0, <3>1 DEF Layout, Reading
        <4>2. next = Len(entries)
          BY <3>0, <3>1, <4>1, CountRead
        <4>3. ptr = Len(packed) /\ ptr <= End
          BY <1>0, <4>1, <4>2 DEF Parsed, Boundary
        <4>4. files \in Seq(AnyEntry) /\ entries \in Seq(AnyEntry)
          <5>1. EntrySet \subseteq AnyEntry
            <6>1. Seq(Byte \ {0}) \subseteq Seq(Byte)
              OBVIOUS
            <6> QED BY <6>1, PathAssumption, ContentAssumption DEF EntrySet, AnyEntry
          <5>2. Seq(EntrySet) \subseteq Seq(AnyEntry)
            BY <5>1
          <5> QED BY <5>2 DEF Typed, TypeOK, AnyEntry
        <4>5. Len(files) = Len(entries) /\ \A i \in 1 .. Len(files) : files[i] = entries[i]
          BY <4>1, <4>2 DEF Parsed
        <4> QED BY <4>3, <4>4, <4>5, SeqEqual
      <3> QED BY <2>1, <2>2, <3>0, <3>1 DEF Reading
    <2>8. CASE UNCHANGED vars
      <3>1. UNCHANGED <<phase, next, ptr, files, status>>
        BY <2>8 DEF vars
      <3>2. Parsed(next)' = Parsed(next)
        BY <2>1, <2>2, <3>1 DEF Parsed, Boundary
      <3> QED BY <2>1, <2>2, <3>1, <3>2 DEF Reading
    <2> QED BY <1>3, <2>4, <2>5, <2>6, <2>7, <2>8
  <1> QED BY <1>1, <1>2, <1>3 DEF Next

-----------------------------------------------------------------------------
(* The theorems *)

LEMMA Invariance == Spec => [](Typed /\ Layout /\ Reading)
  <1> DEFINE Inv == Typed /\ Layout /\ Reading
  <1>1. Init => Inv
    BY TypedInit, LayoutInit, ReadingInit
  <1>2. Inv /\ [Next]_vars => Inv'
    BY TypedNext, LayoutNext, ReadingNext
  <1> QED BY <1>1, <1>2, PTL DEF Spec

\* Types, for any files, names and command lines.
THEOREM Typing == Spec => []TypeOK
  <1>1. Typed => TypeOK
    BY DEF Typed
  <1> QED BY <1>1, Invariance, PTL

\* What the migration accepts of an undamaged bundle is what the packer
\* packed, to the last byte (bundle_pack, overlay_fs_migrate_assets).
THEOREM PackedIsRead == Spec => []RoundTrip
  <1>1. Typed /\ Reading => RoundTrip
    <2> SUFFICES ASSUME Typed, Reading, status = "ok", Undamaged
                 PROVE  files = entries /\ ptr = End
      BY DEF RoundTrip
    <2>1. Faithful /\ End = Len(packed)
      BY UndamagedIsFaithful DEF Typed, TypeOK
    <2> QED BY <2>1 DEF Reading
  <1> QED BY <1>1, Invariance, PTL

\* However early a bundle ends, it is refused, and a refusal leaves nothing
\* (the tests for the end of the buffer in overlay_fs_migrate_assets).
THEOREM ShortIsRefused == Spec => []TruncatedRefused
  <1>1. Typed /\ Reading => TruncatedRefused
    <2> SUFFICES ASSUME Typed, Reading PROVE TruncatedRefused
      OBVIOUS
    <2>1. /\ Len(packed) \in Nat /\ End \in Nat /\ (status # "none") = (phase = "end")
      BY DEF Typed, TypeOK, End
    <2>2. ASSUME status = "ok" PROVE End = Len(packed)
      <3>1. Faithful \/ End = Len(packed)
        BY <2>1, <2>2 DEF Reading
      <3>2. Faithful => End <= Len(packed) /\ Len(packed) <= End
        BY <2>2 DEF Reading, Faithful
      <3> QED BY <2>1, <3>1, <3>2
    <2> QED BY <2>2 DEF TruncatedRefused, Reading, End
  <1> QED BY <1>1, Invariance, PTL

\* The parser finds no fault with an undamaged bundle; only the buffer of
\* ten times the compressed size can be too small for it.
THEOREM WholeIsAccepted == Spec => []CompleteAccepted
  <1>1. Typed /\ Reading => CompleteAccepted
    <2> SUFFICES ASSUME Typed, Reading, Undamaged, phase = "end", status # "db"
                 PROVE  status = IF Len(packed) > 10 * blob.size THEN "decompress" ELSE "ok"
      BY DEF CompleteAccepted
    <2>1. /\ End = Len(packed) /\ status \in {"ok", "decompress"}
          /\ Len(packed) \in Nat /\ blob.size \in Nat
      BY UndamagedIsFaithful DEF Typed, TypeOK, Reading
    <2>2. status = "ok" => Len(packed) <= 10 * blob.size
      BY <2>1 DEF Reading, BufferHolds
    <2>3. status = "decompress" => ~(Len(packed) <= 10 * blob.size)
      BY <2>1 DEF Reading, BufferHolds
    <2> QED BY <2>1, <2>2, <2>3
  <1> QED BY <1>1, Invariance, PTL

-----------------------------------------------------------------------------
(* Every byte is accounted for *)

\* The bytes of the i-th stored file, and of all of them.
BytesOf(i, n) == {i} \X (1 .. n)

LEMMA BytesCounted ==
  ASSUME NEW i \in Nat, NEW n \in Nat
  PROVE  IsFiniteSet(BytesOf(i, n)) /\ Cardinality(BytesOf(i, n)) = n
  <1>1. IsFiniteSet(1 .. n) /\ Cardinality(1 .. n) = n
    BY FS_Interval
  <1>2. IsFiniteSet({i}) /\ Cardinality({i}) = 1
    BY FS_Singleton
  <1>3. /\ IsFiniteSet({i} \X (1 .. n))
        /\ Cardinality({i} \X (1 .. n)) = Cardinality({i}) * Cardinality(1 .. n)
    BY <1>1, <1>2, FS_Product
  <1>4. Cardinality({i}) * Cardinality(1 .. n) = n
    BY <1>1, <1>2
  <1> QED BY <1>3, <1>4 DEF BytesOf

\* One file more adds its bytes.
LEMMA BytesAppended ==
  ASSUME files \in Seq(AnyEntry), IsFiniteSet(FileBytes), NEW e \in AnyEntry,
         files' = Append(files, e)
  PROVE  /\ IsFiniteSet(FileBytes')
         /\ Cardinality(FileBytes') = Cardinality(FileBytes) + Size(e)
  <1> DEFINE m == Len(files) + 1
             new == BytesOf(m, Size(e))
  <1>1. /\ Len(files) \in Nat /\ DOMAIN files = 1 .. Len(files) /\ DOMAIN files' = 1 .. m
        /\ files'[m] = e /\ \A i \in 1 .. Len(files) : files'[i] = files[i]
    <2>1. /\ files' \in Seq(AnyEntry) /\ Len(files') = Len(files) + 1
          /\ files'[Len(files) + 1] = e
          /\ \A i \in 1 .. Len(files) : files'[i] = files[i]
      BY AppendProperties
    <2> QED BY <2>1, LenProperties
  <1>2. m \in Nat /\ Size(e) \in Nat
    <2> DEFINE k == Len(e.path)
               l == Len(e.data)
    <2>1. e.path \in Seq(Byte) /\ e.data \in Seq(Byte)
      BY DEF AnyEntry
    <2>2. k \in Nat /\ l \in Nat /\ Size(e) = 8 + k + l
      BY <2>1 DEF Size
    <2>3. m \in Nat
      BY <1>1
    <2> HIDE DEF k, l, m
    <2> QED BY <2>2, <2>3
  <1>3. /\ FileBytes = UNION {BytesOf(i, Size(files[i])) : i \in 1 .. Len(files)}
        /\ FileBytes' = UNION {BytesOf(i, Size(files'[i])) : i \in 1 .. m}
    BY <1>1 DEF FileBytes, BytesOf, Size
  <1>4. FileBytes' = FileBytes \cup new
    <2>1. 1 .. m = (1 .. Len(files)) \cup {m}
      BY <1>1
    <2>2. UNION {BytesOf(i, Size(files'[i])) : i \in 1 .. Len(files)} = FileBytes
      BY <1>1, <1>3
    <2> QED BY <1>1, <1>3, <2>1, <2>2
  <1>5. FileBytes \cap new = {}
    BY <1>1, <1>3 DEF BytesOf
  <1>6. IsFiniteSet(new) /\ Cardinality(new) = Size(e)
    BY <1>2, BytesCounted
  <1> HIDE DEF new
  <1>7. /\ IsFiniteSet(FileBytes \cup new)
        /\ Cardinality(FileBytes \cup new) =
             Cardinality(FileBytes) + Cardinality(new) - Cardinality(FileBytes \cap new)
    BY <1>6, FS_Union
  <1>8. Cardinality(FileBytes \cap new) = 0 /\ Cardinality(FileBytes) \in Nat
    BY <1>5, FS_EmptySet, FS_CardinalityType
  <1> QED BY <1>2, <1>4, <1>6, <1>7, <1>8

AccountInv == Accounted /\ (phase = "entries" => IsFiniteSet(FileBytes))

LEMMA NoBytes ==
  ASSUME files = <<>>
  PROVE  IsFiniteSet(FileBytes) /\ Cardinality(FileBytes) = 0
  <1>1. FileBytes = {}
    BY DEF FileBytes
  <1> QED BY <1>1, FS_EmptySet

LEMMA AccountNext ==
  ASSUME AccountInv, Typed, Reading, [Next]_vars
  PROVE  AccountInv'
  <1>1. CASE AddFile \/ Sort \/ PackCount \/ PackEntry \/ Embed \/ Decompress \/ Commit
    <2>1. phase' # "entries"
      BY <1>1 DEF AddFile, Sort, PackCount, PackEntry, Embed, Decompress, Commit, Refuse
    <2> QED BY <2>1 DEF AccountInv, Accounted
  <1>2. CASE ReadCount
    <2>1. CASE Available(0, 4)
      <3>1. files = <<>> /\ files' = <<>> /\ ptr' = 4 /\ blob' = blob /\ 4 <= End
        BY <1>2, <2>1 DEF ReadCount, Reading, Available, Refuse
      <3>2. FileBytes' = FileBytes /\ End' = End
        BY <3>1 DEF FileBytes, End
      <3>3. IsFiniteSet(FileBytes) /\ Cardinality(FileBytes) = 0
        BY <3>1, NoBytes
      <3> QED BY <3>1, <3>2, <3>3 DEF AccountInv, Accounted
    <2>2. CASE ~Available(0, 4)
      BY <1>2, <2>2 DEF ReadCount, Refuse, AccountInv, Accounted
    <2> QED BY <2>1, <2>2
  <1>3. CASE ReadEntry
    <2>1. CASE phase' # "entries"
      BY <2>1 DEF AccountInv, Accounted
    <2>2. CASE phase' = "entries"
      <3> DEFINE e == [path |-> Name, data |-> Data]
      <3>1. /\ EntryAvailable /\ files' = Append(files, e) /\ blob' = blob
            /\ ptr' = ptr + 8 + NameLen + DataLen /\ phase = "entries"
        BY <1>3, <2>2 DEF ReadEntry, Refuse
      <3>2. /\ NameLen \in Nat /\ DataLen \in Nat /\ e \in AnyEntry
            /\ ptr + 8 + NameLen + DataLen <= End
            /\ Len(Name) = NameLen /\ Len(Data) = DataLen
        BY <3>1, ReadEntryType DEF Typed, TypeOK
      <3>3. Size(e) = 8 + NameLen + DataLen
        BY <3>2 DEF Size
      <3>4. /\ IsFiniteSet(FileBytes) /\ ptr = 4 + Cardinality(FileBytes)
            /\ files \in Seq(AnyEntry)
        BY <3>1 DEF AccountInv, Accounted, Typed, TypeOK, AnyEntry
      <3> HIDE DEF e
      <3>5. IsFiniteSet(FileBytes') /\ Cardinality(FileBytes') = Cardinality(FileBytes) + Size(e)
        BY <3>1, <3>2, <3>4, BytesAppended
      <3>6. Cardinality(FileBytes) \in Nat
        BY <3>4, FS_CardinalityType
      <3>7. ptr' = 4 + Cardinality(FileBytes') /\ ptr' <= End
        BY <3>1, <3>2, <3>3, <3>4, <3>5, <3>6
      <3> QED BY <3>1, <3>5, <3>7 DEF AccountInv, Accounted, End
    <2> QED BY <2>1, <2>2
  <1>4. CASE UNCHANGED vars
    BY <1>4 DEF vars, AccountInv, Accounted, FileBytes, End
  <1> QED BY <1>1, <1>2, <1>3, <1>4 DEF Next

\* The read position stays inside the buffer, whatever lengths a bundle states,
\* and is the sum of what was read: no byte is skipped or read twice.
THEOREM BytesAccounted == Spec => []Accounted
  <1>1. Init => AccountInv
    BY DEF Init, AccountInv, Accounted
  <1>2. AccountInv /\ Typed /\ Reading /\ [Next]_vars => AccountInv'
    BY AccountNext
  <1>3. AccountInv => Accounted
    BY DEF AccountInv
  <1> QED BY <1>1, <1>2, <1>3, Invariance, PTL DEF Spec

-----------------------------------------------------------------------------
(* The order of paths *)

\* A set of numbers has a least one: what an induction starts from.
LEMMA LeastNumber ==
  ASSUME NEW T \in SUBSET Nat, T # {}
  PROVE  \E m \in T : \A k \in T : m <= k
  <1> DEFINE R == {ss \in Nat \X Nat : ss[1] < ss[2]}
  <1>1. IsWellFoundedOn(R, Nat)
    BY NatLessThanWellFounded DEF OpToRel
  <1>2. \A k, m \in Nat : k < m => <<k, m>> \in R
    OBVIOUS
  <1> HIDE DEF R
  <1>3. PICK m \in T : \A k \in T : ~(<<k, m>> \in R)
    BY <1>1, WFMin
  <1>4. m \in Nat /\ \A k \in T : k \in Nat /\ ~(k < m)
    BY <1>2, <1>3
  <1> QED BY <1>3, <1>4

\* strcmp is a strict order of all paths: p is smaller at i, or q goes on where
\* p ends.
Smaller(p, q, i) ==
  /\ i \in 1 .. Len(p) /\ i \in 1 .. Len(q) /\ p[i] < q[i]
  /\ \A j \in 1 .. i - 1 : p[j] = q[j]
Begins(p, q) == Len(p) < Len(q) /\ \A i \in 1 .. Len(p) : p[i] = q[i]

LEMMA BeforeCases ==
  ASSUME NEW p \in Seq(Byte), NEW q \in Seq(Byte)
  PROVE  Before(p, q) <=> Begins(p, q) \/ \E i \in Nat : Smaller(p, q, i)
  <1>1. Len(p) \in Nat /\ Len(q) \in Nat
    OBVIOUS
  <1>2. ASSUME NEW i \in 1 .. Len(p), i <= Len(q)
        PROVE  i \in Nat /\ i \in 1 .. Len(q)
    BY <1>1, <1>2
  <1>3. \A i \in 1 .. Len(q) : i <= Len(q)
    BY <1>1
  <1> QED BY <1>2, <1>3 DEF Before, Begins, Smaller

LEMMA BytesAreNumbers ==
  ASSUME NEW p \in Seq(Byte)
  PROVE  Len(p) \in Nat /\ \A i \in 1 .. Len(p) : p[i] \in Nat
  <1>1. Byte \subseteq Nat
    BY DEF Byte
  <1>2. Len(p) \in Nat /\ \A i \in 1 .. Len(p) : p[i] \in Byte
    OBVIOUS
  <1> QED BY <1>1, <1>2

LEMMA PathsAreBytes ==
  ASSUME NEW p \in Paths
  PROVE  p \in Seq(Byte)
  <1>1. p \in Seq(Byte \ {0})
    BY PathAssumption
  <1>2. Seq(Byte \ {0}) \subseteq Seq(Byte)
    OBVIOUS
  <1> QED BY <1>1, <1>2

LEMMA NotBeforeItself ==
  ASSUME NEW p \in Seq(Byte)
  PROVE  ~Before(p, p)
  BY BytesAreNumbers DEF Before

LEMMA BeforeTransitive ==
  ASSUME NEW p \in Seq(Byte), NEW q \in Seq(Byte), NEW r \in Seq(Byte),
         Before(p, q), Before(q, r)
  PROVE  Before(p, r)
  <1>0. /\ Len(p) \in Nat /\ Len(q) \in Nat /\ Len(r) \in Nat
        /\ \A i \in 1 .. Len(p) : p[i] \in Nat
        /\ \A i \in 1 .. Len(q) : q[i] \in Nat
        /\ \A i \in 1 .. Len(r) : r[i] \in Nat
    BY BytesAreNumbers
  <1>1. CASE Begins(p, q) /\ Begins(q, r)
    <2>1. Begins(p, r)
      BY <1>0, <1>1 DEF Begins
    <2> QED BY <2>1, BeforeCases
  <1>2. ASSUME Begins(p, q), NEW j \in Nat, Smaller(q, r, j)
        PROVE  Before(p, r)
    <2>1. CASE j <= Len(p)
      <3>1. Smaller(p, r, j)
        BY <1>0, <1>2, <2>1 DEF Begins, Smaller
      <3> QED BY <3>1, BeforeCases
    <2>2. CASE ~(j <= Len(p))
      <3>1. Begins(p, r)
        BY <1>0, <1>2, <2>2 DEF Begins, Smaller
      <3> QED BY <3>1, BeforeCases
    <2> QED BY <2>1, <2>2
  <1>3. ASSUME NEW i \in Nat, Smaller(p, q, i), Begins(q, r)
        PROVE  Before(p, r)
    <2>1. Smaller(p, r, i)
      BY <1>0, <1>3 DEF Begins, Smaller
    <2> QED BY <2>1, BeforeCases
  <1>4. ASSUME NEW i \in Nat, Smaller(p, q, i), NEW j \in Nat, Smaller(q, r, j)
        PROVE  Before(p, r)
    <2>1. CASE i <= j
      <3>1. Smaller(p, r, i)
        BY <1>0, <1>4, <2>1 DEF Smaller
      <3> QED BY <3>1, BeforeCases
    <2>2. CASE j < i
      <3>1. Smaller(p, r, j)
        BY <1>0, <1>4, <2>2 DEF Smaller
      <3> QED BY <3>1, BeforeCases
    <2> QED BY <2>1, <2>2
  <1> QED BY <1>1, <1>2, <1>3, <1>4, BeforeCases

LEMMA BeforeTotal ==
  ASSUME NEW p \in Seq(Byte), NEW q \in Seq(Byte), p # q
  PROVE  Before(p, q) \/ Before(q, p)
  <1> DEFINE D == {i \in 1 .. Len(p) : i <= Len(q) /\ p[i] # q[i]}
  <1>0. /\ Len(p) \in Nat /\ Len(q) \in Nat
        /\ \A i \in 1 .. Len(p) : p[i] \in Nat
        /\ \A i \in 1 .. Len(q) : q[i] \in Nat
    BY BytesAreNumbers
  <1>1. CASE D = {}
    <2>1. \A i \in 1 .. Len(p) : i <= Len(q) => p[i] = q[i]
      BY <1>1
    <2>2. Len(p) # Len(q)
      <3> SUFFICES ASSUME Len(p) = Len(q) PROVE FALSE
        OBVIOUS
      <3>1. \A i \in 1 .. Len(p) : p[i] = q[i]
        BY <1>0, <2>1
      <3> QED BY <3>1, SeqEqual
    <2>3. CASE Len(p) < Len(q)
      <3>1. Begins(p, q)
        BY <1>0, <2>1, <2>3 DEF Begins
      <3> QED BY <3>1, BeforeCases
    <2>4. CASE Len(q) < Len(p)
      <3>1. Begins(q, p)
        BY <1>0, <2>1, <2>4 DEF Begins
      <3> QED BY <3>1, BeforeCases
    <2> QED BY <1>0, <2>2, <2>3, <2>4
  <1>2. CASE D # {}
    <2>1. D \in SUBSET Nat
      BY <1>0
    <2>2. PICK m \in D : \A k \in D : m <= k
      BY <1>2, <2>1, LeastNumber
    <2>3. /\ m \in Nat /\ m \in 1 .. Len(p) /\ m \in 1 .. Len(q)
          /\ p[m] # q[m] /\ p[m] \in Nat /\ q[m] \in Nat
      BY <1>0
    <2>4. \A j \in 1 .. m - 1 : j \in 1 .. Len(p) /\ j <= Len(q) /\ ~(m <= j)
      BY <1>0, <2>3
    <2>5. \A j \in 1 .. m - 1 : p[j] = q[j]
      BY <2>2, <2>4
    <2> HIDE DEF D
    <2>6. CASE p[m] < q[m]
      <3>1. Smaller(p, q, m)
        BY <2>3, <2>5, <2>6 DEF Smaller
      <3> QED BY <2>3, <3>1, BeforeCases
    <2>7. CASE q[m] < p[m]
      <3>1. Smaller(q, p, m)
        BY <2>3, <2>5, <2>7 DEF Smaller
      <3> QED BY <2>3, <3>1, BeforeCases
    <2> QED BY <2>3, <2>6, <2>7
  <1> QED BY <1>1, <1>2
-----------------------------------------------------------------------------
(* The entries are the arguments to keep, each once *)

KeptOf(c, n) == {k \in 1 .. n : c[k] \notin SourceMaps}
Reached == IF phase = "add" THEN next ELSE Len(args)

\* Each entry comes from an argument of its own, each kept argument has one.
Gathered ==
  phase # "failed" =>
    \E f \in Bijection(1 .. Len(entries), KeptOf(args, Reached)) :
      \A i \in 1 .. Len(entries) : entries[i] = Entry(args[f[i]])

Ordered == phase \notin {"add", "failed"} => InOrder(entries)

LEMMA BijectionIs ==
  ASSUME NEW S, NEW U, NEW f
  PROVE  f \in Bijection(S, U) <=>
           /\ f \in [S -> U]
           /\ \A a, b \in S : f[a] = f[b] => a = b
           /\ \A u \in U : \E a \in S : f[a] = u
  BY DEF Bijection, Injection, Surjection, IsInjective

LEMMA GatheredInit == Init => Gathered /\ Ordered
  <1> SUFFICES ASSUME Init PROVE Gathered /\ Ordered
    OBVIOUS
  <1>1. phase = "add" /\ next = 0 /\ entries = <<>> /\ Len(entries) = 0
    BY DEF Init
  <1>2. 1 .. 0 = {} /\ KeptOf(args, 0) = {}
    BY DEF KeptOf
  <1> DEFINE f == [i \in {} |-> 0]
  <1>3. f \in Bijection({}, {})
    BY BijectionIs
  <1> QED BY <1>1, <1>2, <1>3 DEF Gathered, Ordered, Reached

\* One argument more, kept.
LEMMA GatheredMore ==
  ASSUME NEW c, NEW n \in Nat, NEW m \in Nat, NEW f \in Bijection(1 .. n, KeptOf(c, m)),
         c[m + 1] \notin SourceMaps
  PROVE  [i \in 1 .. n + 1 |-> IF i = n + 1 THEN m + 1 ELSE f[i]]
           \in Bijection(1 .. n + 1, KeptOf(c, m + 1))
  <1> DEFINE g == [i \in 1 .. n + 1 |-> IF i = n + 1 THEN m + 1 ELSE f[i]]
  <1>1. /\ f \in [1 .. n -> KeptOf(c, m)]
        /\ \A a, b \in 1 .. n : f[a] = f[b] => a = b
        /\ \A u \in KeptOf(c, m) : \E a \in 1 .. n : f[a] = u
    BY BijectionIs
  <1>2. KeptOf(c, m + 1) = KeptOf(c, m) \cup {m + 1} /\ m + 1 \notin KeptOf(c, m)
    BY DEF KeptOf
  <1>3. 1 .. n + 1 = (1 .. n) \cup {n + 1} /\ n + 1 \notin 1 .. n
    OBVIOUS
  <1>4. g[n + 1] = m + 1 /\ \A i \in 1 .. n : g[i] = f[i] /\ f[i] \in KeptOf(c, m)
    BY <1>1, <1>3
  <1>5. g \in [1 .. n + 1 -> KeptOf(c, m + 1)]
    BY <1>1, <1>2, <1>3
  <1> HIDE DEF g
  <1>6. \A a, b \in 1 .. n + 1 : g[a] = g[b] => a = b
    BY <1>1, <1>2, <1>3, <1>4
  <1>7. \A u \in KeptOf(c, m + 1) : \E a \in 1 .. n + 1 : g[a] = u
    BY <1>1, <1>2, <1>3, <1>4
  <1>8. g \in Bijection(1 .. n + 1, KeptOf(c, m + 1))
    BY <1>5, <1>6, <1>7, BijectionIs
  <1> QED BY <1>8 DEF g

\* An injection of 1 .. n into itself reaches everything.
LEMMA Permutes ==
  ASSUME NEW n \in Nat, NEW pi \in [1 .. n -> 1 .. n],
         \A i, j \in 1 .. n : pi[i] = pi[j] => i = j
  PROVE  \A k \in 1 .. n : \E i \in 1 .. n : pi[i] = k
  <1>1. pi \in Injection(1 .. n, 1 .. n)
    BY DEF Injection, IsInjective
  <1>2. IsFiniteSet(1 .. n)
    BY FS_Interval
  <1>3. pi \in Surjection(1 .. n, 1 .. n)
    BY <1>1, <1>2, FS_Injection
  <1> QED BY <1>3 DEF Surjection

LEMMA GatheredNext == Typed /\ Gathered /\ Ordered /\ [Next]_vars => Gathered' /\ Ordered'
  <1> SUFFICES ASSUME Typed, Gathered, Ordered, [Next]_vars
               PROVE  Gathered' /\ Ordered'
    OBVIOUS
  <1>0. /\ next \in Nat /\ Len(entries) \in Nat /\ entries \in Seq(EntrySet)
        /\ DOMAIN entries = 1 .. Len(entries)
    BY DEF Typed, TypeOK
  <1>1. CASE AddFile
    <2>1. CASE phase' = "failed"
      BY <2>1 DEF Gathered, Ordered
    <2>2. CASE phase' # "failed"
      <3> DEFINE n == Len(entries)
                 path == args[next + 1]
      <3>1. /\ phase = "add" /\ phase' = "add" /\ next' = next + 1 /\ args' = args
            /\ Skipped(path) => entries' = entries
            /\ ~Skipped(path) => entries' = Append(entries, Entry(path))
        BY <1>1, <2>2 DEF AddFile
      <3>2. PICK f \in Bijection(1 .. n, KeptOf(args, next)) :
                   \A i \in 1 .. n : entries[i] = Entry(args[f[i]])
        BY <3>1 DEF Gathered, Reached
      <3>3. Reached' = next + 1
        BY <3>1 DEF Reached
      <3>4. CASE Skipped(path)
        <4>1. KeptOf(args, next + 1) = KeptOf(args, next)
          BY <1>0, <3>4 DEF KeptOf, Skipped
        <4>2. f \in Bijection(1 .. Len(entries'), KeptOf(args', Reached'))
          BY <3>1, <3>2, <3>3, <3>4, <4>1
        <4>3. \A i \in 1 .. n : entries'[i] = Entry(args'[f[i]])
          BY <3>1, <3>2, <3>4
        <4>4. Len(entries') = n
          BY <3>1, <3>4
        <4> QED BY <3>1, <4>2, <4>3, <4>4 DEF Gathered, Ordered
      <3>5. CASE ~Skipped(path)
        <4> DEFINE g == [i \in 1 .. n + 1 |-> IF i = n + 1 THEN next + 1 ELSE f[i]]
        <4>1. g \in Bijection(1 .. n + 1, KeptOf(args, next + 1))
          BY <1>0, <3>2, <3>5, GatheredMore DEF Skipped
        <4>2. \A i \in 1 .. n : g[i] = f[i] /\ f[i] # next + 1
          <5>1. \A i \in 1 .. n : f[i] \in 1 .. next
            BY <3>2, BijectionIs DEF KeptOf
          <5>2. \A i \in 1 .. n : i # n + 1 /\ i \in 1 .. n + 1
            BY <1>0
          <5> QED BY <1>0, <5>1, <5>2
        <4>3. g[n + 1] = next + 1
          BY <1>0
        <4> HIDE DEF g
        <4>4. Entry(path) \in EntrySet
          <5>1. entries' \in Seq(EntrySet)
            BY TypedNext DEF Typed, TypeOK
          <5>2. entries' = Append(entries, Entry(path))
            BY <3>1, <3>5
          <5>3. Len(entries') = n + 1 /\ entries'[n + 1] = Entry(path)
            BY <1>0, <5>2
          <5> QED BY <1>0, <5>1, <5>3, ElementOfSeq
        <4>5. /\ Len(entries') = n + 1 /\ entries'[n + 1] = Entry(path)
              /\ \A i \in 1 .. n : entries'[i] = entries[i]
          BY <1>0, <3>1, <3>5, <4>4, Appended
        <4>6. \A i \in 1 .. n : entries'[i] = Entry(args'[g[i]])
          BY <3>1, <3>2, <4>2, <4>5
        <4>7. entries'[n + 1] = Entry(args'[g[n + 1]])
          BY <3>1, <4>3, <4>5
        <4>8. \A i \in 1 .. Len(entries') : entries'[i] = Entry(args'[g[i]])
          <5>1. \A i \in 1 .. n + 1 : i \in 1 .. n \/ i = n + 1
            BY <1>0
          <5> QED BY <4>5, <4>6, <4>7, <5>1
        <4>9. g \in Bijection(1 .. Len(entries'), KeptOf(args', Reached'))
          BY <3>1, <3>3, <4>1, <4>5
        <4> QED BY <3>1, <4>8, <4>9 DEF Gathered, Ordered
      <3> QED BY <3>4, <3>5
    <2> QED BY <2>1, <2>2
  <1>2. CASE Sort
    <2> DEFINE n == Len(entries)
    <2>1. /\ phase = "add" /\ phase' = "pack" /\ next = Len(args) /\ args' = args
          /\ InOrder(entries')
      BY <1>2 DEF Sort
    <2>2. PICK pi \in [1 .. n -> 1 .. n] :
                 /\ \A i, j \in 1 .. n : pi[i] = pi[j] => i = j
                 /\ entries' = [i \in 1 .. n |-> entries[pi[i]]]
      BY <1>0, <1>2 DEF Sort
    <2>3. PICK f \in Bijection(1 .. n, KeptOf(args, Len(args))) :
                 \A i \in 1 .. n : entries[i] = Entry(args[f[i]])
      BY <2>1 DEF Gathered, Reached
    <2>4. Len(entries') = n
      <3>1. entries' \in [1 .. n -> EntrySet]
        <4>1. \A i \in 1 .. n : entries[i] \in EntrySet
          BY <1>0, ElementOfSeq
        <4> QED BY <2>2, <4>1
      <3> QED BY <1>0, <3>1, IndexedSeq
    <2> DEFINE K == KeptOf(args, Len(args))
               g == [i \in 1 .. n |-> f[pi[i]]]
    <2>5. /\ f \in [1 .. n -> K]
          /\ \A a, b \in 1 .. n : f[a] = f[b] => a = b
          /\ \A u \in K : \E a \in 1 .. n : f[a] = u
      BY <2>3, BijectionIs
    <2>6. \A k \in 1 .. n : \E i \in 1 .. n : pi[i] = k
      BY <1>0, <2>2, Permutes
    <2>7. Reached' = Len(args)
      BY <2>1 DEF Reached
    <2> HIDE DEF K, n
    <2>8. g \in [1 .. n -> K]
      BY <2>2, <2>5
    <2>9. \A i \in 1 .. n : g[i] = f[pi[i]] /\ pi[i] \in 1 .. n
      BY <2>2
    <2> HIDE DEF g
    <2>10. g \in Bijection(1 .. n, K)
      <3>1. \A a, b \in 1 .. n : g[a] = g[b] => a = b
        BY <2>2, <2>5, <2>9
      <3>2. \A u \in K : \E a \in 1 .. n : g[a] = u
        <4> TAKE u \in K
        <4>1. PICK a \in 1 .. n : f[a] = u
          BY <2>5
        <4>2. PICK i \in 1 .. n : pi[i] = a
          BY <2>6
        <4>3. g[i] = u
          BY <2>9, <4>1, <4>2
        <4> QED BY <4>3
      <3> QED BY <2>8, <3>1, <3>2, BijectionIs
    <2>11. \A i \in 1 .. n : entries'[i] = Entry(args'[g[i]])
      <3>1. \A i \in 1 .. n : entries'[i] = entries[pi[i]]
        BY <2>2
      <3>2. \A i \in 1 .. n : entries[pi[i]] = Entry(args[f[pi[i]]])
        BY <2>3, <2>9 DEF n
      <3> QED BY <2>1, <2>9, <3>1, <3>2
    <2>12. g \in Bijection(1 .. n, KeptOf(args', Reached'))
      BY <2>1, <2>7, <2>10 DEF K
    <2>13. Len(entries') = n
      BY <2>4 DEF n
    <2> QED BY <2>1, <2>11, <2>12, <2>13 DEF Gathered, Ordered
  <1>3. ASSUME args' = args, entries' = entries,
               phase \in {"pack", "decompress", "count", "entries", "end"} =>
                 phase' \in {"pack", "decompress", "count", "entries", "end"},
               phase \in {"add", "failed"} => phase' = phase /\ next' = next
        PROVE  Gathered' /\ Ordered'
    <2>1. phase \in {"add", "failed", "pack", "decompress", "count", "entries", "end"}
      BY DEF Typed, TypeOK
    <2>2. Ordered'
      BY <1>3, <2>1 DEF Ordered
    <2>3. phase # "failed" => Reached' = Reached
      BY <1>3, <2>1 DEF Reached
    <2>4. phase' # "failed" => phase # "failed"
      BY <1>3
    <2> QED BY <1>3, <2>2, <2>3, <2>4 DEF Gathered
  <1>4. CASE PackCount \/ PackEntry
    BY <1>3, <1>4 DEF PackCount, PackEntry
  <1>5. CASE Embed \/ Decompress \/ ReadCount \/ ReadEntry \/ Commit
    BY <1>3, <1>5 DEF Embed, Decompress, ReadCount, ReadEntry, Commit, Refuse
  <1>6. CASE UNCHANGED vars
    BY <1>3, <1>6 DEF vars
  <1> QED BY <1>1, <1>2, <1>4, <1>5, <1>6 DEF Next
-----------------------------------------------------------------------------
(* The entry at each place is the one the count finds *)

\* What a bijection reaches is as much as where it is reached from.
LEMMA Counted ==
  ASSUME NEW S, NEW U, NEW f \in Bijection(S, U), IsFiniteSet(S), NEW X \in SUBSET U,
         NEW P, P = {a \in S : f[a] \in X}
  PROVE  Cardinality(X) = Cardinality(P)
  <1> DEFINE h == [a \in P |-> f[a]]
  <1>1. /\ f \in [S -> U]
        /\ \A a, b \in S : f[a] = f[b] => a = b
        /\ \A u \in U : \E a \in S : f[a] = u
    BY BijectionIs
  <1>2. P \in SUBSET S /\ IsFiniteSet(P)
    BY FS_Subset
  <1>3. h \in [P -> X] /\ \A a \in P : h[a] = f[a] /\ a \in S
    BY <1>1
  <1>4. \A u \in X : \E a \in P : f[a] = u
    BY <1>1
  <1> HIDE DEF h
  <1>5. h \in Bijection(P, X)
    <2>1. \A a, b \in P : h[a] = h[b] => a = b
      BY <1>1, <1>3
    <2>2. \A u \in X : \E a \in P : h[a] = u
      BY <1>3, <1>4
    <2> QED BY <1>3, <2>1, <2>2, BijectionIs
  <1>6. ExistsBijection(P, X)
    BY <1>5 DEF ExistsBijection
  <1> QED BY <1>2, <1>6, FS_Bijection

\* In a sorted sequence the smaller ones come first, the larger ones last.
LEMMA SortedPlace ==
  ASSUME NEW n \in Nat, NEW q \in [1 .. n -> Paths], NEW r \in 1 .. n,
         \A i, j \in 1 .. n : Before(q[i], q[j]) => i < j
  PROVE  /\ Cardinality({i \in 1 .. n : Before(q[i], q[r])}) < r
         /\ r <= Cardinality({i \in 1 .. n : ~Before(q[r], q[i])})
  <1> DEFINE L == {i \in 1 .. n : Before(q[i], q[r])}
             M == {i \in 1 .. n : ~Before(q[r], q[i])}
  <1>1. L \in SUBSET (1 .. r - 1)
    OBVIOUS
  <1>2. IsFiniteSet(1 .. r - 1) /\ Cardinality(1 .. r - 1) = r - 1
    BY FS_Interval
  <1>3. 1 .. r \in SUBSET M
    OBVIOUS
  <1>4. IsFiniteSet(M) /\ M \in SUBSET (1 .. n)
    BY FS_Interval, FS_Subset
  <1>5. Cardinality(1 .. r) = r /\ IsFiniteSet(1 .. r)
    BY FS_Interval
  <1> DEFINE R == 1 .. r - 1
  <1> HIDE DEF L, M, R
  <1>6. Cardinality(L) <= r - 1 /\ IsFiniteSet(L)
    <2>1. L \in SUBSET R /\ IsFiniteSet(R) /\ Cardinality(R) = r - 1
      BY <1>1, <1>2 DEF R
    <2>2. Cardinality(L) <= Cardinality(R) /\ IsFiniteSet(L)
      BY <2>1, FS_Subset
    <2> QED BY <2>1, <2>2
  <1>7. r <= Cardinality(M)
    BY <1>3, <1>4, <1>5, FS_Subset
  <1>8. Cardinality(L) \in Nat
    BY <1>6, FS_CardinalityType
  <1> QED BY <1>6, <1>7, <1>8 DEF L, M

\* Whatever is not larger than p is smaller than what p is smaller than.
LEMMA PlacesApart ==
  ASSUME NEW c, NEW K, IsFiniteSet(K), \A k \in K : c[k] \in Paths,
         NEW p \in Paths, NEW q \in Paths, Before(p, q)
  PROVE  Cardinality({k \in K : ~Before(p, c[k])}) <= Cardinality({k \in K : Before(c[k], q)})
  <1> DEFINE M == {k \in K : ~Before(p, c[k])}
             L == {k \in K : Before(c[k], q)}
  <1>1. \A x \in Paths : x \in Seq(Byte)
    BY PathsAreBytes
  <1>2. M \in SUBSET L
    BY <1>1, BeforeTotal, BeforeTransitive
  <1>3. IsFiniteSet(L)
    BY FS_Subset
  <1> HIDE DEF M, L
  <1>4. Cardinality(M) <= Cardinality(L)
    BY <1>2, <1>3, FS_Subset
  <1> QED BY <1>4 DEF M, L

\* Once sorted, the r-th entry is that of the r-th kept path.
LEMMA RankedIs ==
  ASSUME Typed, Gathered, Ordered, phase \notin {"add", "failed"}
  PROVE  /\ Cardinality(Kept) = Len(entries)
         /\ \A r \in 1 .. Len(entries) : Entry(Ranked(r)) = entries[r]
  <1> DEFINE n == Len(entries)
  <1>0. n \in Nat /\ DOMAIN entries = 1 .. n /\ InOrder(entries)
    BY DEF Typed, TypeOK, Ordered
  <1>1. args \in Seq(Paths) /\ DOMAIN args = 1 .. Len(args) /\ Len(args) \in Nat
    BY CommandLineAssumption DEF Typed, TypeOK
  <1>2. KeptOf(args, Reached) = Kept
    BY <1>1 DEF KeptOf, Reached, Kept
  <1>3. PICK f \in Bijection(1 .. n, Kept) :
               \A i \in 1 .. n : entries[i] = Entry(args[f[i]])
    BY <1>2 DEF Gathered
  <1> HIDE DEF n
  <1>4. IsFiniteSet(1 .. n) /\ Cardinality(1 .. n) = n
    BY <1>0, FS_Interval
  <1>5. IsFiniteSet(Kept) /\ Cardinality(Kept) = n
    <2>1. ExistsBijection(1 .. n, Kept)
      BY <1>3 DEF ExistsBijection
    <2> QED BY <1>4, <2>1, FS_Bijection
  <1>6. \A k \in Kept : args[k] \in Paths
    BY <1>1, ElementOfSeq DEF Kept
  <1> DEFINE q == [i \in 1 .. n |-> args[f[i]]]
  <1>7. f \in [1 .. n -> Kept]
    BY <1>3, BijectionIs
  <1>8. q \in [1 .. n -> Paths] /\ \A i \in 1 .. n : q[i] = args[f[i]]
    BY <1>6, <1>7
  <1>9. \A i \in 1 .. n : entries[i] = Entry(q[i]) /\ entries[i].path = q[i]
    BY <1>3, <1>8 DEF Entry
  <1>10. \A i, j \in 1 .. n : Before(q[i], q[j]) => i < j
    BY <1>0, <1>9 DEF InOrder
  <1> HIDE DEF q
  <1>11. ASSUME NEW r \in 1 .. n PROVE Ranked(r) = q[r]
    <2> DEFINE L(p) == {k \in Kept : Before(args[k], p)}
               M(p) == {k \in Kept : ~Before(p, args[k])}
               Here(p) == Cardinality(L(p)) < r /\ r <= Cardinality(M(p))
    <2>1. q[r] \in Paths
      BY <1>8
    <2>2. Cardinality(L(q[r])) = Cardinality({i \in 1 .. n : Before(q[i], q[r])})
      <3>1. Cardinality(L(q[r])) = Cardinality({i \in 1 .. n : f[i] \in L(q[r])})
        <4> DEFINE X == L(q[r])
                   D == 1 .. n
                   P == {i \in D : f[i] \in X}
        <4>1. X \in SUBSET Kept
          OBVIOUS
        <4>2. f \in Bijection(D, Kept) /\ IsFiniteSet(D)
          BY <1>3, <1>4
        <4> HIDE DEF X, D
        <4>3. P = {a \in D : f[a] \in X}
          OBVIOUS
        <4> HIDE DEF P
        <4>4. Cardinality(X) = Cardinality(P)
          BY <4>1, <4>2, <4>3, Counted
        <4> QED BY <4>4 DEF X, P, D
      <3>2. {i \in 1 .. n : f[i] \in L(q[r])} = {i \in 1 .. n : Before(q[i], q[r])}
        BY <1>7, <1>8
      <3> QED BY <3>1, <3>2
    <2>3. Cardinality(M(q[r])) = Cardinality({i \in 1 .. n : ~Before(q[r], q[i])})
      <3>1. Cardinality(M(q[r])) = Cardinality({i \in 1 .. n : f[i] \in M(q[r])})
        <4> DEFINE X == M(q[r])
                   D == 1 .. n
                   P == {i \in D : f[i] \in X}
        <4>1. X \in SUBSET Kept
          OBVIOUS
        <4>2. f \in Bijection(D, Kept) /\ IsFiniteSet(D)
          BY <1>3, <1>4
        <4> HIDE DEF X, D
        <4>3. P = {a \in D : f[a] \in X}
          OBVIOUS
        <4> HIDE DEF P
        <4>4. Cardinality(X) = Cardinality(P)
          BY <4>1, <4>2, <4>3, Counted
        <4> QED BY <4>4 DEF X, P, D
      <3>2. {i \in 1 .. n : f[i] \in M(q[r])} = {i \in 1 .. n : ~Before(q[r], q[i])}
        BY <1>7, <1>8
      <3> QED BY <3>1, <3>2
    <2>4. /\ Cardinality({i \in 1 .. n : Before(q[i], q[r])}) < r
          /\ r <= Cardinality({i \in 1 .. n : ~Before(q[r], q[i])})
      BY <1>0, <1>8, <1>10, SortedPlace
    <2>5. Here(q[r])
      BY <2>2, <2>3, <2>4
    <2>6. ASSUME NEW p \in Paths, Here(p), NEW o \in Paths, Here(o)
          PROVE  ~Before(p, o)
      <3> SUFFICES ASSUME Before(p, o) PROVE FALSE
        OBVIOUS
      <3>1. Cardinality(M(p)) <= Cardinality(L(o))
        BY <1>5, <1>6, PlacesApart
      <3>2. IsFiniteSet(M(p)) /\ IsFiniteSet(L(o))
        BY <1>5, FS_Subset
      <3>3. Cardinality(M(p)) \in Nat /\ Cardinality(L(o)) \in Nat
        BY <3>2, FS_CardinalityType
      <3>4. Cardinality(L(o)) < r /\ r <= Cardinality(M(p)) /\ r \in Nat
        BY <1>0, <2>6
      <3> HIDE DEF L, M
      <3> QED BY <3>1, <3>3, <3>4
    <2>7. Ranked(r) = CHOOSE p \in Paths : Here(p)
      BY DEF Ranked
    <2> HIDE DEF Here
    <2>8. Ranked(r) \in Paths /\ Here(Ranked(r))
      BY <2>1, <2>5, <2>7
    <2>9. ~Before(q[r], Ranked(r)) /\ ~Before(Ranked(r), q[r])
      BY <2>1, <2>5, <2>6, <2>8
    <2> QED BY <2>1, <2>8, <2>9, PathsAreBytes, BeforeTotal
  <1> QED BY <1>5, <1>9, <1>11 DEF n
-----------------------------------------------------------------------------
(* The packed bytes are the canonical ones *)

LEMMA PrefixGrows ==
  ASSUME NEW b \in Seq(Byte), NEW p \in Nat, NEW w \in Seq(Byte), At(b, p, w)
  PROVE  /\ SubSeq(b, 1, p + Len(w)) = SubSeq(b, 1, p) \o w
         /\ SubSeq(b, 1, p) \in Seq(Byte)
  <1> DEFINE m == Len(w)
             u == SubSeq(b, 1, p)
             v == SubSeq(b, 1, p + m)
  <1>1. /\ m \in Nat /\ Len(b) \in Nat /\ p + m <= Len(b)
        /\ \A i \in 1 .. m : b[p + i] = w[i]
    BY DEF At
  <1>2. \A n \in 0 .. Len(b) : /\ SubSeq(b, 1, n) \in Seq(Byte) /\ Len(SubSeq(b, 1, n)) = n
                              /\ \A i \in 1 .. n : SubSeq(b, 1, n)[i] = b[i]
    <2> TAKE n \in 0 .. Len(b)
    <2> DEFINE t == SubSeq(b, 1, n)
    <2>1. n \in Nat /\ \A i \in 1 .. n : b[i] \in Byte
      BY <1>1, ElementOfSeq
    <2>2. /\ t \in Seq(Byte) /\ Len(t) = IF 1 <= n THEN n - 1 + 1 ELSE 0
          /\ \A i \in 1 .. n - 1 + 1 : t[i] = b[1 + i - 1]
      BY <2>1, SubSeqProperties
    <2> HIDE DEF t
    <2>3. Len(t) = n /\ \A i \in 1 .. n : t[i] = b[i]
      BY <2>1, <2>2
    <2> QED BY <2>2, <2>3 DEF t
  <1>3. p \in 0 .. Len(b) /\ p + m \in 0 .. Len(b)
    BY <1>1
  <1>4. /\ u \in Seq(Byte) /\ Len(u) = p /\ \A i \in 1 .. p : u[i] = b[i]
        /\ v \in Seq(Byte) /\ Len(v) = p + m /\ \A i \in 1 .. p + m : v[i] = b[i]
    BY <1>2, <1>3
  <1> HIDE DEF u, v
  <1> DEFINE x == u \o w
  <1>5. /\ x \in Seq(Byte) /\ Len(x) = p + m
        /\ \A i \in 1 .. p + m : x[i] = IF i <= p THEN u[i] ELSE w[i - p]
    BY <1>4, ConcatProperties
  <1> HIDE DEF x, m
  <1>6. \A i \in 1 .. p + m : v[i] = x[i]
    <2> TAKE i \in 1 .. p + m
    <2>1. CASE i <= p
      <3>1. i \in 1 .. p
        BY <1>1, <2>1
      <3> QED BY <1>4, <1>5, <2>1, <3>1
    <2>2. CASE ~(i <= p)
      <3>1. i - p \in 1 .. m /\ p + (i - p) = i
        BY <1>1, <2>2
      <3>2. b[i] = w[i - p]
        BY <1>1, <3>1
      <3> QED BY <1>4, <1>5, <2>2, <3>2
    <2> QED BY <2>1, <2>2
  <1>7. v = x
    <2>1. x \in Seq(Byte) /\ Len(x) = Len(v) /\ \A i \in 1 .. Len(v) : v[i] = x[i]
      BY <1>4, <1>5, <1>6
    <2> QED BY <1>4, <2>1, SeqEqual
  <1> QED BY <1>4, <1>7 DEF u, v, x, m

LEMMA EntryPrefix ==
  ASSUME NEW b \in Seq(Byte), NEW p \in Nat, NEW e, Packable(e), EntryAt(b, p, e)
  PROVE  SubSeq(b, 1, p + Size(e)) = SubSeq(b, 1, p) \o Encode(e)
  <1> DEFINE u == SubSeq(b, 1, p)
             w == Word(Len(e.path))
             x == Word(Len(e.data))
             k == Len(e.path)
             l == Len(e.data)
  <1>1. /\ e.path \in Seq(Byte) /\ e.data \in Seq(Byte) /\ k \in Nat /\ l \in Nat
        /\ w \in Seq(Byte) /\ Len(w) = 4 /\ x \in Seq(Byte) /\ Len(x) = 4
    BY WordType DEF Packable, AnyEntry
  <1>2. At(b, p, w) /\ At(b, p + 4, e.path) /\ At(b, p + 4 + k, x) /\ At(b, p + 8 + k, e.data)
    BY DEF EntryAt
  <1>3. Size(e) = 8 + k + l
    BY DEF Size
  <1>4. Encode(e) = w \o e.path \o x \o e.data
    BY DEF Encode
  <1> HIDE DEF u, w, x, k, l
  <1>5. u \in Seq(Byte) /\ SubSeq(b, 1, p + 4) = u \o w
    <2>1. /\ SubSeq(b, 1, p + Len(w)) = SubSeq(b, 1, p) \o w
          /\ SubSeq(b, 1, p) \in Seq(Byte)
      BY <1>1, <1>2, PrefixGrows
    <2> QED BY <1>1, <2>1 DEF u
  <1>6. SubSeq(b, 1, p + 4 + k) = SubSeq(b, 1, p + 4) \o e.path
    <2>1. p + 4 \in Nat
      OBVIOUS
    <2> QED BY <1>1, <1>2, <2>1, PrefixGrows DEF k
  <1>7. SubSeq(b, 1, p + 4 + k + 4) = SubSeq(b, 1, p + 4 + k) \o x
    <2>1. p + 4 + k \in Nat
      BY <1>1
    <2>2. SubSeq(b, 1, p + 4 + k + Len(x)) = SubSeq(b, 1, p + 4 + k) \o x
      BY <1>1, <1>2, <2>1, PrefixGrows
    <2> QED BY <1>1, <2>2
  <1>8. SubSeq(b, 1, p + 8 + k + l) = SubSeq(b, 1, p + 8 + k) \o e.data
    <2>1. p + 8 + k \in Nat
      BY <1>1
    <2> QED BY <1>1, <1>2, <2>1, PrefixGrows DEF l
  <1>9. p + 4 + k + 4 = p + 8 + k /\ p + Size(e) = p + 8 + k + l
    BY <1>1, <1>3
  <1>10. SubSeq(b, 1, p + Size(e)) = u \o w \o e.path \o x \o e.data
    BY <1>5, <1>6, <1>7, <1>8, <1>9
  <1>11. u \o w \o e.path \o x \o e.data = u \o (w \o e.path \o x \o e.data)
    <2>1. \A c \in Seq(Byte), d \in Seq(Byte) :
            Cat(u, Cat(Cat(Cat(w, c), x), d)) = Cat(Cat(Cat(Cat(u, w), c), x), d)
      BY <1>1, <1>5, JoinedFourTimes
    <2>2. Cat(u, Cat(Cat(Cat(w, e.path), x), e.data))
            = Cat(Cat(Cat(Cat(u, w), e.path), x), e.data)
      BY <1>1, <2>1
    <2> QED BY <2>2, Zenon DEF Cat
  <1> QED BY <1>4, <1>10, <1>11 DEF u

\* There is one way to put the entries one after the other.
LEMMA CanonicalIs ==
  ASSUME Cardinality(Kept) \in Nat, NEW g,
         \A n \in 0 .. Cardinality(Kept) :
           g[n] = IF n = 0 THEN Word(Cardinality(Kept))
                  ELSE g[n - 1] \o Encode(Entry(Ranked(n))),
         g = [n \in 0 .. Cardinality(Kept) |-> g[n]]
  PROVE  Canonical = g[Cardinality(Kept)]
  <1> DEFINE c == Cardinality(Kept)
             w == CHOOSE f : f = [n \in 0 .. c |->
                    IF n = 0 THEN Word(c) ELSE f[n - 1] \o Encode(Entry(Ranked(n)))]
  <1>1. g = [n \in 0 .. c |->
               IF n = 0 THEN Word(c) ELSE g[n - 1] \o Encode(Entry(Ranked(n)))]
    OBVIOUS
  <1>2. w = [n \in 0 .. c |->
               IF n = 0 THEN Word(c) ELSE w[n - 1] \o Encode(Entry(Ranked(n)))]
    BY <1>1
  <1>3. Canonical = w[c]
    BY DEF Canonical
  <1>4. c \in Nat /\ \A n \in 0 .. c :
          g[n] = IF n = 0 THEN Word(c) ELSE g[n - 1] \o Encode(Entry(Ranked(n)))
    OBVIOUS
  <1> HIDE DEF w, c
  <1>5. \A n \in 0 .. c :
          w[n] = IF n = 0 THEN Word(c) ELSE w[n - 1] \o Encode(Entry(Ranked(n)))
    BY <1>2
  <1>6. \A n \in 0 .. c : w[n] = g[n]
    <2> DEFINE T == {n \in 0 .. c : w[n] # g[n]}
    <2> SUFFICES ASSUME T # {} PROVE FALSE
      OBVIOUS
    <2>1. PICK m \in T : \A k \in T : m <= k
      <3>1. T \in SUBSET Nat
        BY <1>4
      <3> QED BY <3>1, LeastNumber
    <2>2. m \in 0 .. c /\ w[m] # g[m]
      OBVIOUS
    <2>3. w[0] = g[0]
      <3>1. 0 \in 0 .. c
        BY <1>4
      <3> QED BY <1>4, <1>5, <3>1
    <2> HIDE DEF T
    <2>4. m \in 1 .. c
      BY <1>4, <2>2, <2>3
    <2>5. m - 1 \in 0 .. c /\ ~(m <= m - 1)
      BY <1>4, <2>4
    <2>6. m - 1 \notin T
      BY <2>1, <2>5
    <2>7. w[m - 1] = g[m - 1]
      BY <2>5, <2>6 DEF T
    <2>8. /\ w[m] = w[m - 1] \o Encode(Entry(Ranked(m)))
          /\ g[m] = g[m - 1] \o Encode(Entry(Ranked(m)))
      <3>1. m # 0
        BY <1>4, <2>4
      <3> QED BY <1>4, <1>5, <2>2, <3>1
    <2> QED BY <2>2, <2>7, <2>8
  <1> QED BY <1>3, <1>4, <1>6 DEF c
\* The packer's own pieces, entry after entry, are the canonical ones.
LEMMA PackedIsCanonical ==
  ASSUME Typed, Layout, Gathered, Ordered, phase \notin {"add", "failed", "pack"}
  PROVE  packed = Canonical
  <1> DEFINE n == Len(entries)
             g == [k \in 0 .. n |-> SubSeq(packed, 1, Boundary(k))]
  <1>1. /\ n \in Nat /\ IsWord(n) /\ packed \in Seq(Byte) /\ offsets \in Seq(Nat)
        /\ \A k \in 1 .. n : Packable(entries[k])
    <2>1. /\ n \in Nat /\ n <= Len(args) /\ IsWord(Len(args))
          /\ packed \in Seq(Byte) /\ offsets \in Seq(Nat)
          /\ \A k \in 1 .. n : Packable(entries[k])
      BY CommandLineAssumption DEF Typed, TypeOK, Collected
    <2> HIDE DEF n
    <2> QED BY <2>1, SmallerWord
  <1>2. /\ packed # <<>> /\ Len(offsets) = n /\ Boundary(0) = 4
        /\ At(packed, 0, Word(n)) /\ \A k \in 1 .. n : EntryPacked(k)
    BY DEF Layout
  <1>3. Cardinality(Kept) = n /\ \A k \in 1 .. n : Entry(Ranked(k)) = entries[k]
    BY RankedIs
  <1> HIDE DEF n
  <1>4. \A k \in 0 .. n : g[k] = SubSeq(packed, 1, Boundary(k))
    OBVIOUS
  <1>5. g = [k \in 0 .. n |-> g[k]]
    OBVIOUS
  <1> HIDE DEF g
  <1>6. g[0] = Word(n)
    <2> DEFINE w == Word(n)
    <2>1. w \in Seq(Byte) /\ Len(w) = 4
      BY <1>1, WordType
    <2>0. At(packed, 0, w)
      BY <1>2
    <2> HIDE DEF w
    <2>2. SubSeq(packed, 1, 0 + Len(w)) = SubSeq(packed, 1, 0) \o w
      <3>1. 0 \in Nat
        OBVIOUS
      <3> QED BY <1>1, <2>0, <2>1, <3>1, PrefixGrows
    <2>3. SubSeq(packed, 1, 0) = <<>>
      BY SubSeqEmpty
    <2>4. <<>> \o w = w
      BY <2>1, ConcatEmptySeq
    <2>5. 0 \in 0 .. n /\ 0 + Len(w) = 4
      BY <1>1, <2>1
    <2>6. g[0] = SubSeq(packed, 1, 4)
      BY <1>2, <1>4, <2>5
    <2>7. SubSeq(packed, 1, 4) = w
      BY <2>2, <2>3, <2>4, <2>5
    <2> QED BY <2>6, <2>7 DEF w
  <1>7. ASSUME NEW k \in 1 .. n
        PROVE  g[k] = g[k - 1] \o Encode(entries[k])
    <2>1. k - 1 \in 0 .. n /\ k \in 0 .. n /\ k - 1 < Len(offsets) /\ k - 1 + 1 = k
      BY <1>1, <1>2
    <2>2. Boundary(k - 1) = offsets[k] /\ offsets[k] \in Nat
      <3>1. k \in 1 .. Len(offsets)
        BY <1>2
      <3> QED BY <1>1, <2>1, <3>1, ElementOfSeq DEF Boundary
    <2>3. EntryAt(packed, offsets[k], entries[k]) /\ Boundary(k) = offsets[k] + Size(entries[k])
      BY <1>2 DEF EntryPacked
    <2>4. SubSeq(packed, 1, offsets[k] + Size(entries[k]))
            = SubSeq(packed, 1, offsets[k]) \o Encode(entries[k])
      BY <1>1, <2>2, <2>3, EntryPrefix
    <2> QED BY <1>4, <2>1, <2>2, <2>3, <2>4
  <1>8. \A k \in 0 .. n : g[k] = IF k = 0 THEN Word(n)
                                 ELSE g[k - 1] \o Encode(Entry(Ranked(k)))
    <2> TAKE k \in 0 .. n
    <2>1. k = 0 \/ k \in 1 .. n
      BY <1>1
    <2>2. CASE k = 0
      BY <1>6, <2>2
    <2>3. CASE k \in 1 .. n
      <3>1. k # 0
        BY <1>1, <2>3
      <3> QED BY <1>3, <1>7, <2>3, <3>1
    <2> QED BY <2>1, <2>2, <2>3
  <1>9. Canonical = g[n]
    BY <1>1, <1>3, <1>5, <1>8, CanonicalIs
  <1>10. g[n] = packed
    <2>1. n \in 0 .. n /\ Boundary(n) = Len(packed)
      BY <1>1, <1>2 DEF Boundary
    <2>2. SubSeq(packed, 1, Len(packed)) = packed
      BY <1>1, SubSeqFull
    <2> QED BY <1>4, <2>1, <2>2
  <1> QED BY <1>9, <1>10

\* The packed bytes depend on the files alone ("Sort entries for deterministic
\* output"): they are those a count of smaller paths gives, whatever the order
\* of the arguments and whatever qsort does with equal ones.
THEOREM PackingIsDeterministic == Spec => []Deterministic
  <1>1. Init => Gathered /\ Ordered
    BY GatheredInit
  <1>2. Typed /\ Gathered /\ Ordered /\ [Next]_vars => Gathered' /\ Ordered'
    BY GatheredNext
  <1>3. Typed /\ Layout /\ Gathered /\ Ordered => Deterministic
    BY PackedIsCanonical DEF Deterministic
  <1> QED BY <1>1, <1>2, <1>3, Invariance, PTL DEF Spec

=============================================================================
