------------------------------ MODULE FilesProofs ------------------------------
(***************************************************************************)
(* Proofs about Files for any sub files, pieces, chunks and faults, and     *)
(* about the parts around it: the window's icon, the listening port, and   *)
(* the links with any peers.                                               *)
(***************************************************************************)
EXTENDS ClientParts, FiniteSetTheorems, NatInduction, TLAPS

-----------------------------------------------------------------------------
(* Bytes, pieces and sub files.                                            *)

Bytes(x, y) == x..y - 1
bytes_of(a, x, y) == {k \in Bytes(x, y) : k \div PieceBytes = a}
count == (Size + PieceBytes - 1) \div PieceBytes

\* Multiplying keeps the order.
LEMMA Times == ASSUME NEW m \in Nat, NEW n \in Nat, m <= n, NEW p \in Nat PROVE m * p <= n * p
<1>1. (n - m) * p >= 0 OBVIOUS
<1>2. n * p = m * p + (n - m) * p OBVIOUS
<1> QED BY <1>1, <1>2

\* A byte lies between the beginning of the piece its quotient names and the next.
LEMMA Divided ==
  ASSUME NEW k \in Nat
  PROVE  /\ k \div PieceBytes \in Nat /\ (k \div PieceBytes) * PieceBytes \in Nat
         /\ (k \div PieceBytes) * PieceBytes <= k
         /\ k < (k \div PieceBytes) * PieceBytes + PieceBytes
BY FilesAssumption

\* ... and in no other.
LEMMA InPiece ==
  ASSUME NEW k \in Nat, NEW a \in Nat
  PROVE  /\ a * PieceBytes \in Nat
         /\ k \div PieceBytes = a <=> a * PieceBytes <= k /\ k < a * PieceBytes + PieceBytes
<1> DEFINE q == k \div PieceBytes
<1>1. q \in Nat /\ q * PieceBytes \in Nat /\ q * PieceBytes <= k /\ k < q * PieceBytes + PieceBytes BY Divided
<1>2. PieceBytes \in Nat /\ a * PieceBytes \in Nat /\ (a + 1) * PieceBytes = a * PieceBytes + PieceBytes
      /\ (q + 1) * PieceBytes = q * PieceBytes + PieceBytes
  BY <1>1, FilesAssumption
<1> HIDE DEF q
<1>3. CASE a < q
  <2>1. (a + 1) * PieceBytes <= q * PieceBytes BY <1>1, <1>2, <1>3, Times
  <2> QED BY <2>1, <1>1, <1>2, <1>3 DEF q
<1>4. CASE q < a
  <2>1. (q + 1) * PieceBytes <= a * PieceBytes BY <1>1, <1>2, <1>4, Times
  <2> QED BY <2>1, <1>1, <1>2, <1>4 DEF q
<1>5. CASE q = a BY <1>5, <1>1, <1>2 DEF q
<1> QED BY <1>1, <1>3, <1>4, <1>5

\* Where the sub files begin and end.
LEMMA Ends ==
  /\ Size \in Nat
  /\ \A i \in Sub : /\ Offsets[i] \in Nat /\ Offsets[i + 1] \in Nat /\ length(i) \in Nat
                    /\ Offsets[i] <= Offsets[i + 1] /\ Offsets[i + 1] <= Size
<1>1. Len(Offsets) \in Nat /\ DOMAIN Offsets = 1..Len(Offsets) /\ Len(Offsets) \in 1..Len(Offsets)
  BY FilesAssumption
<1>2. \A i \in 1..Len(Offsets) : Offsets[i] \in Nat BY <1>1, FilesAssumption
<1>3. \A i \in Sub : i \in 1..Len(Offsets) /\ i + 1 \in 1..Len(Offsets) /\ i <= i + 1 /\ i + 1 <= Len(Offsets)
  BY <1>1 DEF Sub
<1>4. \A i \in Sub : Offsets[i] <= Offsets[i + 1] /\ Offsets[i + 1] <= Size
  BY <1>1, <1>3, FilesAssumption DEF Size
<1> QED BY <1>1, <1>2, <1>3, <1>4 DEF Size, length

\* The pieces are numbered from 0, and a number is of a piece if it begins inside the torrent.
LEMMA Counted ==
  /\ count \in Nat /\ Pieces = 0..count - 1
  /\ \A a \in Nat : a \in Pieces <=> a * PieceBytes < Size
<1>1. Size \in Nat BY Ends
<1> DEFINE n == Size + PieceBytes - 1
<1>2. n \in Nat /\ PieceBytes \in Nat \ {0} BY <1>1, FilesAssumption
<1>3. count \in Nat /\ count * PieceBytes \in Nat /\ count * PieceBytes <= n
      /\ n < count * PieceBytes + PieceBytes
  BY <1>2, Divided DEF count
<1>4. Pieces = 0..count - 1 BY DEF Pieces, count
<1>5. ASSUME NEW a \in Nat PROVE a \in Pieces <=> a * PieceBytes < Size
  <2>1. a * PieceBytes \in Nat /\ (a + 1) * PieceBytes = a * PieceBytes + PieceBytes BY <1>2
  <2>2. CASE a < count
    <3>1. (a + 1) * PieceBytes <= count * PieceBytes BY <1>2, <1>3, <2>2, Times
    <3> QED BY <3>1, <2>1, <2>2, <1>1, <1>2, <1>3, <1>4
  <2>3. CASE count <= a
    <3>1. count * PieceBytes <= a * PieceBytes BY <1>2, <1>3, <2>3, Times
    <3> QED BY <3>1, <2>1, <2>3, <1>1, <1>2, <1>3, <1>4
  <2> QED BY <2>2, <2>3, <1>3
<1> QED BY <1>3, <1>4, <1>5

\* A piece begins inside the torrent, ends inside it, and is not empty.
LEMMA PieceEnds ==
  ASSUME NEW a \in Pieces
  PROVE  /\ a \in Nat /\ a * PieceBytes \in Nat /\ piece_size(a) \in Nat \ {0}
         /\ a * PieceBytes + piece_size(a) <= Size
         /\ \A k \in 0..Size - 1 :
              k \div PieceBytes = a <=> a * PieceBytes <= k /\ k < a * PieceBytes + piece_size(a)
<1>1. a \in Nat /\ a * PieceBytes < Size /\ Size \in Nat /\ PieceBytes \in Nat \ {0}
  BY Counted, Ends, FilesAssumption
<1>2. a * PieceBytes \in Nat BY <1>1, InPiece
<1>3. piece_size(a) = (IF PieceBytes < Size - a * PieceBytes THEN PieceBytes ELSE Size - a * PieceBytes)
  BY DEF piece_size, least
<1>4. piece_size(a) \in Nat \ {0} /\ a * PieceBytes + piece_size(a) <= Size BY <1>1, <1>2, <1>3
<1>5. ASSUME NEW k \in 0..Size - 1
      PROVE  k \div PieceBytes = a <=> a * PieceBytes <= k /\ k < a * PieceBytes + piece_size(a)
  <2>1. k \in Nat /\ k < Size BY <1>1
  <2>2. k \div PieceBytes = a <=> a * PieceBytes <= k /\ k < a * PieceBytes + PieceBytes BY <1>1, <2>1, InPiece
  <2> QED BY <2>1, <2>2, <1>1, <1>2, <1>3
<1> QED BY <1>1, <1>2, <1>4, <1>5

\* Every byte is of a piece.
LEMMA HasPiece == ASSUME NEW k \in 0..Size - 1 PROVE k \div PieceBytes \in Pieces
<1>1. k \in Nat /\ k < Size BY Ends
<1>2. k \div PieceBytes \in Nat /\ (k \div PieceBytes) * PieceBytes <= k
      /\ (k \div PieceBytes) * PieceBytes \in Nat BY <1>1, Divided
<1> QED BY <1>1, <1>2, Counted, Ends

\* The bytes a piece has of a sub file, and those it has of the torrent.
LEMMA WithinPiece ==
  ASSUME NEW i \in Sub, NEW a \in Pieces
  PROVE  within(i, a * PieceBytes, piece_size(a)) = bytes_of(a, Offsets[i], Offsets[i + 1])
<1> DEFINE s == a * PieceBytes
           e == a * PieceBytes + piece_size(a)
<1>1. s \in Nat /\ e \in Nat /\ \A k \in 0..Size - 1 : k \div PieceBytes = a <=> s <= k /\ k < e BY PieceEnds
<1>2. Offsets[i] \in Nat /\ Offsets[i + 1] \in Nat /\ Offsets[i] <= Offsets[i + 1] /\ Offsets[i + 1] <= Size
      /\ Size \in Nat BY Ends
<1>3. within(i, s, piece_size(a)) =
        (IF Offsets[i] < s THEN s ELSE Offsets[i])..(IF Offsets[i + 1] < e THEN Offsets[i + 1] ELSE e) - 1
  BY DEF within, most, least
<1> HIDE DEF s, e
<1>4. \A k \in Bytes(Offsets[i], Offsets[i + 1]) : k \in 0..Size - 1 BY <1>2 DEF Bytes
<1>5. \A k : k \in within(i, s, piece_size(a)) <=> k \in Bytes(Offsets[i], Offsets[i + 1]) /\ s <= k /\ k < e
  BY <1>1, <1>2, <1>3 DEF Bytes
<1>6. \A k : k \in within(i, s, piece_size(a)) <=> k \in bytes_of(a, Offsets[i], Offsets[i + 1])
  BY <1>1, <1>4, <1>5 DEF bytes_of
<1> QED BY <1>6 DEF s

\* A piece has as many bytes as its size.
LEMMA SizeOfPiece ==
  ASSUME NEW a \in Pieces
  PROVE  Cardinality(bytes_of(a, 0, Size)) = piece_size(a)
<1> DEFINE s == a * PieceBytes
           n == piece_size(a)
<1>1. s \in Nat /\ n \in Nat \ {0} /\ s + n <= Size /\ Size \in Nat
      /\ \A k \in 0..Size - 1 : k \div PieceBytes = a <=> s <= k /\ k < s + n BY PieceEnds, Ends
<1> HIDE DEF s, n
<1>2. bytes_of(a, 0, Size) = s..s + n - 1 BY <1>1 DEF bytes_of, Bytes
<1>3. Cardinality(s..s + n - 1) = (IF s > s + n - 1 THEN 0 ELSE s + n - 1 - s + 1) BY <1>1, FS_Interval
<1> QED BY <1>1, <1>2, <1>3 DEF n

-----------------------------------------------------------------------------
(* What is left.                                                           *)

PieceRecord == [valid: BOOLEAN, got: SUBSET Nat]
PieceMap == [Pieces -> PieceRecord]
\* The bytes that are of invalid pieces, and those of them the hasher has passed.
lacking(ps, x, y) == {k \in Bytes(x, y) : ~ps[k \div PieceBytes].valid}
passed(ps, n, x, y) == {k \in Bytes(x, y) : k \div PieceBytes < n /\ ~ps[k \div PieceBytes].valid}

\* The bytes of a part of the torrent are of pieces, and finitely many.
LEMMA Spans ==
  ASSUME NEW x \in Nat, NEW y \in Nat, y <= Size
  PROVE  /\ IsFiniteSet(Bytes(x, y)) /\ Bytes(x, y) \subseteq 0..Size - 1
         /\ \A k \in Bytes(x, y) : k \div PieceBytes \in Pieces /\ k \div PieceBytes \in Nat
         /\ \A S \in SUBSET Bytes(x, y) : IsFiniteSet(S) /\ Cardinality(S) \in Nat /\ (Cardinality(S) = 0 <=> S = {})
<1>1. IsFiniteSet(Bytes(x, y)) BY FS_Interval DEF Bytes
<1>2. Bytes(x, y) \subseteq 0..Size - 1 BY Ends DEF Bytes
<1>3. \A k \in Bytes(x, y) : k \div PieceBytes \in Pieces BY <1>2, HasPiece
<1>4. \A k \in Bytes(x, y) : k \div PieceBytes \in Nat BY <1>3, PieceEnds
<1>5. \A S \in SUBSET Bytes(x, y) : IsFiniteSet(S) /\ Cardinality(S) \in Nat /\ (Cardinality(S) = 0 <=> S = {})
  BY <1>1, FS_Subset, FS_CardinalityType, FS_EmptySet
<1> QED BY <1>1, <1>2, <1>3, <1>4, <1>5

\* A piece that becomes valid takes its bytes from what is left.
LEMMA NowValid ==
  ASSUME NEW x \in Nat, NEW y \in Nat, y <= Size, NEW a \in Pieces, NEW ps, NEW qs,
         ~ps[a].valid, qs[a].valid, \A b \in Pieces \ {a} : qs[b].valid = ps[b].valid
  PROVE  invalid_bytes(qs, x, y) = invalid_bytes(ps, x, y) - Cardinality(bytes_of(a, x, y))
<1>1. lacking(qs, x, y) = lacking(ps, x, y) \ bytes_of(a, x, y)
  BY Spans DEF lacking, bytes_of
<1>2. lacking(ps, x, y) \cap bytes_of(a, x, y) = bytes_of(a, x, y)
  BY DEF lacking, bytes_of
<1>3. lacking(ps, x, y) \in SUBSET Bytes(x, y) BY DEF lacking
<1>4. IsFiniteSet(lacking(ps, x, y)) BY <1>3, Spans
<1>5. Cardinality(lacking(qs, x, y)) = Cardinality(lacking(ps, x, y)) - Cardinality(bytes_of(a, x, y))
  <2>1. Cardinality(lacking(ps, x, y) \ bytes_of(a, x, y))
          = Cardinality(lacking(ps, x, y)) - Cardinality(lacking(ps, x, y) \cap bytes_of(a, x, y))
    BY <1>4, FS_Difference
  <2> QED BY <2>1, <1>1, <1>2
<1> QED BY <1>5 DEF invalid_bytes, lacking, Bytes

\* A piece the hasher passes adds its bytes to what is left, or none if it is valid.
LEMMA NowPassed ==
  ASSUME NEW x \in Nat, NEW y \in Nat, y <= Size, NEW a \in Pieces, NEW ps, NEW qs,
         \A b \in Pieces \ {a} : qs[b].valid = ps[b].valid
  PROVE  /\ ~qs[a].valid => Cardinality(passed(qs, a + 1, x, y))
                              = Cardinality(passed(ps, a, x, y)) + Cardinality(bytes_of(a, x, y))
         /\ qs[a].valid => Cardinality(passed(qs, a + 1, x, y)) = Cardinality(passed(ps, a, x, y))
<1>1. a \in Nat BY PieceEnds
<1>2. \A k \in Bytes(x, y) : k \div PieceBytes \in Pieces /\ k \div PieceBytes \in Nat BY Spans
<1>3. \A k \in Bytes(x, y) : k \div PieceBytes < a + 1 <=> k \div PieceBytes < a \/ k \div PieceBytes = a
  BY <1>1, <1>2
<1>4. \A k \in Bytes(x, y) : ~(k \div PieceBytes < a /\ k \div PieceBytes = a) BY <1>1, <1>2
<1>5. \A k \in Bytes(x, y) : k \div PieceBytes # a =>
        (qs[k \div PieceBytes].valid <=> ps[k \div PieceBytes].valid)
  BY <1>2
<1>6. passed(ps, a, x, y) \in SUBSET Bytes(x, y) /\ bytes_of(a, x, y) \in SUBSET Bytes(x, y)
  BY DEF passed, bytes_of
<1>7. passed(ps, a, x, y) \cap bytes_of(a, x, y) = {} BY <1>4 DEF passed, bytes_of
<1>8. CASE qs[a].valid
  <2>1. passed(qs, a + 1, x, y) = passed(ps, a, x, y) BY <1>3, <1>4, <1>5, <1>8 DEF passed
  <2> QED BY <2>1, <1>8
<1>9. CASE ~qs[a].valid
  <2>1. passed(qs, a + 1, x, y) = passed(ps, a, x, y) \cup bytes_of(a, x, y)
    BY <1>3, <1>4, <1>5, <1>9 DEF passed, bytes_of
  <2>2. IsFiniteSet(passed(ps, a, x, y)) /\ IsFiniteSet(bytes_of(a, x, y))
        /\ Cardinality(passed(ps, a, x, y)) \in Nat /\ Cardinality(bytes_of(a, x, y)) \in Nat
    BY <1>6, Spans
  <2>3. Cardinality(passed(ps, a, x, y) \cap bytes_of(a, x, y)) = 0 BY <1>7, FS_EmptySet
  <2>4. Cardinality(passed(ps, a, x, y) \cup bytes_of(a, x, y))
          = Cardinality(passed(ps, a, x, y)) + Cardinality(bytes_of(a, x, y))
            - Cardinality(passed(ps, a, x, y) \cap bytes_of(a, x, y))
    BY <2>2, FS_Union
  <2> DEFINE m == Cardinality(passed(ps, a, x, y))
             n == Cardinality(bytes_of(a, x, y))
             z == Cardinality(passed(ps, a, x, y) \cap bytes_of(a, x, y))
  <2>5. Cardinality(passed(qs, a + 1, x, y)) = m + n
    <3>1. m \in Nat /\ n \in Nat /\ z = 0 /\ Cardinality(passed(qs, a + 1, x, y)) = m + n - z
      BY <2>1, <2>2, <2>3, <2>4
    <3> HIDE DEF m, n, z
    <3> QED BY <3>1
  <2> QED BY <2>5, <1>9
<1> QED BY <1>8, <1>9

\* Before the first piece nothing has been passed, after the last everything.
LEMMA PassedEnds ==
  ASSUME NEW x \in Nat, NEW y \in Nat, y <= Size, NEW ps
  PROVE  /\ Cardinality(passed(ps, 0, x, y)) = 0
         /\ Cardinality(passed(ps, count, x, y)) = invalid_bytes(ps, x, y)
<1>1. passed(ps, 0, x, y) = {} BY Spans DEF passed
<1>2. \A k \in Bytes(x, y) : k \div PieceBytes < count BY Spans, Counted
<1>3. passed(ps, count, x, y) = lacking(ps, x, y) BY <1>2 DEF passed, lacking
<1> QED BY <1>1, <1>3, FS_EmptySet DEF invalid_bytes, lacking, Bytes

\* Nothing is left of the torrent when all its pieces are valid, and of a sub file when it has no
\* byte of an invalid one.
LEMMA NothingLeft ==
  ASSUME NEW x \in Nat, NEW y \in Nat, y <= Size, NEW ps
  PROVE  invalid_bytes(ps, x, y) = 0 <=> \A k \in Bytes(x, y) : ps[k \div PieceBytes].valid
<1>1. lacking(ps, x, y) \in SUBSET Bytes(x, y) BY DEF lacking
<1>2. Cardinality(lacking(ps, x, y)) = 0 <=> lacking(ps, x, y) = {} BY <1>1, Spans
<1> QED BY <1>2 DEF invalid_bytes, lacking, Bytes
LEMMA AllValid ==
  ASSUME NEW ps, invalid_size(ps) = 0
  PROVE  /\ \A a \in Pieces : ps[a].valid
         /\ \A i \in Sub : left_of(ps, i) = 0
<1>1. Size \in Nat /\ 0 \in Nat /\ Size <= Size BY Ends
<1>2. \A k \in Bytes(0, Size) : ps[k \div PieceBytes].valid BY <1>1, NothingLeft DEF invalid_size
<1>3. ASSUME NEW a \in Pieces PROVE ps[a].valid
  <2>1. a * PieceBytes \in Nat /\ piece_size(a) \in Nat \ {0} /\ a * PieceBytes + piece_size(a) <= Size
        /\ (a * PieceBytes) \div PieceBytes = a
    <3>1. a * PieceBytes \in Nat /\ piece_size(a) \in Nat \ {0} /\ a * PieceBytes + piece_size(a) <= Size
      BY PieceEnds
    <3>2. a * PieceBytes \in 0..Size - 1 /\ a * PieceBytes < a * PieceBytes + piece_size(a) BY <1>1, <3>1
    <3> QED BY <3>1, <3>2, PieceEnds
  <2>2. a * PieceBytes \in Bytes(0, Size) BY <2>1, <1>1 DEF Bytes
  <2> QED BY <2>1, <2>2, <1>2
<1>4. ASSUME NEW i \in Sub PROVE left_of(ps, i) = 0
  <2>1. Offsets[i] \in Nat /\ Offsets[i + 1] \in Nat /\ Offsets[i + 1] <= Size BY Ends
  <2>2. \A k \in Bytes(Offsets[i], Offsets[i + 1]) : ps[k \div PieceBytes].valid
    BY <2>1, <1>1, <1>2 DEF Bytes
  <2> QED BY <2>1, <2>2, NothingLeft DEF left_of
<1> QED BY <1>3, <1>4

-----------------------------------------------------------------------------
(* The inductive invariant.                                                *)

Names == {"unset"} \cup Dirs
TypeInv ==
  /\ m_name \in Names
  /\ is_open => m_name \in Dirs
  /\ files \in [Dirs -> [Sub -> Seq({"right", "wrong", "hole"})]]
  /\ \A dir \in Dirs, i \in Sub : here(dir, i) => Len(files[dir][i]) = length(i)
  /\ handle \in [Sub -> {"none", "ro", "rw"}]
  /\ is_open => \A i \in Sub : handle[i] = "none" <=> ~here(m_name, i)
  /\ pieces \in PieceMap /\ m_validate \in BOOLEAN
  /\ state \in {"stopped", "hashing", "running", "paused"}
  /\ hashed \in Int /\ (hashed = NoHasher \/ hashed \in 0..count)
  /\ hashed # NoHasher => state = "hashing" /\ m_validate
  /\ state = "hashing" => hashed # NoHasher
  /\ saved \in [name: Names, pieces: PieceMap, open: BOOLEAN, validate: BOOLEAN]
  /\ spoilt \in SUBSET {"removed", "crashed"}

\* While the torrent is hashed: what is left of the pieces the hasher has passed, and which
\* files are open for reading only.
HashInv ==
  hashed # NoHasher =>
    /\ m_left = Cardinality(passed(pieces, hashed, 0, Size))
    /\ \A i \in Sub : left[i] = Cardinality(passed(pieces, hashed, Offsets[i], Offsets[i + 1]))
    /\ \A i \in Sub : handle[i] = "ro" =>
         left[i] = 0 /\ \A k \in Bytes(Offsets[i], Offsets[i + 1]) : k \div PieceBytes < hashed
    /\ \A a \in Pieces : a < hashed /\ pieces[a].valid => right(files[m_name], a)

\* A piece has no wrong byte in the files there are.
sound(fs, a) ==
  \A i \in Sub : \A k \in within(i, a * PieceBytes, piece_size(a)) :
    fs[i] = Missing \/ fs[i][k - Offsets[i] + 1] = "right"
AllValidNow == \A a \in Pieces : pieces[a].valid
ValidRight == \A a \in Pieces : pieces[a].valid => right(files[m_name], a)
ValidSound == \A a \in Pieces : pieces[a].valid => sound(files[m_name], a)

Intact == "removed" \notin spoilt
Sure == spoilt # {"removed", "crashed"}
\* The data of a torrent that is open, of one that is not and will not be hashed when it is
\* opened, and of what state.bin will have opened without hashing.
OpenData == ready /\ Sure => ValidRight
ClosedData ==
  ~is_open /\ ~m_validate =>
    /\ m_left = 0 => AllValidNow
    /\ Sure => m_name \in Dirs /\ ValidSound
    /\ Intact => ValidRight
SavedData ==
  Intact /\ ~saved.validate =>
    /\ m_name = saved.name /\ m_name \in Dirs /\ ~m_validate
    /\ AllValidNow /\ ValidRight /\ \A a \in Pieces : saved.pieces[a].valid

Counts == LeftAddsUp /\ WritableWhileLeft
Inv == TypeInv /\ HashInv /\ Counts /\ OpenData /\ ClosedData /\ SavedData

-----------------------------------------------------------------------------
(* The data of a piece.                                                    *)

\* A piece has bytes of the sub files it lies in; one that is right is in files that are there.
LEMMA PieceLies ==
  ASSUME NEW i \in Sub, NEW a \in Pieces
  PROVE  within(i, a * PieceBytes, piece_size(a)) # {} <=> a \in pieces_of(i)
<1>1. within(i, a * PieceBytes, piece_size(a)) = bytes_of(a, Offsets[i], Offsets[i + 1]) BY WithinPiece
<1>2. Offsets[i] \in Nat /\ Offsets[i + 1] \in Nat /\ Offsets[i] <= Offsets[i + 1] /\ Offsets[i + 1] <= Size
  BY Ends
<1>3. a \in Nat /\ PieceBytes \in Nat BY PieceEnds, FilesAssumption
<1>4. CASE length(i) = 0
  <2>1. Bytes(Offsets[i], Offsets[i + 1]) = {} BY <1>2, <1>4 DEF Bytes, length
  <2> QED BY <2>1, <1>1, <1>4 DEF bytes_of, pieces_of
<1>5. CASE length(i) # 0
  <2> DEFINE x == Offsets[i]
             y == Offsets[i + 1] - 1
             lo == x \div PieceBytes
             hi == y \div PieceBytes
  <2>1. x \in Nat /\ y \in Nat /\ x <= y /\ Bytes(Offsets[i], Offsets[i + 1]) = x..y
    BY <1>2, <1>5 DEF length, Bytes
  <2>2. pieces_of(i) = lo..hi BY <1>5 DEF pieces_of
  <2>3. lo \in Nat /\ hi \in Nat BY <2>1, Divided
  <2>4. \A k \in Nat, b \in Nat :
          k \div PieceBytes = b <=> b * PieceBytes <= k /\ k < b * PieceBytes + PieceBytes
    BY InPiece
  <2> DEFINE al == a * PieceBytes
             ll == lo * PieceBytes
             hl == hi * PieceBytes
             p == PieceBytes
  <2>5. /\ ll \in Nat /\ ll <= x /\ x < ll + p /\ hl \in Nat /\ hl <= y /\ y < hl + p
    BY <2>1, Divided
  <2>6. al \in Nat /\ p \in Nat \ {0} BY InPiece, <1>3, FilesAssumption
  <2>7. /\ a < lo => al + p <= ll
        /\ hi < a => hl + p <= al
        /\ lo < a => ll + p <= al
        /\ a <= hi => al <= hl
    <3>1. (a + 1) * p = al + p /\ (lo + 1) * p = ll + p /\ (hi + 1) * p = hl + p BY <1>3, <2>3
    <3>2. a + 1 \in Nat /\ lo + 1 \in Nat /\ hi + 1 \in Nat BY <1>3, <2>3
    <3>3. a < lo => (a + 1) * p <= ll BY <1>3, <2>3, <2>6, <3>2, Times
    <3>4. hi < a => (hi + 1) * p <= al BY <1>3, <2>3, <2>6, <3>2, Times
    <3>5. lo < a => (lo + 1) * p <= al BY <1>3, <2>3, <2>6, <3>2, Times
    <3>6. a <= hi => al <= hl BY <1>3, <2>3, <2>6, Times
    <3> QED BY <3>1, <3>3, <3>4, <3>5, <3>6
  <2>8. \A k \in x..y : k \div PieceBytes = a <=> al <= k /\ k < al + p BY <2>1, <2>4, <1>3
  <2> HIDE DEF x, y, lo, hi, al, ll, hl, p
  <2>9. ASSUME NEW k \in x..y, k \div PieceBytes = a PROVE a \in lo..hi
    <3>1. k \in Nat /\ al <= k /\ k < al + p BY <2>1, <2>8, <2>9
    <3>2. ~(a < lo) BY <3>1, <2>1, <2>5, <2>6, <2>7
    <3>3. ~(hi < a) BY <3>1, <2>1, <2>5, <2>6, <2>7
    <3> QED BY <3>2, <3>3, <1>3, <2>3
  <2>10. ASSUME a \in lo..hi PROVE \E k \in x..y : k \div PieceBytes = a
    <3>1. CASE a = lo
      <4>1. x \in x..y /\ x \div PieceBytes = lo BY <2>1 DEF lo, x
      <4> QED BY <3>1, <4>1
    <3>2. CASE a # lo
      <4>1. lo < a /\ a <= hi BY <2>10, <3>2, <2>3, <1>3
      <4>2. al \in x..y /\ al <= al /\ al < al + p BY <4>1, <2>1, <2>5, <2>6, <2>7
      <4> QED BY <4>2, <2>8
    <3> QED BY <3>1, <3>2
  <2>11. bytes_of(a, Offsets[i], Offsets[i + 1]) # {} <=> a \in lo..hi BY <2>1, <2>9, <2>10 DEF bytes_of
  <2> QED BY <2>2, <2>11, <1>1
<1> QED BY <1>4, <1>5

\* A sub file with bytes of a right piece is there.
LEMMA RightIsHere ==
  ASSUME NEW dir \in Dirs, NEW a \in Pieces, right(files[dir], a), NEW i \in Sub, a \in pieces_of(i)
  PROVE  here(dir, i)
<1>1. PICK k \in within(i, a * PieceBytes, piece_size(a)) : TRUE BY PieceLies
<1>2. files[dir][i] # Missing BY <1>1 DEF right
<1> QED BY <1>2 DEF here

\* What is right is not wrong.
LEMMA RightIsSound == ASSUME NEW fs, NEW a, right(fs, a) PROVE sound(fs, a)
BY DEF right, sound

\* A piece without a wrong byte is right if no sub file it lies in is missing.
LEMMA SoundIsRight ==
  ASSUME NEW dir \in Dirs, NEW a \in Pieces, sound(files[dir], a), a \notin lost(dir)
  PROVE  right(files[dir], a)
<1> SUFFICES ASSUME NEW i \in Sub, NEW k \in within(i, a * PieceBytes, piece_size(a))
             PROVE  files[dir][i] # Missing /\ files[dir][i][k - Offsets[i] + 1] = "right"
  BY DEF right
<1>1. a \in pieces_of(i) BY PieceLies
<1>2. here(dir, i) BY <1>1 DEF lost
<1> QED BY <1>2 DEF sound, here

\* A valid piece that is right can be read.
LEMMA RightIsReadable ==
  ASSUME TypeInv, is_open, NEW a \in Pieces, right(files[m_name], a)
  PROVE  readable(a)
<1>1. ASSUME NEW i \in touched(a * PieceBytes, piece_size(a)) PROVE handle[i] # "none"
  <2>1. i \in Sub /\ within(i, a * PieceBytes, piece_size(a)) # {} BY DEF touched
  <2>2. files[m_name][i] # Missing BY <2>1 DEF right
  <2> QED BY <2>1, <2>2 DEF TypeInv, here
<1> QED BY <1>1 DEF readable

-----------------------------------------------------------------------------
(* The steps.                                                              *)

LEMMA InitInv == Init => Inv
<1> SUFFICES ASSUME Init PROVE Inv OBVIOUS
<1>1. ~is_open /\ ~ready BY DEF Init, is_open, ready
<1>2. [a \in Pieces |-> new_piece] \in PieceMap BY DEF PieceMap, PieceRecord, new_piece
<1>3. TypeInv
  <2>1. [i \in Sub |-> Missing] \in [Sub -> Seq({"right", "wrong", "hole"})] BY DEF Missing
  <2>2. \A dir \in Dirs, i \in Sub : ~here(dir, i) BY DEF Init, here
  <2> QED BY <1>1, <1>2, <2>1, <2>2 DEF Init, TypeInv, Names, NoHasher
<1> QED BY <1>1, <1>3 DEF Init, Inv, HashInv, Counts, LeftAddsUp, WritableWhileLeft, OpenData, ClosedData,
     SavedData, NoHasher

\* The torrent, of which m is what is remembered, after it was opened.
LEMMA OpenInv ==
  ASSUME TypeInv, NEW m, open(m), m.name \in Names, m.pieces \in PieceMap, m.validate \in BOOLEAN,
         UNCHANGED files, saved' \in [name: Names, pieces: PieceMap, open: BOOLEAN, validate: BOOLEAN],
         spoilt' \in SUBSET {"removed", "crashed"},
         ~m.validate /\ Sure' => m.name \in Dirs /\ \A a \in Pieces : m.pieces[a].valid => sound(files[m.name], a)
  PROVE  /\ TypeInv' /\ HashInv' /\ Counts' /\ OpenData' /\ ClosedData'
         /\ m.name # "unset" => m_name' = m.name
         /\ m_validate' = m.validate
         /\ \A a \in Pieces : a \notin lost(m_name') => pieces'[a] = m.pieces[a]
<1> DEFINE name == name_at_open(m.name)
           ps == [a \in Pieces |-> IF a \in lost(name) THEN set_valid(m.pieces[a], FALSE) ELSE m.pieces[a]]
           opened == [i \in Sub |-> IF here(name, i) THEN "rw" ELSE "none"]
<1>1. /\ m_name' = name /\ pieces' = ps /\ m_validate' = m.validate
      /\ m.validate => /\ state' = "hashing" /\ hashed' = 0 /\ m_left' = 0 /\ left' = [i \in Sub |-> 0]
                       /\ handle' = opened
      /\ ~m.validate => /\ state' = "running" /\ hashed' = NoHasher /\ m_left' = invalid_size(ps)
                        /\ left' = [i \in Sub |-> left_of(ps, i)]
                        /\ handle' = at_end(opened, left', name)
  BY DEF open
<1>2. name \in Dirs /\ (m.name # "unset" => name = m.name) BY DEF name_at_open, Names, Dirs
<1>3. \A a \in Pieces : /\ ps[a] \in PieceRecord
                        /\ a \in lost(name) => ~ps[a].valid
                        /\ a \notin lost(name) => ps[a] = m.pieces[a]
  <2>1. \A a \in Pieces : m.pieces[a] \in PieceRecord BY DEF PieceMap
  <2> QED BY <2>1 DEF set_valid, PieceRecord
<1>4. ps \in PieceMap BY <1>3 DEF PieceMap
<1>5. \A dir \in Dirs, i \in Sub : here(dir, i)' <=> here(dir, i) BY DEF here
<1>6. handle' \in [Sub -> {"none", "ro", "rw"}] /\ \A i \in Sub : handle'[i] = "none" <=> ~here(name, i)
  <2>1. opened \in [Sub -> {"none", "rw"}] /\ \A i \in Sub : opened[i] = "none" <=> ~here(name, i) OBVIOUS
  <2>2. CASE m.validate BY <1>1, <2>1, <2>2
  <2>3. CASE ~m.validate
    <3>1. handle' = [i \in Sub |-> IF left'[i] = 0 THEN (IF here(name, i) THEN "ro" ELSE "none") ELSE opened[i]]
      BY <1>1, <2>3 DEF at_end, reopened
    <3> HIDE DEF name, opened
    <3> QED BY <2>1, <3>1
  <2> QED BY <2>2, <2>3
<1> HIDE DEF name, ps
<1>7. is_open' BY <1>1 DEF is_open
<1>8. TypeInv'
  <2>1. count \in Nat BY Counted
  <2>2. \A i \in Sub : here(m_name, i)' <=> here(name, i) BY <1>1 DEF here
  <2> QED BY <1>1, <1>2, <1>4, <1>5, <1>6, <1>7, <2>1, <2>2 DEF TypeInv, NoHasher, Names
<1>9. HashInv'
  <2>1. CASE m.validate
    <3>1. Size \in Nat /\ 0 \in Nat /\ Size <= Size BY Ends
    <3>2. \A i \in Sub : Offsets[i] \in Nat /\ Offsets[i + 1] \in Nat /\ Offsets[i + 1] <= Size BY Ends
    <3>3. Cardinality(passed(ps, 0, 0, Size)) = 0 BY <3>1, PassedEnds
    <3>4. \A i \in Sub : Cardinality(passed(ps, 0, Offsets[i], Offsets[i + 1])) = 0 BY <3>2, PassedEnds
    <3>5. \A i \in Sub : handle'[i] # "ro" BY <1>1, <2>1
    <3>6. \A a \in Pieces : ~(a < 0) BY PieceEnds
    <3> QED BY <1>1, <2>1, <3>3, <3>4, <3>5, <3>6 DEF HashInv
  <2>2. CASE ~m.validate BY <2>2, <1>1 DEF HashInv
  <2> QED BY <2>1, <2>2
<1>10. Counts'
  <2>1. CASE m.validate BY <2>1, <1>1 DEF Counts, LeftAddsUp, WritableWhileLeft, ready, NoHasher
  <2>2. CASE ~m.validate
    <3>1. LeftAddsUp' BY <2>2, <1>1 DEF LeftAddsUp
    <3>2. \A i \in Sub : handle'[i] = "ro" => left_of(ps, i) = 0 BY <2>2, <1>1 DEF at_end
    <3> QED BY <3>1, <3>2, <1>1 DEF Counts, WritableWhileLeft
  <2> QED BY <2>1, <2>2
<1>11. OpenData'
  <2> SUFFICES ASSUME ready', Sure', NEW a \in Pieces, ps[a].valid PROVE right(files[name], a)
    BY <1>1 DEF OpenData, ValidRight
  <2>1. ~m.validate BY <1>1 DEF ready, NoHasher
  <2>2. a \notin lost(name) /\ m.pieces[a].valid BY <1>3
  <2>3. m.name \in Dirs /\ sound(files[m.name], a) BY <2>1, <2>2
  <2>4. name = m.name BY <2>3, <1>2 DEF Dirs
  <2> QED BY <1>2, <2>2, <2>3, <2>4, SoundIsRight
<1>12. ClosedData' BY <1>7 DEF ClosedData
<1>13. \A a \in Pieces : a \notin lost(m_name') => pieces'[a] = m.pieces[a] BY <1>1, <1>3
<1> QED BY <1>1, <1>2, <1>8, <1>9, <1>10, <1>11, <1>12, <1>13

LEMMA StartInv == ASSUME Inv, start PROVE Inv'
<1>1. ~is_open /\ open(this) /\ UNCHANGED <<files, saved, spoilt>> BY DEF start
<1>2. this.name = m_name /\ this.pieces = pieces /\ this.validate = m_validate BY DEF this
<1>3. ~m_validate /\ Sure' => m_name \in Dirs /\ \A a \in Pieces : pieces[a].valid => sound(files[m_name], a)
  BY <1>1 DEF Inv, ClosedData, ValidSound, Sure
<1>4. /\ TypeInv' /\ HashInv' /\ Counts' /\ OpenData' /\ ClosedData'
      /\ m_name # "unset" => m_name' = m_name
      /\ m_validate' = m_validate
      /\ \A a \in Pieces : a \notin lost(m_name') => pieces'[a] = pieces[a]
  <2>1. TypeInv /\ UNCHANGED files BY <1>1 DEF Inv
  <2>2. /\ m_name \in Names /\ pieces \in PieceMap /\ m_validate \in BOOLEAN
        /\ saved' \in [name: Names, pieces: PieceMap, open: BOOLEAN, validate: BOOLEAN]
        /\ spoilt' \in SUBSET {"removed", "crashed"}
    BY <1>1, <2>1 DEF TypeInv
  <2> DEFINE m == this
  <2>3. open(m) BY <1>1
  <2>4. m.name \in Names /\ m.pieces \in PieceMap /\ m.validate \in BOOLEAN
        /\ (~m.validate /\ Sure' =>
              m.name \in Dirs /\ \A a \in Pieces : m.pieces[a].valid => sound(files[m.name], a))
    BY <1>2, <1>3, <2>2
  <2> HIDE DEF m
  <2>5. /\ TypeInv' /\ HashInv' /\ Counts' /\ OpenData' /\ ClosedData'
        /\ m.name # "unset" => m_name' = m.name
        /\ m_validate' = m.validate
        /\ \A a \in Pieces : a \notin lost(m_name') => pieces'[a] = m.pieces[a]
    BY <2>1, <2>2, <2>3, <2>4, OpenInv
  <2> QED BY <1>2, <2>5 DEF m
<1>5. SavedData'
  <2> SUFFICES ASSUME Intact, ~saved.validate PROVE SavedData'
    BY <1>1 DEF SavedData, Intact
  <2>1. /\ m_name = saved.name /\ m_name \in Dirs /\ ~m_validate
        /\ AllValidNow /\ ValidRight /\ \A a \in Pieces : saved.pieces[a].valid
    BY DEF Inv, SavedData
  <2>2. m_name' = m_name BY <1>4, <2>1 DEF Dirs
  <2>3. \A a \in Pieces : right(files[m_name], a) BY <2>1 DEF AllValidNow, ValidRight
  <2>4. \A a \in Pieces : a \notin lost(m_name) BY <2>1, <2>3, RightIsHere DEF lost
  <2>5. \A a \in Pieces : pieces'[a] = pieces[a] BY <1>4, <2>2, <2>4
  <2> QED BY <1>1, <1>4, <2>1, <2>2, <2>3, <2>5 DEF SavedData, AllValidNow, ValidRight
<1> QED BY <1>4, <1>5 DEF Inv

LEMMA CloseInv == ASSUME Inv, close PROVE Inv'
<1>1. /\ is_open /\ m_validate' = (hashed # NoHasher) /\ hashed' = NoHasher
      /\ handle' = [i \in Sub |-> "none"] /\ state' = "stopped"
      /\ UNCHANGED <<m_name, left, m_left, pieces, files, saved, spoilt>>
  BY DEF close
<1>2. ~is_open' /\ ~ready' BY <1>1 DEF is_open, ready
<1>3. TypeInv' BY <1>1, <1>2 DEF Inv, TypeInv, here, NoHasher
<1>4. HashInv' /\ Counts' /\ OpenData'
  BY <1>1, <1>2 DEF HashInv, Counts, LeftAddsUp, WritableWhileLeft, OpenData
<1>5. ClosedData'
  <2> SUFFICES ASSUME ~m_validate' PROVE ClosedData' BY DEF ClosedData
  <2>1. ready BY <1>1 DEF ready
  <2>2. m_left = invalid_size(pieces) BY <2>1 DEF Inv, Counts, LeftAddsUp
  <2>3. m_left = 0 => AllValidNow BY <2>2, AllValid DEF AllValidNow
  <2>4. Sure => ValidRight BY <2>1 DEF Inv, OpenData
  <2>5. Sure => m_name \in Dirs /\ ValidSound
    <3>1. m_name \in Dirs BY <1>1 DEF Inv, TypeInv
    <3> QED BY <3>1, <2>4, RightIsSound DEF ValidRight, ValidSound
  <2>6. Intact => ValidRight BY <2>4 DEF Intact, Sure
  <2> QED BY <1>1, <2>3, <2>5, <2>6 DEF ClosedData, AllValidNow, ValidRight, ValidSound, Sure, Intact
<1>6. SavedData'
  <2>1. ~m_validate => ~m_validate' BY <1>1 DEF Inv, TypeInv
  <2> QED BY <1>1, <2>1 DEF Inv, SavedData, Intact, AllValidNow, ValidRight
<1> QED BY <1>3, <1>4, <1>5, <1>6 DEF Inv

LEMMA SaveInv == ASSUME Inv, save_state PROVE Inv'
<1>1. /\ saved' = [name |-> m_name, pieces |-> pieces, open |-> is_open,
                   validate |-> (m_left # 0) \/ m_validate]
      /\ UNCHANGED <<torrent, files, spoilt>>
  BY DEF save_state
<1>2. is_open \in BOOLEAN BY DEF is_open
<1>3. TypeInv'
  <2>1. TypeInv BY DEF Inv
  <2>2. UNCHANGED <<m_name, handle, left, m_left, pieces, m_validate, state, hashed, files, spoilt>>
    BY <1>1 DEF torrent
  <2>3. saved' \in [name: Names, pieces: PieceMap, open: BOOLEAN, validate: BOOLEAN]
    <3>1. ((m_left # 0) \/ m_validate) \in BOOLEAN OBVIOUS
    <3>2. m_name \in Names /\ pieces \in PieceMap BY <2>1 DEF TypeInv
    <3> QED BY <1>1, <1>2, <3>1, <3>2
  <2>4. (is_open' <=> is_open) /\ \A dir, i : here(dir, i)' <=> here(dir, i) BY <2>2 DEF is_open, here
  <2> QED BY <2>1, <2>2, <2>3, <2>4 DEF TypeInv, here, is_open
<1>4. HashInv' /\ Counts' /\ OpenData' /\ ClosedData'
  BY <1>1 DEF Inv, HashInv, Counts, LeftAddsUp, WritableWhileLeft, OpenData, ClosedData, torrent, is_open,
     ready, Sure, Intact, AllValidNow, ValidRight, ValidSound
<1>5. SavedData'
  <2> SUFFICES ASSUME Intact, m_left = 0, ~m_validate
               PROVE  m_name \in Dirs /\ AllValidNow /\ ValidRight
    BY <1>1 DEF SavedData, torrent, Intact, AllValidNow, ValidRight
  <2>1. CASE is_open
    <3>1. ready BY <2>1 DEF Inv, TypeInv, ready
    <3>2. AllValidNow BY <3>1, AllValid DEF Inv, Counts, LeftAddsUp, AllValidNow
    <3>3. ValidRight BY <3>1 DEF Inv, OpenData, Intact, Sure
    <3>4. m_name \in Dirs BY <2>1 DEF Inv, TypeInv
    <3> QED BY <3>2, <3>3, <3>4
  <2>2. CASE ~is_open
    <3>1. Sure BY DEF Sure, Intact
    <3> QED BY <2>2, <3>1 DEF Inv, ClosedData
  <2> QED BY <2>1, <2>2
<1> QED BY <1>3, <1>4, <1>5 DEF Inv

LEMMA RemoveInv == ASSUME Inv, NEW dir \in Dirs, NEW i \in Sub, remove(dir, i) PROVE Inv'
<1>1. /\ ~is_open /\ files' = [files EXCEPT ![dir][i] = Missing] /\ spoilt' = spoilt \cup {"removed"}
      /\ UNCHANGED <<torrent, saved>>
  BY DEF remove
<1>2. ~is_open' /\ ~ready' /\ ~ready /\ hashed' = hashed BY <1>1 DEF is_open, ready, torrent
<1>3. hashed = NoHasher BY <1>1 DEF Inv, TypeInv, is_open
<1>4. \A d \in Dirs, j \in Sub : files'[d][j] \in {files[d][j], Missing}
  BY <1>1 DEF Inv, TypeInv
<1>5. TypeInv'
  <2>1. Missing \in Seq({"right", "wrong", "hole"}) BY DEF Missing
  <2>2. files' \in [Dirs -> [Sub -> Seq({"right", "wrong", "hole"})]] BY <1>1, <2>1 DEF Inv, TypeInv
  <2>3. \A d \in Dirs, j \in Sub : here(d, j)' => Len(files'[d][j]) = length(j)
    BY <1>4 DEF here, Inv, TypeInv
  <2> QED BY <1>1, <1>2, <2>2, <2>3 DEF Inv, TypeInv, torrent
<1>6. HashInv' /\ Counts' /\ OpenData'
  BY <1>2, <1>3 DEF HashInv, Counts, LeftAddsUp, WritableWhileLeft, OpenData
<1>7. ClosedData'
  <2> SUFFICES ASSUME ~m_validate PROVE ClosedData' BY <1>1 DEF ClosedData, torrent
  <2>1. m_left = 0 => AllValidNow BY <1>1 DEF Inv, ClosedData
  <2>2. ~Intact' BY <1>1 DEF Intact
  <2>3. ASSUME Sure' PROVE m_name \in Dirs /\ ValidSound'
    <3>1. Sure BY <1>1, <2>3 DEF Sure, Inv, TypeInv
    <3>2. m_name \in Dirs /\ ValidSound BY <1>1, <3>1 DEF Inv, ClosedData
    <3>3. ASSUME NEW a, sound(files[m_name], a) PROVE sound(files'[m_name], a)
      BY <1>4, <3>2, <3>3 DEF sound
    <3> QED BY <1>1, <3>2, <3>3 DEF ValidSound, torrent
  <2> QED BY <1>1, <2>1, <2>2, <2>3 DEF ClosedData, AllValidNow, torrent
<1>8. SavedData' BY <1>1 DEF SavedData, Intact
<1> QED BY <1>5, <1>6, <1>7, <1>8 DEF Inv

LEMMA CrashInv == ASSUME Inv, crash PROVE Inv'
<1>1. spoilt' = spoilt \cup {"crashed"} /\ UNCHANGED <<files, saved>> BY DEF crash
<1>2. TypeInv /\ saved \in [name: Names, pieces: PieceMap, open: BOOLEAN, validate: BOOLEAN]
  BY DEF Inv, TypeInv
<1>3. Sure' => Intact
  <2>1. spoilt \subseteq {"removed", "crashed"} BY <1>2 DEF TypeInv
  <2>2. "removed" \in spoilt => spoilt \cup {"crashed"} = {"removed", "crashed"} BY <2>1
  <2> QED BY <1>1, <2>2 DEF Sure, Intact
<1>4. Intact' => Intact BY <1>1 DEF Intact
<1>5. ASSUME Intact, ~saved.validate
      PROVE  /\ m_name = saved.name /\ m_name \in Dirs
             /\ \A a \in Pieces : saved.pieces[a].valid /\ right(files[m_name], a) /\ a \notin lost(m_name)
  <2>1. /\ m_name = saved.name /\ m_name \in Dirs
        /\ \A a \in Pieces : saved.pieces[a].valid /\ right(files[m_name], a)
    BY <1>5 DEF Inv, SavedData, AllValidNow, ValidRight
  <2> QED BY <2>1, RightIsHere DEF lost
<1>6. CASE saved.open
  <2>1. open(saved) BY <1>6 DEF crash
  <2>2. ~saved.validate /\ Sure' =>
          saved.name \in Dirs /\ \A a \in Pieces : saved.pieces[a].valid => sound(files[saved.name], a)
    BY <1>3, <1>5, RightIsSound
  <2>3. spoilt' \in SUBSET {"removed", "crashed"} BY <1>1, <1>2 DEF TypeInv
  <2>4. /\ TypeInv' /\ HashInv' /\ Counts' /\ OpenData' /\ ClosedData'
        /\ saved.name # "unset" => m_name' = saved.name
        /\ m_validate' = saved.validate
        /\ \A a \in Pieces : a \notin lost(m_name') => pieces'[a] = saved.pieces[a]
    BY <1>1, <1>2, <2>1, <2>2, <2>3, OpenInv
  <2>5. SavedData'
    <3> SUFFICES ASSUME Intact, ~saved.validate PROVE SavedData' BY <1>1, <1>4 DEF SavedData
    <3>1. m_name' = m_name BY <1>5, <2>4 DEF Dirs
    <3>2. \A a \in Pieces : pieces'[a] = saved.pieces[a] BY <1>5, <2>4, <3>1
    <3> QED BY <1>1, <1>5, <2>4, <3>1, <3>2 DEF SavedData, AllValidNow, ValidRight
  <2> QED BY <2>4, <2>5 DEF Inv
<1>7. CASE ~saved.open
  <2>1. /\ m_name' = saved.name /\ pieces' = saved.pieces /\ m_validate' = saved.validate
        /\ state' = "stopped" /\ hashed' = NoHasher /\ m_left' = -1
        /\ handle' = [i \in Sub |-> "none"] /\ left' = [i \in Sub |-> 0]
    BY <1>7 DEF crash
  <2>2. ~is_open' /\ ~ready' BY <2>1 DEF is_open, ready
  <2>3. TypeInv' BY <1>1, <1>2, <2>1, <2>2 DEF TypeInv, here, NoHasher
  <2>4. HashInv' /\ Counts' /\ OpenData'
    BY <2>1, <2>2 DEF HashInv, Counts, LeftAddsUp, WritableWhileLeft, OpenData
  <2>5. ClosedData'
    <3> SUFFICES ASSUME ~saved.validate PROVE ClosedData' BY <2>1 DEF ClosedData
    <3>1. Sure' => m_name' \in Dirs /\ ValidSound' BY <1>1, <1>3, <1>5, <2>1, RightIsSound DEF ValidSound
    <3>2. Intact' => ValidRight' BY <1>1, <1>4, <1>5, <2>1 DEF ValidRight
    <3> QED BY <2>1, <3>1, <3>2 DEF ClosedData
  <2>6. SavedData' BY <1>1, <1>4, <1>5, <2>1 DEF SavedData, AllValidNow, ValidRight
  <2> QED BY <2>3, <2>4, <2>5, <2>6 DEF Inv
<1> QED BY <1>6, <1>7, <1>2

\* The last piece of a sub file that has bytes.
LEMMA LastPiece ==
  ASSUME NEW i \in Sub, length(i) > 0
  PROVE  \A k \in Bytes(Offsets[i], Offsets[i + 1]) : k \div PieceBytes <= Max(pieces_of(i))
<1> DEFINE lo == Offsets[i] \div PieceBytes
           hi == (Offsets[i + 1] - 1) \div PieceBytes
<1>1. Offsets[i] \in Nat /\ Offsets[i + 1] - 1 \in Nat /\ Offsets[i] <= Offsets[i + 1] - 1
      /\ Offsets[i + 1] <= Size /\ Size \in Nat
  BY Ends DEF length
<1>2. pieces_of(i) = lo..hi BY DEF pieces_of
<1>3. \A k \in Bytes(Offsets[i], Offsets[i + 1]) : k \div PieceBytes \in pieces_of(i)
  <2> SUFFICES ASSUME NEW k \in Bytes(Offsets[i], Offsets[i + 1]) PROVE k \div PieceBytes \in pieces_of(i)
    OBVIOUS
  <2>1. k \in 0..Size - 1 BY Ends, Spans
  <2>2. k \div PieceBytes \in Pieces BY <2>1, HasPiece
  <2>3. k \in bytes_of(k \div PieceBytes, Offsets[i], Offsets[i + 1]) BY DEF bytes_of
  <2> QED BY <2>2, <2>3, WithinPiece, PieceLies
<1>4. lo \in Nat /\ hi \in Nat BY <1>1, Divided
<1>5. Offsets[i] \in Bytes(Offsets[i], Offsets[i + 1]) BY <1>1 DEF Bytes
<1>6. lo \in pieces_of(i) BY <1>3, <1>5
<1> HIDE DEF lo, hi
<1>7. hi \in pieces_of(i) /\ \A b \in pieces_of(i) : hi >= b BY <1>2, <1>4, <1>6
<1>8. \A b \in pieces_of(i) : Max(pieces_of(i)) >= b BY <1>7 DEF Max
<1>9. Max(pieces_of(i)) \in pieces_of(i) BY <1>7 DEF Max
<1>10. \A b \in pieces_of(i) : b <= Max(pieces_of(i)) BY <1>2, <1>4, <1>8, <1>9
<1> QED BY <1>3, <1>10

\* What of_piece counts.
LEMMA OfPiece ==
  ASSUME NEW i \in Sub, NEW a \in Pieces
  PROVE  /\ of_piece(i, a) = Cardinality(bytes_of(a, Offsets[i], Offsets[i + 1]))
         /\ of_piece(i, a) \in Nat
<1>1. of_piece(i, a) = Cardinality(bytes_of(a, Offsets[i], Offsets[i + 1]))
  BY WithinPiece DEF of_piece
<1>2. Offsets[i] \in Nat /\ Offsets[i + 1] \in Nat /\ Offsets[i + 1] <= Size BY Ends
<1>3. bytes_of(a, Offsets[i], Offsets[i + 1]) \in SUBSET Bytes(Offsets[i], Offsets[i + 1]) BY DEF bytes_of
<1> QED BY <1>1, <1>2, <1>3, Spans

LEMMA HashPieceInv == ASSUME Inv, hash_piece, hashed \in Pieces PROVE Inv'
<1> DEFINE a == hashed
           v == readable(a) /\ right(files[m_name], a)
           ended == {i \in Sub : length(i) > 0 /\ Max(pieces_of(i)) = a}
<1>1. /\ hashed # NoHasher /\ pieces' = [pieces EXCEPT ![a] = set_valid(@, v)]
      /\ m_left' = (IF v THEN m_left ELSE m_left + piece_size(a))
      /\ left' = [i \in Sub |-> IF v THEN left[i] ELSE left[i] + of_piece(i, a)]
      /\ handle' = [i \in Sub |-> IF i \in ended /\ left'[i] = 0 THEN reopened(m_name, i) ELSE handle[i]]
      /\ hashed' = a + 1 /\ UNCHANGED <<state, m_validate, m_name, files, saved, spoilt>>
  BY DEF hash_piece
<1>2. TypeInv /\ HashInv /\ SavedData BY DEF Inv
<1>3. state = "hashing" /\ m_validate /\ is_open /\ is_open' /\ m_name \in Dirs
  BY <1>1, <1>2 DEF TypeInv, is_open
<1>4. a \in Nat /\ a < count /\ count \in Nat BY Counted, PieceEnds
<1>5. hashed' # NoHasher /\ hashed' \in 0..count /\ ~ready' BY <1>1, <1>4 DEF NoHasher, ready
<1>6. /\ pieces' \in PieceMap
      /\ (pieces'[a].valid <=> v)
      /\ \A b \in Pieces \ {a} : pieces'[b] = pieces[b]
  <2>1. v \in BOOLEAN BY DEF readable, right
  <2>2. pieces[a] \in PieceRecord BY <1>2 DEF TypeInv, PieceMap
  <2>3. set_valid(pieces[a], v) \in PieceRecord /\ (set_valid(pieces[a], v).valid <=> v)
    <3>1. CASE v BY <3>1, <2>2 DEF set_valid, PieceRecord
    <3>2. CASE ~v BY <3>2, <2>2 DEF set_valid, PieceRecord
    <3> QED BY <3>1, <3>2
  <2> HIDE DEF v
  <2>4. pieces \in PieceMap BY <1>2 DEF TypeInv
  <2> QED BY <1>1, <2>3, <2>4 DEF PieceMap
<1>7. \A i \in Sub : handle'[i] = handle[i] \/ (i \in ended /\ left'[i] = 0 /\ handle'[i] = reopened(m_name, i))
  BY <1>1
<1>8. TypeInv'
  <2>1. handle' \in [Sub -> {"none", "ro", "rw"}] BY <1>1, <1>2 DEF reopened, TypeInv
  <2>2. \A dir, i : here(dir, i)' <=> here(dir, i) BY <1>1 DEF here
  <2>3. \A i \in Sub : here(m_name, i)' <=> here(m_name, i) BY <1>1 DEF here
  <2>4. \A i \in Sub : handle'[i] = "none" <=> ~here(m_name, i)
    <3>1. \A i \in Sub : handle[i] = "none" <=> ~here(m_name, i) BY <1>2, <1>3 DEF TypeInv
    <3> QED BY <3>1, <1>7 DEF reopened
  <2>5. hashed' \in Int BY <1>1, <1>4
  <2> QED BY <1>1, <1>2, <1>3, <1>5, <1>6, <2>1, <2>2, <2>3, <2>4, <2>5 DEF TypeInv
<1> HIDE DEF v
<1>9. HashInv'
  <2>1. /\ m_left = Cardinality(passed(pieces, a, 0, Size))
        /\ \A i \in Sub : left[i] = Cardinality(passed(pieces, a, Offsets[i], Offsets[i + 1]))
        /\ \A i \in Sub : handle[i] = "ro" =>
             left[i] = 0 /\ \A k \in Bytes(Offsets[i], Offsets[i + 1]) : k \div PieceBytes < a
        /\ \A b \in Pieces : b < a /\ pieces[b].valid => right(files[m_name], b)
    BY <1>1, <1>2 DEF HashInv
  <2>2. \A b \in Pieces \ {a} : pieces'[b].valid = pieces[b].valid BY <1>6
  <2>3. m_left' = Cardinality(passed(pieces', a + 1, 0, Size))
    <3>1. 0 \in Nat /\ Size \in Nat /\ Size <= Size BY Ends
    <3>2. Cardinality(bytes_of(a, 0, Size)) = piece_size(a) BY SizeOfPiece
    <3>3. /\ ~pieces'[a].valid => Cardinality(passed(pieces', a + 1, 0, Size))
                                    = Cardinality(passed(pieces, a, 0, Size)) + piece_size(a)
          /\ pieces'[a].valid => Cardinality(passed(pieces', a + 1, 0, Size))
                                   = Cardinality(passed(pieces, a, 0, Size))
      BY <2>2, <3>1, <3>2, NowPassed
    <3> QED BY <1>1, <1>6, <2>1, <3>3
  <2>4. \A i \in Sub : left'[i] = Cardinality(passed(pieces', a + 1, Offsets[i], Offsets[i + 1]))
    <3> SUFFICES ASSUME NEW i \in Sub
                 PROVE  left'[i] = Cardinality(passed(pieces', a + 1, Offsets[i], Offsets[i + 1]))
      OBVIOUS
    <3>1. Offsets[i] \in Nat /\ Offsets[i + 1] \in Nat /\ Offsets[i + 1] <= Size BY Ends
    <3>2. of_piece(i, a) = Cardinality(bytes_of(a, Offsets[i], Offsets[i + 1])) BY OfPiece
    <3> DEFINE x == Offsets[i]
               y == Offsets[i + 1]
    <3>3. /\ ~pieces'[a].valid => Cardinality(passed(pieces', a + 1, x, y))
                                    = Cardinality(passed(pieces, a, x, y)) + of_piece(i, a)
          /\ pieces'[a].valid => Cardinality(passed(pieces', a + 1, x, y))
                                   = Cardinality(passed(pieces, a, x, y))
      BY <2>2, <3>1, <3>2, NowPassed
    <3> QED BY <1>1, <1>6, <2>1, <3>3
  <2>5. ASSUME NEW i \in Sub, handle'[i] = "ro"
        PROVE  left'[i] = 0 /\ \A k \in Bytes(Offsets[i], Offsets[i + 1]) : k \div PieceBytes < a + 1
    <3>1. Offsets[i] \in Nat /\ Offsets[i + 1] \in Nat /\ Offsets[i + 1] <= Size BY Ends
    <3>2. \A k \in Bytes(Offsets[i], Offsets[i + 1]) : k \div PieceBytes \in Nat BY <3>1, Spans
    <3>3. CASE handle[i] = "ro"
      <4>1. left[i] = 0 /\ \A k \in Bytes(Offsets[i], Offsets[i + 1]) : k \div PieceBytes < a BY <2>1, <3>3
      <4>2. bytes_of(a, Offsets[i], Offsets[i + 1]) = {} BY <1>4, <3>2, <4>1 DEF bytes_of
      <4>3. of_piece(i, a) = 0 BY <4>2, OfPiece, FS_EmptySet
      <4>4. left'[i] = 0 BY <1>1, <4>1, <4>3
      <4> QED BY <1>4, <3>2, <4>1, <4>4
    <3>4. CASE handle[i] # "ro"
      <4>1. left'[i] = 0 /\ length(i) > 0 /\ Max(pieces_of(i)) = a BY <1>7, <2>5, <3>4
      <4>2. \A k \in Bytes(Offsets[i], Offsets[i + 1]) : k \div PieceBytes <= a BY <4>1, LastPiece
      <4> QED BY <1>4, <3>2, <4>1, <4>2
    <3> QED BY <3>3, <3>4
  <2>6. ASSUME NEW b \in Pieces, b < a + 1, pieces'[b].valid PROVE right(files[m_name], b)
    <3>1. CASE b = a BY <1>6, <2>6, <3>1 DEF v
    <3>2. CASE b # a
      <4>1. b < a BY <1>4, <2>6, <3>2, PieceEnds
      <4> QED BY <1>6, <2>1, <2>6, <3>2, <4>1
    <3> QED BY <3>1, <3>2
  <2> QED BY <1>1, <2>3, <2>4, <2>5, <2>6 DEF HashInv
<1>10. Counts' /\ OpenData' BY <1>5 DEF Counts, LeftAddsUp, WritableWhileLeft, OpenData
<1>11. ClosedData' BY <1>3 DEF ClosedData
<1>12. SavedData' BY <1>1, <1>2, <1>3 DEF SavedData, Intact
<1> QED BY <1>8, <1>9, <1>10, <1>11, <1>12 DEF Inv

LEMMA HashedInv == ASSUME Inv, hash_piece, hashed \notin Pieces PROVE Inv'
<1>1. /\ hashed # NoHasher /\ hashed' = NoHasher /\ m_validate' = FALSE /\ state' = "running"
      /\ UNCHANGED <<pieces, m_left, left, handle, m_name, files, saved, spoilt>>
  BY DEF hash_piece
<1>2. TypeInv /\ HashInv /\ SavedData BY DEF Inv
<1>3. m_validate /\ is_open /\ is_open' /\ ready' /\ m_name \in Dirs
  BY <1>1, <1>2 DEF TypeInv, is_open, ready
<1>4. hashed = count BY <1>1, <1>2, Counted DEF TypeInv
<1>5. TypeInv'
  <2>1. \A dir, i : here(dir, i)' <=> here(dir, i) BY <1>1 DEF here
  <2>2. \A i \in Sub : here(m_name, i)' <=> here(m_name, i) BY <1>1 DEF here
  <2>3. \A i \in Sub : handle[i] = "none" <=> ~here(m_name, i) BY <1>2, <1>3 DEF TypeInv
  <2>4. hashed' \in Int BY <1>1 DEF NoHasher
  <2> QED BY <1>1, <1>2, <1>3, <2>1, <2>2, <2>3, <2>4 DEF TypeInv
<1>6. HashInv' BY <1>1 DEF HashInv
<1>7. /\ m_left = invalid_size(pieces)
      /\ \A i \in Sub : left[i] = left_of(pieces, i)
      /\ \A i \in Sub : handle[i] = "ro" => left[i] = 0
      /\ \A a \in Pieces : pieces[a].valid => right(files[m_name], a)
  <2>1. /\ m_left = Cardinality(passed(pieces, count, 0, Size))
        /\ \A i \in Sub : left[i] = Cardinality(passed(pieces, count, Offsets[i], Offsets[i + 1]))
        /\ \A i \in Sub : handle[i] = "ro" => left[i] = 0
        /\ \A a \in Pieces : a < count /\ pieces[a].valid => right(files[m_name], a)
    BY <1>1, <1>2, <1>4 DEF HashInv
  <2>2. 0 \in Nat /\ Size \in Nat /\ Size <= Size BY Ends
  <2>3. \A i \in Sub : Offsets[i] \in Nat /\ Offsets[i + 1] \in Nat /\ Offsets[i + 1] <= Size BY Ends
  <2>4. m_left = invalid_size(pieces) BY <2>1, <2>2, PassedEnds DEF invalid_size
  <2>5. \A i \in Sub : left[i] = left_of(pieces, i) BY <2>1, <2>3, PassedEnds DEF left_of
  <2>6. \A a \in Pieces : a < count BY Counted, PieceEnds
  <2> QED BY <2>1, <2>4, <2>5, <2>6
<1>8. Counts' BY <1>1, <1>7 DEF Counts, LeftAddsUp, WritableWhileLeft
<1>9. OpenData' BY <1>1, <1>7 DEF OpenData, ValidRight
<1>10. ClosedData' BY <1>3 DEF ClosedData
<1>11. SavedData' BY <1>1, <1>2, <1>3 DEF SavedData, Intact
<1> QED BY <1>5, <1>6, <1>8, <1>9, <1>10, <1>11 DEF Inv

-----------------------------------------------------------------------------
(* A chunk that comes.                                                     *)

Byte == {"right", "wrong", "hole"}

\* A chunk lies in its piece.
LEMMA ChunkLies ==
  ASSUME NEW i \in Sub, NEW a \in Pieces, NEW c \in chunks(a)
  PROVE  within(i, chunk_start(a, c), chunk_size(a, c)) \subseteq bytes_of(a, Offsets[i], Offsets[i + 1])
<1> DEFINE s == a * PieceBytes
           n == piece_size(a)
           d == c * ChunkBytes
           x == chunk_start(a, c)
           m == chunk_size(a, c)
<1>1. s \in Nat /\ n \in Nat /\ d \in Nat
  <2>1. s \in Nat /\ n \in Nat BY PieceEnds
  <2>2. c \in Nat BY DEF chunks
  <2> QED BY <2>1, <2>2, FilesAssumption
<1>2. x = s + d BY DEF chunk_start
<1>3. m = (IF ChunkBytes < n - d THEN ChunkBytes ELSE n - d) /\ ChunkBytes \in Nat
  BY FilesAssumption DEF chunk_size, least
<1>4. Offsets[i] \in Nat /\ Offsets[i + 1] \in Nat BY Ends
<1>5. within(i, s, n) = (IF Offsets[i] < s THEN s ELSE Offsets[i])..
                        (IF Offsets[i + 1] < s + n THEN Offsets[i + 1] ELSE s + n) - 1
  BY DEF within, most, least
<1>6. within(i, x, m) = (IF Offsets[i] < x THEN x ELSE Offsets[i])..
                        (IF Offsets[i + 1] < x + m THEN Offsets[i + 1] ELSE x + m) - 1
  BY DEF within, most, least
<1>7. within(i, s, n) = bytes_of(a, Offsets[i], Offsets[i + 1]) BY WithinPiece
<1> HIDE DEF s, n, d, x, m
<1>8. x \in Nat /\ m \in Int /\ s <= x /\ x + m <= s + n BY <1>1, <1>2, <1>3
<1>9. within(i, x, m) \subseteq within(i, s, n) BY <1>1, <1>4, <1>5, <1>6, <1>8
<1> QED BY <1>7, <1>9 DEF x, m

\* What it leaves in the sub files: each keeps its length, none goes, no other piece is touched.
LEMMA Written ==
  ASSUME TypeInv, m_name \in Dirs, NEW a \in Pieces, NEW c \in chunks(a), NEW value \in {"right", "wrong"}, NEW bad
  PROVE  LET fs == written(files[m_name], chunk_start(a, c), chunk_size(a, c), value, bad)
         IN /\ fs \in [Sub -> Seq(Byte)]
            /\ \A i \in Sub : fs[i] # Missing => Len(fs[i]) = length(i)
            /\ \A i \in Sub : files[m_name][i] # Missing => fs[i] # Missing
            /\ \A b \in Pieces \ {a} : right(files[m_name], b) => right(fs, b)
<1> DEFINE x == chunk_start(a, c)
           n == chunk_size(a, c)
           old == files[m_name]
           fs == written(old, x, n, value, bad)
           kept(i) == i \notin touched(x, n) \/ i \in bad \/ handle[i] = "ro"
           byte(i, k) == IF Offsets[i] + k - 1 \in within(i, x, n) THEN value
                         ELSE IF old[i] = Missing THEN "hole" ELSE old[i][k]
<1>1. /\ DOMAIN fs = Sub
      /\ \A i \in Sub : fs[i] = IF kept(i) THEN old[i] ELSE [k \in 1..length(i) |-> byte(i, k)]
  BY DEF written
<1>2. old \in [Sub -> Seq(Byte)] /\ \A i \in Sub : old[i] # Missing => Len(old[i]) = length(i)
  BY DEF TypeInv, here, Byte
<1>3. ASSUME NEW i \in Sub, ~kept(i)
      PROVE  /\ length(i) \in Nat \ {0} /\ [k \in 1..length(i) |-> byte(i, k)] \in Seq(Byte)
             /\ Len([k \in 1..length(i) |-> byte(i, k)]) = length(i)
             /\ [k \in 1..length(i) |-> byte(i, k)] # Missing
  <2>1. i \in touched(x, n) BY <1>3
  <2>2. PICK k \in within(i, x, n) : TRUE BY <2>1 DEF touched
  <2>3. within(i, x, n) \subseteq Bytes(Offsets[i], Offsets[i + 1]) BY ChunkLies DEF bytes_of
  <2>4. k \in Bytes(Offsets[i], Offsets[i + 1]) BY <2>2, <2>3
  <2>5. length(i) \in Nat \ {0} BY <2>4, Ends DEF Bytes, length
  <2>6. \A j \in 1..length(i) : byte(i, j) \in Byte
    <3>1. \A j \in 1..length(i) : old[i] # Missing => old[i][j] \in Byte BY <1>2
    <3> QED BY <3>1 DEF Byte
  <2> HIDE DEF byte
  <2>7. [j \in 1..length(i) |-> byte(i, j)] \in [1..length(i) -> Byte] BY <2>6
  <2>8. /\ [j \in 1..length(i) |-> byte(i, j)] \in Seq(Byte)
        /\ Len([j \in 1..length(i) |-> byte(i, j)]) = length(i)
    BY <2>5, <2>7
  <2>9. Len(Missing) = 0 BY DEF Missing
  <2> QED BY <2>5, <2>8, <2>9
<1> HIDE DEF kept, byte, old
<1>4. \A i \in Sub : fs[i] \in Seq(Byte) BY <1>1, <1>2, <1>3
<1>5. fs \in [Sub -> Seq(Byte)]
  <2>1. fs = [i \in Sub |-> fs[i]] BY DEF written
  <2> HIDE DEF fs
  <2> QED BY <2>1, <1>4
<1>6. \A i \in Sub : fs[i] # Missing => Len(fs[i]) = length(i) BY <1>1, <1>2, <1>3
<1>7. \A i \in Sub : old[i] # Missing => fs[i] # Missing BY <1>1, <1>3
<1>8. ASSUME NEW b \in Pieces \ {a}, right(old, b) PROVE right(fs, b)
  <2> SUFFICES ASSUME NEW i \in Sub, NEW k \in within(i, b * PieceBytes, piece_size(b))
               PROVE  fs[i] # Missing /\ fs[i][k - Offsets[i] + 1] = "right"
    BY DEF right
  <2>1. old[i] # Missing /\ old[i][k - Offsets[i] + 1] = "right" BY <1>8 DEF right
  <2>2. k \in Bytes(Offsets[i], Offsets[i + 1]) /\ k \div PieceBytes = b BY WithinPiece DEF bytes_of
  <2>3. k \notin within(i, x, n) BY <2>2, ChunkLies DEF bytes_of
  <2>4. Offsets[i] \in Nat /\ Offsets[i + 1] \in Nat BY Ends
  <2> DEFINE j == k - Offsets[i] + 1
  <2>5. k \in Int /\ j \in 1..length(i) /\ Offsets[i] + j - 1 = k BY <2>2, <2>4 DEF Bytes, length
  <2>6. CASE kept(i) BY <2>1, <2>6, <1>1
  <2>7. CASE ~kept(i)
    <3>1. byte(i, j) = "right" BY <2>1, <2>3, <2>5 DEF byte
    <3> HIDE DEF j
    <3>2. fs[i][j] = byte(i, j) BY <1>1, <2>5, <2>7
    <3> QED BY <1>7, <2>1, <3>1, <3>2 DEF j
  <2> QED BY <2>6, <2>7
<1> QED BY <1>5, <1>6, <1>7, <1>8 DEF old

\* Pieces that are valid or not as before have as much left.
LEMMA SameLeft ==
  ASSUME NEW ps, NEW qs, \A b \in Pieces : qs[b].valid = ps[b].valid,
         NEW x \in Nat, NEW y \in Nat, y <= Size
  PROVE  invalid_bytes(qs, x, y) = invalid_bytes(ps, x, y)
<1>1. lacking(qs, x, y) = lacking(ps, x, y) BY Spans DEF lacking
<1> QED BY <1>1 DEF invalid_bytes, lacking, Bytes

\* The torrent is moved to the completes, and its files are opened again.
LEMMA CompleteMoves ==
  ASSUME TypeInv, is_open, NEW fs, complete(fs), state' \in {"running", "paused"},
         fs \in [Dirs -> [Sub -> Seq(Byte)]],
         \A dir \in Dirs, i \in Sub : fs[dir][i] # Missing => Len(fs[dir][i]) = length(i)
  PROVE  /\ m_name' \in Dirs /\ files'[m_name'] = fs[m_name]
         /\ files' \in [Dirs -> [Sub -> Seq(Byte)]]
         /\ \A dir \in Dirs, i \in Sub : files'[dir][i] # Missing => Len(files'[dir][i]) = length(i)
         /\ handle' \in [Sub -> {"none", "ro", "rw"}]
         /\ \A i \in Sub : handle'[i] = "none" <=> files'[m_name'][i] = Missing
         /\ m_left' = 0 \/ \A i \in Sub : handle'[i] = "ro" => handle[i] = "ro" \/ left'[i] = 0
<1>1. m_name \in Dirs BY DEF TypeInv
<1>2. CASE m_left' = 0 /\ m_name = "incompletes"
  <2> DEFINE free == \A i \in Sub : fs["completes"][i] = Missing
             gone == [i \in Sub |-> Missing]
             all == IF free THEN [incompletes |-> gone, completes |-> fs["incompletes"]] ELSE fs
             name == IF free THEN "completes" ELSE m_name
  <2>1. /\ files' = all /\ m_name' = name
        /\ handle' = [i \in Sub |-> IF all[name][i] # Missing THEN "ro" ELSE "none"]
    BY <1>2 DEF complete
  <2>2. all[name] = fs[m_name] /\ name \in Dirs BY <1>2 DEF Dirs
  <2>3. gone \in [Sub -> Seq(Byte)] /\ \A i \in Sub : gone[i] = Missing BY DEF Missing
  <2>4. all \in [Dirs -> [Sub -> Seq(Byte)]]
    <3>1. CASE free
      <4>1. fs["incompletes"] \in [Sub -> Seq(Byte)] BY DEF Dirs
      <4> HIDE DEF gone
      <4> QED BY <3>1, <4>1, <2>3 DEF Dirs
    <3>2. CASE ~free BY <3>2
    <3> QED BY <3>1, <3>2
  <2>5. \A dir \in Dirs, i \in Sub : all[dir][i] # Missing => Len(all[dir][i]) = length(i)
    <3>1. CASE free
      <4>1. all["incompletes"] = gone /\ all["completes"] = fs["incompletes"] BY <3>1
      <4> HIDE DEF all, gone
      <4> QED BY <4>1, <2>3 DEF Dirs
    <3>2. CASE ~free BY <3>2
    <3> QED BY <3>1, <3>2
  <2> HIDE DEF all, name
  <2> QED BY <2>1, <2>2, <2>4, <2>5, <1>2
<1>3. CASE ~(m_left' = 0 /\ m_name = "incompletes")
  <2>1. /\ files' = fs /\ m_name' = m_name
        /\ handle' = [i \in Sub |-> IF fs[m_name][i] = Missing THEN "none"
                                     ELSE IF left[i] # left'[i] /\ left'[i] = 0 THEN "ro"
                                     ELSE IF handle[i] = "none" THEN "rw" ELSE handle[i]]
    BY <1>3 DEF complete
  <2>2. handle \in [Sub -> {"none", "ro", "rw"}] BY DEF TypeInv
  <2> QED BY <1>1, <2>1, <2>2
<1> QED BY <1>2, <1>3

LEMMA WriteInv ==
  ASSUME Inv, NEW a \in Pieces, NEW c \in chunks(a), NEW value \in {"right", "wrong"}, NEW bad,
         write_data(a, c, value, bad)
  PROVE  Inv'
<1> DEFINE x == chunk_start(a, c)
           n == chunk_size(a, c)
           one == written(files[m_name], x, n, value, bad)
           fs == [files EXCEPT ![m_name] = one]
           got == pieces[a].got \cup {c}
           v == got = chunks(a) /\ right(fs[m_name], a)
           p == [valid |-> v, got |-> IF got = chunks(a) THEN {} ELSE got]
<1>1. /\ state \in {"running", "paused"} /\ hashed = NoHasher /\ ~pieces[a].valid
      /\ state' \in {"running", "paused"} /\ pieces' = [pieces EXCEPT ![a] = p]
      /\ m_left' = (IF v THEN m_left - piece_size(a) ELSE m_left)
      /\ left' = (IF v THEN left_after(a) ELSE left)
      /\ complete(fs)
      /\ UNCHANGED <<m_validate, hashed, saved, spoilt>>
  <2>1. state' = state \/ state' = "paused" BY DEF write_data
  <2>2. /\ state \in {"running", "paused"} /\ hashed = NoHasher /\ ~pieces[a].valid
        /\ pieces' = [pieces EXCEPT ![a] = p]
        /\ m_left' = (IF v THEN m_left - piece_size(a) ELSE m_left)
        /\ left' = (IF v THEN left_after(a) ELSE left)
        /\ UNCHANGED <<m_validate, hashed, saved, spoilt>>
    BY DEF write_data
  <2>3. files[m_name] = files[m_name] /\ fs = [files EXCEPT ![m_name] = written(@, x, n, value, bad)] OBVIOUS
  <2>4. complete(fs) BY <2>3 DEF write_data
  <2> QED BY <2>1, <2>2, <2>4
<1>2. TypeInv /\ is_open /\ ready /\ is_open' /\ ready' /\ m_name \in Dirs
  BY <1>1 DEF Inv, TypeInv, is_open, ready
<1>3. /\ one \in [Sub -> Seq(Byte)]
      /\ \A i \in Sub : one[i] # Missing => Len(one[i]) = length(i)
      /\ \A b \in Pieces \ {a} : right(files[m_name], b) => right(one, b)
  BY <1>2, Written
<1> HIDE DEF one
<1>4. /\ fs \in [Dirs -> [Sub -> Seq(Byte)]] /\ fs[m_name] = one
      /\ \A dir \in Dirs, i \in Sub : fs[dir][i] # Missing => Len(fs[dir][i]) = length(i)
  <2>1. files \in [Dirs -> [Sub -> Seq(Byte)]] BY <1>2 DEF TypeInv, Byte
  <2>2. \A dir \in Dirs, i \in Sub : files[dir][i] # Missing => Len(files[dir][i]) = length(i)
    BY <1>2 DEF TypeInv, here
  <2> QED BY <1>2, <1>3, <2>1, <2>2
<1> HIDE DEF fs
<1>5. /\ pieces' \in PieceMap /\ (pieces'[a].valid <=> v)
      /\ \A b \in Pieces \ {a} : pieces'[b] = pieces[b]
  <2>1. pieces \in PieceMap /\ pieces[a] \in PieceRecord BY <1>2 DEF TypeInv, PieceMap
  <2>2. v \in BOOLEAN BY DEF right
  <2>3. got \in SUBSET Nat BY <2>1 DEF PieceRecord, chunks
  <2> HIDE DEF v, got
  <2>4. p \in PieceRecord /\ p.valid = v BY <2>2, <2>3 DEF PieceRecord
  <2> HIDE DEF p
  <2> QED BY <1>1, <2>1, <2>2, <2>4 DEF PieceMap
<1>6. /\ m_name' \in Dirs /\ files'[m_name'] = one
      /\ files' \in [Dirs -> [Sub -> Seq(Byte)]]
      /\ \A dir \in Dirs, i \in Sub : files'[dir][i] # Missing => Len(files'[dir][i]) = length(i)
      /\ handle' \in [Sub -> {"none", "ro", "rw"}]
      /\ \A i \in Sub : handle'[i] = "none" <=> files'[m_name'][i] = Missing
      /\ m_left' = 0 \/ \A i \in Sub : handle'[i] = "ro" => handle[i] = "ro" \/ left'[i] = 0
  BY <1>1, <1>2, <1>4, CompleteMoves
<1> HIDE DEF p
<1>7. TypeInv' BY <1>1, <1>2, <1>5, <1>6 DEF TypeInv, Names, Byte, here
<1>8. HashInv' BY <1>1 DEF HashInv
<1>9. /\ m_left = invalid_size(pieces) /\ \A i \in Sub : left[i] = left_of(pieces, i)
      /\ \A i \in Sub : handle[i] = "ro" => left_of(pieces, i) = 0
  BY <1>2 DEF Inv, Counts, LeftAddsUp, WritableWhileLeft
<1>10. ASSUME NEW y \in Nat, NEW z \in Nat, z <= Size
       PROVE  invalid_bytes(pieces', y, z) = invalid_bytes(pieces, y, z)
                - (IF v THEN Cardinality(bytes_of(a, y, z)) ELSE 0)
  <2>1. CASE v
    <3>1. \A b \in Pieces \ {a} : pieces'[b].valid = pieces[b].valid BY <1>5
    <3>2. pieces'[a].valid /\ ~pieces[a].valid BY <2>1, <1>1, <1>5
    <3>3. invalid_bytes(pieces', y, z) = invalid_bytes(pieces, y, z) - Cardinality(bytes_of(a, y, z))
      BY <3>1, <3>2, <1>10, NowValid
    <3> HIDE DEF v
    <3> QED BY <2>1, <3>3
  <2>2. CASE ~v
    <3>1. \A b \in Pieces : pieces'[b].valid = pieces[b].valid
      <4>1. pieces'[a].valid \in BOOLEAN /\ pieces[a].valid \in BOOLEAN
        BY <1>2, <1>5 DEF TypeInv, PieceMap, PieceRecord
      <4> QED BY <4>1, <1>1, <1>5, <2>2
    <3>2. invalid_bytes(pieces', y, z) = invalid_bytes(pieces, y, z) BY <3>1, <1>10, SameLeft
    <3>3. invalid_bytes(pieces, y, z) \in Nat
      <4>1. lacking(pieces, y, z) \in SUBSET Bytes(y, z) BY DEF lacking
      <4>2. Cardinality(lacking(pieces, y, z)) \in Nat BY <4>1, <1>10, Spans
      <4> QED BY <4>2 DEF invalid_bytes, lacking, Bytes
    <3> QED BY <2>2, <3>2, <3>3
  <2> QED BY <2>1, <2>2
<1>11. m_left' = invalid_size(pieces')
  <2>1. 0 \in Nat /\ Size \in Nat /\ Size <= Size BY Ends
  <2>2. Cardinality(bytes_of(a, 0, Size)) = piece_size(a) BY SizeOfPiece
  <2>3. invalid_bytes(pieces', 0, Size) = invalid_bytes(pieces, 0, Size) - (IF v THEN piece_size(a) ELSE 0)
    BY <1>10, <2>1, <2>2
  <2>4. invalid_bytes(pieces, 0, Size) \in Nat
    <3>1. lacking(pieces, 0, Size) \in SUBSET Bytes(0, Size) BY DEF lacking
    <3>2. Cardinality(lacking(pieces, 0, Size)) \in Nat BY <3>1, <2>1, Spans
    <3> QED BY <3>2 DEF invalid_bytes, lacking, Bytes
  <2> HIDE DEF v
  <2> QED BY <1>1, <1>9, <2>3, <2>4 DEF invalid_size
<1>12. ASSUME NEW i \in Sub PROVE left'[i] = left_of(pieces', i) /\ (left_of(pieces, i) = 0 => left_of(pieces', i) = 0)
  <2>1. Offsets[i] \in Nat /\ Offsets[i + 1] \in Nat /\ Offsets[i + 1] <= Size BY Ends
  <2>2. of_piece(i, a) = Cardinality(bytes_of(a, Offsets[i], Offsets[i + 1])) /\ of_piece(i, a) \in Nat BY OfPiece
  <2>3. left_of(pieces', i) = left_of(pieces, i) - (IF v THEN of_piece(i, a) ELSE 0)
    BY <1>10, <2>1, <2>2 DEF left_of
  <2>4. left_of(pieces, i) \in Nat /\ left_of(pieces', i) \in Nat
    <3>1. lacking(pieces, Offsets[i], Offsets[i + 1]) \in SUBSET Bytes(Offsets[i], Offsets[i + 1])
          /\ lacking(pieces', Offsets[i], Offsets[i + 1]) \in SUBSET Bytes(Offsets[i], Offsets[i + 1])
      BY DEF lacking
    <3>2. /\ Cardinality(lacking(pieces, Offsets[i], Offsets[i + 1])) \in Nat
          /\ Cardinality(lacking(pieces', Offsets[i], Offsets[i + 1])) \in Nat
      BY <3>1, <2>1, Spans
    <3> QED BY <3>2 DEF left_of, invalid_bytes, lacking, Bytes
  <2>5. left'[i] = (IF v THEN left[i] - of_piece(i, a) ELSE left[i]) BY <1>1 DEF left_after
  <2> HIDE DEF v
  <2> QED BY <1>9, <2>2, <2>3, <2>4, <2>5
<1>13. Counts'
  <2>1. LeftAddsUp' BY <1>11, <1>12 DEF LeftAddsUp
  <2>2. ASSUME NEW i \in Sub, handle'[i] = "ro" PROVE left_of(pieces', i) = 0
    <3>1. CASE m_left' = 0 BY <3>1, <1>11, AllValid
    <3>2. CASE m_left' # 0 BY <3>2, <2>2, <1>6, <1>9, <1>12
    <3> QED BY <3>1, <3>2
  <2> QED BY <2>1, <2>2 DEF Counts, WritableWhileLeft
<1>14. OpenData'
  <2> SUFFICES ASSUME Sure, NEW b \in Pieces, pieces'[b].valid PROVE right(one, b)
    BY <1>1, <1>6 DEF OpenData, Sure, ValidRight
  <2>1. CASE b = a BY <2>1, <1>4, <1>5
  <2>2. CASE b # a
    <3>1. right(files[m_name], b) BY <2>2, <1>2, <1>5 DEF Inv, OpenData, ValidRight
    <3> QED BY <3>1, <2>2, <1>3
  <2> QED BY <2>1, <2>2
<1>15. ClosedData' BY <1>2 DEF ClosedData
<1>16. SavedData' BY <1>1 DEF Inv, SavedData, AllValidNow, Intact
<1> QED BY <1>7, <1>8, <1>13, <1>14, <1>15, <1>16 DEF Inv

-----------------------------------------------------------------------------
(* The theorems.                                                           *)

LEMMA StutterInv == ASSUME Inv, UNCHANGED vars PROVE Inv'
<1>1. /\ UNCHANGED <<m_name, handle, left, m_left, pieces, m_validate, state, hashed>>
      /\ UNCHANGED <<files, saved, spoilt>>
  BY DEF vars, torrent
<1>2. (is_open' <=> is_open) /\ (ready' <=> ready) /\ \A dir, i : here(dir, i)' <=> here(dir, i)
  BY <1>1 DEF is_open, ready, here
<1>3. TypeInv' BY <1>1, <1>2 DEF Inv, TypeInv, here
<1>4. HashInv' /\ Counts' BY <1>1, <1>2 DEF Inv, HashInv, Counts, LeftAddsUp, WritableWhileLeft
<1>5. OpenData' /\ ClosedData' /\ SavedData'
  BY <1>1, <1>2 DEF Inv, OpenData, ClosedData, SavedData, Sure, Intact, AllValidNow, ValidRight, ValidSound
<1> QED BY <1>3, <1>4, <1>5 DEF Inv

LEMMA StepInv == Inv /\ [Next]_vars => Inv'
<1> SUFFICES ASSUME Inv, [Next]_vars PROVE Inv' OBVIOUS
<1>1. CASE start BY <1>1, StartInv
<1>2. CASE hash_piece BY <1>2, HashPieceInv, HashedInv
<1>3. CASE close BY <1>3, CloseInv
<1>4. CASE save_state BY <1>4, SaveInv
<1>5. CASE crash BY <1>5, CrashInv
<1>6. CASE \E dir \in Dirs, i \in Sub : remove(dir, i) BY <1>6, RemoveInv
<1>7. CASE \E a \in Pieces : \E c \in chunks(a) :
             \E value \in {"right", "wrong"}, bad \in SUBSET touched(chunk_start(a, c), chunk_size(a, c)) :
               write_data(a, c, value, bad)
  BY <1>7, WriteInv
<1>8. CASE UNCHANGED vars BY <1>8, StutterInv
<1> QED BY <1>1, <1>2, <1>3, <1>4, <1>5, <1>6, <1>7, <1>8 DEF Next

\* Whatever is written, refused, removed, crashed and started again: what is left of the torrent
\* and of each sub file is counted right (bt_file.cpp:195), valid pieces are on disk in files
\* that are open, and no file that lacks something is open for reading only.
THEOREM FilesHold == Spec => []FilesHoldData
<1>1. Inv => FilesHoldData
  <2> SUFFICES ASSUME Inv PROVE FilesHoldData OBVIOUS
  <2>1. LeftAddsUp /\ WritableWhileLeft BY DEF Inv, Counts
  <2>2. ValidOnDisk
    <3> SUFFICES ASSUME ready, Sure, NEW a \in Pieces, pieces[a].valid
                 PROVE  readable(a) /\ right(files[m_name], a)
      BY DEF ValidOnDisk, Sure
    <3>1. right(files[m_name], a) BY DEF Inv, OpenData, ValidRight
    <3> QED BY <3>1, RightIsReadable DEF Inv, ready
  <2> QED BY <2>1, <2>2 DEF FilesHoldData
<1> QED BY InitInv, StepInv, <1>1, PTL DEF Spec

-----------------------------------------------------------------------------
(* The window and its icon.                                                *)

\* The types, and that only a program that runs has its options open.
TrayInv ==
  /\ {t_up, visible, iconic, active, m_initial_hide, m_hide_on_deactivate, m_show_tray_icon, hot_key,
      t_options, shell, icon} \subseteq BOOLEAN
  /\ timer \in 0..Window!None /\ t_profile \in Window!Choices
  /\ t_options => t_up
  /\ Window!IconAsWanted /\ Window!HidesWhenLeft

LEMMA TrayInit == Window!Init => TrayInv
<1>1. Window!None \in 0..Window!None BY TrayAssumption DEF Window!None
<1> QED BY <1>1 DEF Window!Init, TrayInv, Window!IconAsWanted, Window!HidesWhenLeft

LEMMA TrayNext == TrayInv /\ [Window!Next]_(Window!vars) => TrayInv'
<1> SUFFICES ASSUME TrayInv, [Window!Next]_(Window!vars) PROVE TrayInv' OBVIOUS
<1> DEFINE N == IdleTime + 1
<1> USE DEF TrayInv, Window!IconAsWanted, Window!HidesWhenLeft, Window!place, Window!settings, Window!outside
<1>1. Window!None = N /\ IdleTime \in Nat /\ N \in Nat /\ IdleTime # N /\ IdleTime \in 0..N /\ N \in 0..N
  BY TrayAssumption DEF Window!None
<1> HIDE DEF N
<1>2. CASE Window!OnInitDialog BY <1>1, <1>2 DEF Window!OnInitDialog, Window!register_tray, Window!Choices
<1>3. CASE Window!OnDestroy BY <1>1, <1>3 DEF Window!OnDestroy, Window!unregister_tray
<1>4. ASSUME NEW b \in BOOLEAN, Window!OnEndSession(b) PROVE TrayInv' BY <1>1, <1>4 DEF Window!OnEndSession
<1>5. CASE Window!OnTimer BY <1>1, <1>5 DEF Window!OnTimer
<1>6. CASE Window!Second
  <2>1. timer' \in 0..N /\ timer # N BY <1>1, <1>6 DEF Window!Second, N
  <2> QED BY <1>1, <1>6, <2>1 DEF Window!Second
<1>7. CASE Window!OnTimer2 BY <1>1, <1>7 DEF Window!OnTimer2, Window!HideWindow
<1>8. ASSUME NEW b \in BOOLEAN, Window!OnActivateApp(b) PROVE TrayInv'
  BY <1>1, <1>8 DEF Window!OnActivateApp, Window!activated, Window!left_alone
<1>9. CASE Window!toggled
  BY <1>1, <1>9 DEF Window!toggled, Window!HideWindow, Window!ShowWindow, Window!to_front, Window!activated
<1>10. CASE Window!SecondStart
  <2>1. /\ UNCHANGED <<t_up, m_initial_hide, t_profile, m_show_tray_icon, m_hide_on_deactivate, hot_key, t_options,
                        shell, icon>>
        /\ visible' = ~m_initial_hide /\ iconic' = (iconic /\ m_initial_hide)
    BY <1>10 DEF Window!SecondStart, Window!ShowWindow
  <2>2. \/ active' = active /\ timer' = timer
        \/ active' = TRUE /\ timer' = IF active THEN timer ELSE Window!activated
    BY <1>10 DEF Window!SecondStart, Window!to_front
  <2>3. timer' \in 0..N /\ active' \in BOOLEAN /\ (t_up /\ timer' # N => ~active' /\ m_hide_on_deactivate)
    <3>1. /\ active \in BOOLEAN /\ timer \in 0..N /\ N \in 0..N
          /\ t_up /\ timer # N => ~active /\ m_hide_on_deactivate
      BY <1>1
    <3>2. CASE active' = active /\ timer' = timer BY <3>1, <3>2
    <3>3. CASE active' = TRUE /\ timer' = IF active THEN timer ELSE Window!activated
      <4>1. CASE active BY <3>1, <3>3, <4>1
      <4>2. CASE ~active /\ m_hide_on_deactivate
        <5>1. timer' = N BY <1>1, <3>3, <4>2 DEF Window!activated
        <5> QED BY <3>1, <3>3, <5>1
      <4>3. CASE ~active /\ ~m_hide_on_deactivate
        <5>1. timer' = timer BY <3>3, <4>3 DEF Window!activated
        <5> QED BY <3>1, <3>3, <4>3, <5>1
      <4> QED BY <4>1, <4>2, <4>3
    <3> QED BY <2>2, <3>2, <3>3
  <2> QED BY <1>1, <2>1, <2>3
<1>11. CASE Window!Escape BY <1>1, <1>11 DEF Window!Escape, Window!HideWindow
<1>12. CASE Window!OnSysCommandMinimize BY <1>1, <1>12 DEF Window!OnSysCommandMinimize, Window!HideWindow
<1>13. CASE Window!Restore BY <1>1, <1>13 DEF Window!Restore
<1>14. CASE Window!OnPopupViewTrayIcon
  BY <1>1, <1>14
     DEF Window!OnPopupViewTrayIcon, Window!update_icon, Window!register_tray, Window!unregister_tray, Window!Choices
<1>15. CASE Window!OnToolsOptions BY <1>1, <1>15 DEF Window!OnToolsOptions
<1>16. CASE Window!OptionsCancel BY <1>1, <1>16 DEF Window!OptionsCancel
<1>17. ASSUME NEW c \in Window!Choices, Window!OptionsOK(c) PROVE TrayInv'
  BY <1>1, <1>17 DEF Window!OptionsOK, Window!update_icon, Window!register_tray, Window!unregister_tray, Window!Choices
<1>18. CASE Window!ShellCrash BY <1>1, <1>18 DEF Window!ShellCrash
<1>19. CASE Window!OnTaskbarCreated BY <1>1, <1>19 DEF Window!OnTaskbarCreated
<1>20. CASE UNCHANGED Window!vars BY <1>20 DEF Window!vars
<1> QED
  BY <1>2, <1>3, <1>4, <1>5, <1>6, <1>7, <1>8, <1>9, <1>10, <1>11, <1>12, <1>13, <1>14, <1>15, <1>16, <1>17,
     <1>18, <1>19, <1>20 DEF Window!Next, Window!OnHotKey, Window!OnTray

-----------------------------------------------------------------------------
(* The listening port.                                                     *)

PortsInv ==
  /\ p_up \in BOOLEAN /\ turned \in BOOLEAN
  /\ config_port \in {0} \cup Listening!Numbers /\ others \subseteq Listening!Numbers
  /\ Listening!ReachedWhereTold

\* There is always a port to try, if only the one after the last.
LEMMA FirstFree ==
  ASSUME PortsInv, config_port # 0
  PROVE  Listening!first_free(config_port) \in config_port..(HighPort + 1)
<1> DEFINE S == {p \in config_port..(HighPort + 1) : p \notin others}
<1>1. config_port \in Nat /\ config_port <= HighPort /\ HighPort + 1 \notin others
  BY PortsAssumption DEF PortsInv, Listening!Numbers
<1>2. HighPort + 1 \in S /\ S \in SUBSET Nat BY <1>1, PortsAssumption
<1> HIDE DEF S
<1>3. PICK p \in S : \A q \in S : p <= q BY <1>2, Smallest
<1>4. \A q \in config_port..(p - 1) : q \in others
  <2> SUFFICES ASSUME NEW q \in config_port..(p - 1), q \notin others PROVE FALSE OBVIOUS
  <2>1. q \in S /\ q < p /\ p \in Nat BY <1>1, <1>2, <1>3, PortsAssumption DEF S
  <2> QED BY <1>3, <2>1
<1>5. \E p_ \in config_port..(HighPort + 1) : p_ \notin others /\ \A q \in config_port..(p_ - 1) : q \in others
  BY <1>3, <1>4 DEF S
<1> QED BY <1>5 DEF Listening!first_free

LEMMA PortsInit == Listening!Init => PortsInv
BY DEF Listening!Init, PortsInv, Listening!ReachedWhereTold

LEMMA PortsNext == PortsInv /\ [Listening!Next]_(Listening!vars) => PortsInv'
<1> SUFFICES ASSUME PortsInv, [Listening!Next]_(Listening!vars) PROVE PortsInv' OBVIOUS
<1> USE DEF PortsInv, Listening!ReachedWhereTold
<1>1. CASE Listening!run
  <2>1. CASE config_port = 0
    <3>1. m_peer_port' = 0 /\ socket' = 0 /\ 0 # Listening!Any BY <1>1, <2>1 DEF Listening!run, Listening!Any
    <3> QED BY <1>1, <3>1 DEF Listening!run
  <2>2. CASE config_port # 0
    <3>1. m_peer_port' \in config_port..(HighPort + 1) BY <1>1, <2>2, FirstFree DEF Listening!run
    <3>2. socket' = (IF m_peer_port' \in Listening!Numbers THEN m_peer_port' ELSE Listening!Any)
      BY <1>1, <2>2 DEF Listening!run
    <3>3. m_peer_port' \in Listening!Numbers \/ m_peer_port' = HighPort + 1
      BY <2>2, <3>1, PortsAssumption DEF Listening!Numbers
    <3>4. Listening!Any \notin Listening!Numbers BY PortsAssumption DEF Listening!Any, Listening!Numbers
    <3> QED BY <1>1, <3>2, <3>3, <3>4 DEF Listening!run
  <2> QED BY <2>1, <2>2
<1>2. CASE Listening!turn
  <2>1. 0 # Listening!Any /\ Listening!Any \notin Listening!Numbers /\ 0 \notin Listening!Numbers
    BY PortsAssumption DEF Listening!Any, Listening!Numbers
  <2>2. CASE ~Listening!rebound BY <1>2, <2>2 DEF Listening!turn, Listening!rebound
  <2>3. CASE Listening!rebound /\ config_port = 0 BY <1>2, <2>1, <2>3 DEF Listening!turn
  <2>4. CASE Listening!rebound /\ config_port # 0 /\ Listening!free(config_port, socket)
    BY <1>2, <2>1, <2>4 DEF Listening!turn, Listening!free
  <2>5. CASE Listening!rebound /\ config_port # 0 /\ ~Listening!free(config_port, socket)
    BY <1>2, <2>1, <2>5 DEF Listening!turn, Listening!free, Listening!rebound
  <2> QED BY <2>2, <2>3, <2>4, <2>5
<1>3. CASE Listening!stop BY <1>3 DEF Listening!stop
<1>4. ASSUME NEW v \in {0} \cup Listening!Numbers, Listening!peer_port(v) PROVE PortsInv'
  BY <1>4 DEF Listening!peer_port, Listening!one_more
<1>5. ASSUME NEW p \in Listening!Numbers, Listening!others_take(p) \/ Listening!others_give(p) PROVE PortsInv'
  <2>1. CASE Listening!others_take(p) BY <1>5, <2>1 DEF Listening!others_take, Listening!one_more, Listening!free
  <2>2. CASE Listening!others_give(p) BY <1>5, <2>2 DEF Listening!others_give, Listening!one_more
  <2> QED BY <1>5, <2>1, <2>2
<1>6. CASE UNCHANGED Listening!vars BY <1>6 DEF Listening!vars
<1> QED BY <1>1, <1>2, <1>3, <1>4, <1>5, <1>6 DEF Listening!Next

-----------------------------------------------------------------------------
(* The links with peers.                                                   *)

\* What at has kept after n elements, as a function up to there.
went(t, s, I, n) ==
  t = [i \in 0..n |-> IF i = 0 THEN <<>> ELSE IF i \in I THEN Append(t[i - 1], s[i]) ELSE t[i - 1]]

LEMMA AtPassed ==
  ASSUME NEW s, NEW I, Len(s) \in Nat
  PROVE  \E t : went(t, s, I, Len(s)) /\ Swarm!at(s, I) = t[Len(s)]
<1> DEFINE next(a, i) == IF i \in I THEN Append(a, s[i]) ELSE a
           S == {n \in Nat : \E t : went(t, s, I, n)}
<1>1. 0 \in S
  <2> DEFINE t == [i \in 0..0 |-> <<>>]
  <2>1. went(t, s, I, 0) BY DEF went
  <2> QED BY <2>1
<1>2. ASSUME NEW n \in Nat, n \in S PROVE n + 1 \in S
  <2>1. PICK t : went(t, s, I, n) BY <1>2
  <2>2. \A i \in 0..n : t[i] = IF i = 0 THEN <<>> ELSE next(t[i - 1], i) BY <2>1 DEF went
  <2> HIDE DEF next
  <2> DEFINE u == [i \in 0..(n + 1) |-> IF i = n + 1 THEN next(t[n], n + 1) ELSE t[i]]
  <2>3. ASSUME NEW i \in 0..(n + 1) PROVE u[i] = IF i = 0 THEN <<>> ELSE next(u[i - 1], i)
    <3>1. CASE i = 0 BY <2>2, <3>1
    <3>2. CASE i # 0 /\ i # n + 1
      <4>1. i \in 0..n /\ i - 1 \in 0..n BY <3>2
      <4>2. u[i] = t[i] /\ u[i - 1] = t[i - 1] BY <4>1
      <4> QED BY <2>2, <3>2, <4>1, <4>2
    <3>3. CASE i = n + 1
      <4>1. u[i] = next(t[n], i) /\ u[i - 1] = t[n] BY <3>3
      <4> QED BY <3>3, <4>1
    <3> QED BY <3>1, <3>2, <3>3
  <2>4. u = [i \in 0..(n + 1) |-> u[i]] OBVIOUS
  <2> HIDE DEF u
  <2>5. u = [i \in 0..(n + 1) |-> IF i = 0 THEN <<>> ELSE next(u[i - 1], i)] BY <2>3, <2>4
  <2>6. went(u, s, I, n + 1) BY <2>5 DEF went, next
  <2> QED BY <2>6
<1>3. \E t : went(t, s, I, Len(s)) BY <1>1, <1>2, Induct
<1> DEFINE p == CHOOSE t : t = [i \in 0..Len(s) |->
                  IF i = 0 THEN <<>> ELSE IF i \in I THEN Append(t[i - 1], s[i]) ELSE t[i - 1]]
<1>4. went(p, s, I, Len(s)) BY <1>3 DEF went
<1>5. Swarm!at(s, I) = p[Len(s)] BY DEF Swarm!at
<1> QED BY <1>4, <1>5

\* r consists of elements of s, at different places of I.
Taken(r, s, I, g) ==
  \A j \in DOMAIN r : /\ g[j] \in DOMAIN s \cap I /\ r[j] = s[g[j]]
                      /\ \A k \in DOMAIN r : j # k => g[j] # g[k]

LEMMA AtTakes ==
  ASSUME NEW S, NEW s \in Seq(S), NEW I
  PROVE  /\ Swarm!at(s, I) \in Seq(S) /\ Len(Swarm!at(s, I)) <= Len(s)
         /\ \E g : Taken(Swarm!at(s, I), s, I, g)
<1>1. Len(s) \in Nat /\ DOMAIN s = 1..Len(s) /\ \A i \in DOMAIN s : s[i] \in S OBVIOUS
<1>2. PICK t : went(t, s, I, Len(s)) /\ Swarm!at(s, I) = t[Len(s)] BY <1>1, AtPassed
<1>3. \A i \in 0..Len(s) : t[i] = IF i = 0 THEN <<>> ELSE IF i \in I THEN Append(t[i - 1], s[i]) ELSE t[i - 1]
  BY <1>2 DEF went
<1> DEFINE ok(n) == t[n] \in Seq(S) /\ Len(t[n]) <= n /\ \E g : Taken(t[n], s, I \cap (1..n), g)
           T == {n \in Nat : n <= Len(s) => ok(n)}
<1>4. 0 \in T
  <2>1. t[0] = <<>> /\ <<>> \in Seq(S) /\ DOMAIN <<>> = {} /\ Len(<<>>) <= 0 BY <1>1, <1>3
  <2> QED BY <2>1 DEF Taken
<1>5. ASSUME NEW n \in Nat, n \in T PROVE n + 1 \in T
  <2> HIDE DEF ok
  <2> SUFFICES ASSUME n + 1 <= Len(s) PROVE ok(n + 1) OBVIOUS
  <2>1. t[n] \in Seq(S) /\ Len(t[n]) <= n /\ ok(n)
    <3>1. ok(n) BY <1>1, <1>5
    <3> QED BY <3>1 DEF ok
  <2>2. PICK g : Taken(t[n], s, I \cap (1..n), g) BY <2>1 DEF ok
  <2>3. t[n + 1] = IF n + 1 \in I THEN Append(t[n], s[n + 1]) ELSE t[n]
    <3>1. n + 1 \in 0..Len(s) /\ n + 1 # 0 /\ (n + 1) - 1 = n BY <1>1
    <3> QED BY <1>3, <3>1
  <2>4. n + 1 \in DOMAIN s /\ s[n + 1] \in S BY <1>1
  <2>5. CASE n + 1 \in I
    <3> DEFINE r == t[n]
               m == Len(r) + 1
               h == [j \in 1..m |-> IF j = m THEN n + 1 ELSE g[j]]
    <3>1. /\ t[n + 1] = Append(r, s[n + 1]) /\ t[n + 1] \in Seq(S) /\ Len(t[n + 1]) <= n + 1
          /\ DOMAIN t[n + 1] = 1..m /\ t[n + 1][m] = s[n + 1] /\ m \in 1..m /\ DOMAIN r = 1..Len(r)
          /\ \A j \in 1..m : j # m => j \in DOMAIN r /\ t[n + 1][j] = r[j]
      BY <2>1, <2>3, <2>4, <2>5
    <3> HIDE DEF m
    <3>2. h[m] = n + 1 /\ \A j \in 1..m : j # m => h[j] = g[j] BY <3>1
    <3> HIDE DEF h
    <3>3. ASSUME NEW j \in 1..m PROVE h[j] \in DOMAIN s \cap (I \cap (1..(n + 1))) /\ t[n + 1][j] = s[h[j]]
      <4>1. CASE j = m BY <2>4, <2>5, <3>1, <3>2, <4>1
      <4>2. CASE j # m
        <5>1. j \in DOMAIN r /\ t[n + 1][j] = r[j] /\ h[j] = g[j] BY <3>1, <3>2, <4>2
        <5>2. g[j] \in DOMAIN s \cap (I \cap (1..n)) /\ r[j] = s[g[j]] BY <2>2, <5>1 DEF Taken
        <5> QED BY <5>1, <5>2
      <4> QED BY <4>1, <4>2
    <3>4. ASSUME NEW j \in 1..m, NEW k \in 1..m, j # k PROVE h[j] # h[k]
      <4>1. \A i \in 1..m : i # m => h[i] = g[i] /\ i \in DOMAIN r /\ g[i] \in 1..n
        BY <2>2, <3>1, <3>2 DEF Taken
      <4>2. CASE j # m /\ k # m BY <2>2, <3>4, <4>1, <4>2 DEF Taken
      <4>3. CASE j = m \/ k = m BY <3>2, <3>4, <4>1, <4>3
      <4> QED BY <4>2, <4>3
    <3>5. Taken(t[n + 1], s, I \cap (1..(n + 1)), h) BY <3>1, <3>3, <3>4 DEF Taken
    <3> QED BY <3>1, <3>5 DEF ok
  <2>6. CASE n + 1 \notin I
    <3>1. Taken(t[n], s, I \cap (1..(n + 1)), g) BY <2>2 DEF Taken
    <3> QED BY <2>1, <2>3, <2>6, <3>1 DEF ok
  <2> QED BY <2>5, <2>6
<1>6. Len(s) \in T BY <1>1, <1>4, <1>5, Induct
<1>7. ok(Len(s))
  <2> HIDE DEF ok
  <2> QED BY <1>1, <1>6
<1>8. PICK g : Taken(t[Len(s)], s, I \cap (1..Len(s)), g) BY <1>7
<1>9. Taken(t[Len(s)], s, I, g) BY <1>8 DEF Taken
<1> QED BY <1>2, <1>7, <1>9

PeerLink == [a : Addresses, local : BOOLEAN, state : Int]

\* The links of a torrent: with different addresses, and with no blocked one unless excused.
GoodLinks(s, B, E) ==
  /\ s \in Seq(PeerLink)
  /\ \A i, j \in DOMAIN s : i # j => s[i].a # s[j].a
  /\ \A i \in DOMAIN s : s[i].state # -1 /\ s[i].a \in B => ~s[i].local /\ s[i].a \in E

\* Links stay good when some are erased, and their states change but for those that are closed.
LEMMA FewerLinks ==
  ASSUME NEW s, NEW B, NEW E, GoodLinks(s, B, E), NEW r \in Seq(PeerLink), NEW g,
         \A j \in DOMAIN r : /\ g[j] \in DOMAIN s /\ r[j].a = s[g[j]].a /\ r[j].local = s[g[j]].local
                             /\ (s[g[j]].state = -1 => r[j].state = -1)
                             /\ \A k \in DOMAIN r : j # k => g[j] # g[k]
  PROVE  GoodLinks(r, B, E)
<1>1. \A i, j \in DOMAIN r : i # j => r[i].a # r[j].a
  <2> SUFFICES ASSUME NEW i \in DOMAIN r, NEW j \in DOMAIN r, i # j PROVE r[i].a # r[j].a OBVIOUS
  <2>1. g[i] \in DOMAIN s /\ g[j] \in DOMAIN s /\ g[i] # g[j] OBVIOUS
  <2>2. s[g[i]].a # s[g[j]].a BY <2>1 DEF GoodLinks
  <2> QED BY <2>2
<1>2. ASSUME NEW i \in DOMAIN r, r[i].state # -1, r[i].a \in B PROVE ~r[i].local /\ r[i].a \in E
  <2>1. g[i] \in DOMAIN s /\ s[g[i]].state # -1 /\ s[g[i]].a \in B BY <1>2
  <2> QED BY <2>1 DEF GoodLinks
<1> QED BY <1>1, <1>2 DEF GoodLinks

LEMMA OneMoreLink ==
  ASSUME NEW s, NEW B, NEW E, GoodLinks(s, B, E), NEW l \in PeerLink,
         ~Swarm!find_peer(s, l.a), l.a \in B => ~l.local /\ l.a \in E
  PROVE  GoodLinks(Append(s, l), B, E)
<1> DEFINE n == Len(s) + 1
           r == Append(s, l)
<1>1. /\ s \in Seq(PeerLink) /\ Len(s) \in Nat /\ DOMAIN s = 1..Len(s)
      /\ r \in Seq(PeerLink) /\ DOMAIN r = 1..n /\ r[n] = l /\ n \in Nat
      /\ \A i \in 1..n : i # n => i \in DOMAIN s /\ r[i] = s[i]
  BY DEF GoodLinks
<1> HIDE DEF n, r
<1>2. \A i \in DOMAIN s : s[i].a # l.a BY DEF Swarm!find_peer
<1>3. \A i, j \in 1..n : i # j => r[i].a # r[j].a BY <1>1, <1>2 DEF GoodLinks
<1>4. \A i \in 1..n : r[i].state # -1 /\ r[i].a \in B => ~r[i].local /\ r[i].a \in E BY <1>1 DEF GoodLinks
<1> QED BY <1>1, <1>3, <1>4 DEF GoodLinks, r

GoodPeers(peers, B, E) ==
  /\ peers \in [Torrents -> Seq(PeerLink)]
  /\ \A f \in Torrents : GoodLinks(peers[f], B, E) /\ (p_state[f] = "closed" => peers[f] = <<>>)

LEMMA OneTorrent ==
  ASSUME NEW peers, NEW B, NEW E, GoodPeers(peers, B, E), NEW f, NEW s,
         f \in Torrents => GoodLinks(s, B, E) /\ (p_state[f] = "closed" => s = <<>>)
  PROVE  GoodPeers([peers EXCEPT ![f] = s], B, E)
<1> DEFINE r == [peers EXCEPT ![f] = s]
<1>1. DOMAIN peers = Torrents /\ \A h \in Torrents : GoodLinks(peers[h], B, E) /\ peers[h] \in Seq(PeerLink)
  BY DEF GoodPeers
<1>2. DOMAIN r = Torrents /\ \A h \in Torrents : r[h] = IF h = f THEN s ELSE peers[h] BY <1>1
<1>3. f \in Torrents => s \in Seq(PeerLink) BY DEF GoodLinks
<1>4. r = [h \in Torrents |-> r[h]] BY <1>2
<1> HIDE DEF r
<1>5. r \in [Torrents -> Seq(PeerLink)] BY <1>1, <1>2, <1>3, <1>4
<1>6. \A h \in Torrents : GoodLinks(r[h], B, E) /\ (p_state[h] = "closed" => r[h] = <<>>) BY <1>2 DEF GoodPeers
<1> QED BY <1>5, <1>6 DEF GoodPeers, r

LEMMA SameCount == \A S : Swarm!Cardinality(S) = Cardinality(S)
BY DEF Swarm!Cardinality, Cardinality

\* The links of peers are counted as the elements of a set.
Slots(peers) == UNION {{f} \X DOMAIN peers[f] : f \in Torrents}

LEMMA LinksCounted ==
  ASSUME NEW peers \in [Torrents -> Seq(PeerLink)]
  PROVE  IsFiniteSet(Slots(peers)) /\ Swarm!c_peers(peers) = Cardinality(Slots(peers)) /\ Swarm!c_peers(peers) \in Nat
<1> DEFINE each(f) == {f} \X DOMAIN peers[f]
<1>1. ASSUME NEW f \in Torrents PROVE IsFiniteSet(each(f))
  <2>1. Len(peers[f]) \in Nat /\ DOMAIN peers[f] = 1..Len(peers[f]) OBVIOUS
  <2>2. IsFiniteSet(1..Len(peers[f])) BY <2>1, FS_Interval
  <2>3. IsFiniteSet({f} \X (1..Len(peers[f]))) BY <2>2, FS_Singleton, FS_Product
  <2> QED BY <2>1, <2>3
<1> HIDE DEF each
<1> DEFINE S == {each(f) : f \in Torrents}
           g == [f \in Torrents |-> each(f)]
<1>2. IsFiniteSet(S)
  <2>1. g \in Surjection(Torrents, S) BY DEF Surjection
  <2> HIDE DEF g, S
  <2> QED BY <2>1, PeersAssumption, FS_Surjection
<1>3. IsFiniteSet(UNION S)
  <2>1. \A T \in S : IsFiniteSet(T) BY <1>1
  <2> HIDE DEF S
  <2> QED BY <1>2, <2>1, FS_UNION
<1>4. IsFiniteSet(Slots(peers)) BY <1>3 DEF Slots, each
<1>5. Swarm!c_peers(peers) = Cardinality(Slots(peers)) BY SameCount DEF Swarm!c_peers, Slots
<1> QED BY <1>4, <1>5, FS_CardinalityType

LEMMA OneMoreCounted ==
  ASSUME NEW peers \in [Torrents -> Seq(PeerLink)], NEW f \in Torrents, NEW l \in PeerLink
  PROVE  Swarm!c_peers([peers EXCEPT ![f] = Append(@, l)]) <= Swarm!c_peers(peers) + 1
<1> DEFINE r == Append(peers[f], l)
           new == [peers EXCEPT ![f] = Append(@, l)]
           x == <<f, Len(peers[f]) + 1>>
<1>1. /\ Len(peers[f]) \in Nat /\ DOMAIN peers[f] = 1..Len(peers[f])
      /\ r \in Seq(PeerLink) /\ DOMAIN r = DOMAIN peers[f] \cup {Len(peers[f]) + 1}
  OBVIOUS
<1>2. new[f] = r /\ (\A h \in Torrents : h # f => new[h] = peers[h]) /\ new \in [Torrents -> Seq(PeerLink)]
  BY <1>1
<1> HIDE DEF r, new
<1>3. Slots(new) \subseteq Slots(peers) \cup {x} BY <1>1, <1>2 DEF Slots
<1>4. IsFiniteSet(Slots(peers)) /\ Cardinality(Slots(peers)) \in Nat BY LinksCounted
<1>5. IsFiniteSet(Slots(peers) \cup {x}) /\ Cardinality(Slots(peers) \cup {x}) <= Cardinality(Slots(peers)) + 1
  <2> DEFINE S == Slots(peers)
  <2>1. IsFiniteSet(S) /\ Cardinality(S) \in Nat BY <1>4
  <2> HIDE DEF S, x
  <2>2. /\ IsFiniteSet(S \cup {x})
        /\ Cardinality(S \cup {x}) = IF x \in S THEN Cardinality(S) ELSE Cardinality(S) + 1
    BY <2>1, FS_AddElement
  <2>3. Cardinality(S \cup {x}) <= Cardinality(S) + 1 BY <2>1, <2>2
  <2> QED BY <2>2, <2>3 DEF S
<1>6. Cardinality(Slots(new)) <= Cardinality(Slots(peers) \cup {x}) BY <1>3, <1>5, FS_Subset
<1>7. /\ Swarm!c_peers(new) = Cardinality(Slots(new)) /\ Swarm!c_peers(new) \in Nat
      /\ Swarm!c_peers(peers) = Cardinality(Slots(peers))
      /\ Cardinality(Slots(peers) \cup {x}) \in Nat
  BY <1>2, <1>5, LinksCounted, FS_CardinalityType
<1>8. Swarm!c_peers(new) <= Swarm!c_peers(peers) + 1 BY <1>4, <1>5, <1>6, <1>7
<1> QED BY <1>8 DEF new

LEMMA FewerCounted ==
  ASSUME NEW peers \in [Torrents -> Seq(PeerLink)], NEW f \in Torrents, NEW s \in Seq(PeerLink),
         Len(s) <= Len(peers[f])
  PROVE  Swarm!c_peers([peers EXCEPT ![f] = s]) <= Swarm!c_peers(peers)
<1> DEFINE new == [peers EXCEPT ![f] = s]
<1>1. new[f] = s /\ (\A h \in Torrents : h # f => new[h] = peers[h]) /\ new \in [Torrents -> Seq(PeerLink)]
  OBVIOUS
<1> HIDE DEF new
<1>2. DOMAIN s \subseteq DOMAIN peers[f]
  <2>1. Len(s) \in Nat /\ DOMAIN s = 1..Len(s) OBVIOUS
  <2>2. Len(peers[f]) \in Nat /\ DOMAIN peers[f] = 1..Len(peers[f]) OBVIOUS
  <2> QED BY <2>1, <2>2
<1>3. Slots(new) \subseteq Slots(peers)
  <2>1. \A h \in Torrents : DOMAIN new[h] \subseteq DOMAIN peers[h] BY <1>1, <1>2
  <2> QED BY <2>1 DEF Slots
<1>4. Cardinality(Slots(new)) <= Cardinality(Slots(peers)) BY <1>3, LinksCounted, FS_Subset
<1>5. Swarm!c_peers(new) <= Swarm!c_peers(peers) BY <1>1, <1>4, LinksCounted
<1> QED BY <1>5 DEF new

\* Links of our own that were not there before are within the limit.
Heeded(peers) ==
  \/ Swarm!locals(peers) \subseteq Swarm!locals(m_peers) \/ m_peer_limit = 0
  \/ Swarm!c_peers(peers) <= m_peer_limit

\* What pre_select works on.
Working == [new : [Torrents -> SUBSET Addresses], peers : [Torrents -> Seq(PeerLink)]]
GoodWork(c) ==
  c \in Working /\ GoodPeers(c.peers, m_block_list, excused) /\ Heeded(c.peers) /\ m_peer_limit \in Int

LEMMA FirstAddress ==
  ASSUME NEW S \in SUBSET Nat, S # {} PROVE Swarm!Min(S) \in S
<1>1. PICK a \in S : \A b \in S : a <= b BY Smallest
<1> QED BY <1>1 DEF Swarm!Min

LEMMA TryGood ==
  ASSUME NEW f \in Torrents, p_state[f] = "running", NEW c, GoodWork(c)
  PROVE  GoodWork(Swarm!try(f, c))
<1> DEFINE a == Swarm!Min(c.new[f])
           l == [a |-> a, local |-> TRUE, state |-> 1]
           new == [c.new EXCEPT ![f] = @ \ {a}]
           peers == [c.peers EXCEPT ![f] = Append(@, l)]
<1>1. c \in Working /\ GoodPeers(c.peers, m_block_list, excused) BY DEF GoodWork
<1>2. new \in [Torrents -> SUBSET Addresses] BY <1>1 DEF Working
<1>3. CASE c.new[f] = {} \/ ~Swarm!below_peer_limit(c.peers)
  <2>1. Swarm!try(f, c) = c BY <1>3 DEF Swarm!try
  <2> QED BY <2>1
<1>4. CASE /\ ~(c.new[f] = {} \/ ~Swarm!below_peer_limit(c.peers))
           /\ Swarm!find_peer(c.peers[f], a) \/ Swarm!block_list_has(a)
  <2>1. Swarm!try(f, c) = [new |-> new, peers |-> c.peers] BY <1>4 DEF Swarm!try
  <2> HIDE DEF new
  <2> QED BY <1>1, <1>2, <2>1 DEF GoodWork, Working
<1>5. CASE /\ ~(c.new[f] = {} \/ ~Swarm!below_peer_limit(c.peers))
           /\ ~(Swarm!find_peer(c.peers[f], a) \/ Swarm!block_list_has(a))
  <2>1. Swarm!try(f, c) = [new |-> new, peers |-> peers] BY <1>5 DEF Swarm!try
  <2>2. a \in Addresses
    <3>1. c.new[f] \in SUBSET Addresses /\ c.new[f] # {} BY <1>1, <1>5 DEF Working
    <3> QED BY <3>1, FirstAddress, PeersAssumption
  <2> HIDE DEF a
  <2>3. l \in PeerLink /\ l.a = a BY <2>2 DEF PeerLink
  <2>4. l.a \notin m_block_list BY <1>5, <2>3 DEF Swarm!block_list_has
  <2>5. GoodLinks(c.peers[f], m_block_list, excused) /\ p_state[f] # "closed" BY <1>1 DEF GoodPeers
  <2>6. ~Swarm!find_peer(c.peers[f], l.a) BY <1>5, <2>3
  <2> HIDE DEF l, new
  <2>7. GoodLinks(Append(c.peers[f], l), m_block_list, excused) BY <2>3, <2>4, <2>5, <2>6, OneMoreLink
  <2>8. GoodPeers(peers, m_block_list, excused) BY <1>1, <2>5, <2>7, OneTorrent
  <2>9. peers \in [Torrents -> Seq(PeerLink)] BY <2>8 DEF GoodPeers
  <2>10. Heeded(peers)
    <3> DEFINE m == Swarm!c_peers(c.peers)
               n == Swarm!c_peers(peers)
    <3>1. c.peers \in [Torrents -> Seq(PeerLink)] BY <1>1 DEF GoodPeers
    <3>2. n <= m + 1 BY <2>3, <3>1, OneMoreCounted
    <3>3. m \in Nat /\ n \in Nat BY <2>9, <3>1, LinksCounted
    <3>4. m_peer_limit = 0 \/ m < m_peer_limit BY <1>5 DEF Swarm!below_peer_limit
    <3>5. m_peer_limit \in Int BY DEF GoodWork
    <3> HIDE DEF m, n
    <3>6. m_peer_limit = 0 \/ n <= m_peer_limit BY <3>2, <3>3, <3>4, <3>5
    <3> QED BY <3>6 DEF Heeded, n
  <2>11. m_peer_limit \in Int BY DEF GoodWork
  <2> HIDE DEF peers
  <2> QED BY <1>2, <2>1, <2>8, <2>9, <2>10, <2>11 DEF GoodWork, Working
<1> QED BY <1>3, <1>4, <1>5

tries(t, f, c, n) == t = [k \in 0..n |-> IF k = 0 THEN c ELSE Swarm!try(f, t[k - 1])]

LEMMA Tries ==
  ASSUME NEW f, NEW c, Cardinality(c.new[f]) \in Nat
  PROVE  LET m == Cardinality(c.new[f]) IN \E t : tries(t, f, c, m) /\ Swarm!tried(f, c) = t[m]
<1> DEFINE next(a) == Swarm!try(f, a)
           S == {n \in Nat : \E t : tries(t, f, c, n)}
<1>1. 0 \in S
  <2> DEFINE t == [i \in 0..0 |-> c]
  <2>1. tries(t, f, c, 0) BY DEF tries
  <2> QED BY <2>1
<1>2. ASSUME NEW n \in Nat, n \in S PROVE n + 1 \in S
  <2>1. PICK t : tries(t, f, c, n) BY <1>2
  <2>2. \A i \in 0..n : t[i] = IF i = 0 THEN c ELSE next(t[i - 1]) BY <2>1 DEF tries
  <2> HIDE DEF next
  <2> DEFINE u == [i \in 0..(n + 1) |-> IF i = n + 1 THEN next(t[n]) ELSE t[i]]
  <2>3. ASSUME NEW i \in 0..(n + 1) PROVE u[i] = IF i = 0 THEN c ELSE next(u[i - 1])
    <3>1. CASE i = 0 BY <2>2, <3>1
    <3>2. CASE i # 0 /\ i # n + 1
      <4>1. i \in 0..n /\ i - 1 \in 0..n BY <3>2
      <4>2. u[i] = t[i] /\ u[i - 1] = t[i - 1] BY <4>1
      <4> QED BY <2>2, <3>2, <4>1, <4>2
    <3>3. CASE i = n + 1
      <4>1. u[i] = next(t[n]) /\ u[i - 1] = t[n] BY <3>3
      <4> QED BY <3>3, <4>1
    <3> QED BY <3>1, <3>2, <3>3
  <2>4. u = [i \in 0..(n + 1) |-> u[i]] OBVIOUS
  <2> HIDE DEF u
  <2>5. u = [i \in 0..(n + 1) |-> IF i = 0 THEN c ELSE next(u[i - 1])] BY <2>3, <2>4
  <2>6. tries(u, f, c, n + 1) BY <2>5 DEF tries, next
  <2> QED BY <2>6
<1>3. \E t : tries(t, f, c, Cardinality(c.new[f])) BY <1>1, <1>2, Induct
<1> DEFINE p == CHOOSE t : t = [k \in 0..Cardinality(c.new[f]) |-> IF k = 0 THEN c ELSE Swarm!try(f, t[k - 1])]
<1>4. tries(p, f, c, Cardinality(c.new[f])) BY <1>3 DEF tries
<1>5. Swarm!tried(f, c) = p[Cardinality(c.new[f])] BY SameCount DEF Swarm!tried
<1> QED BY <1>4, <1>5

LEMMA TriedGood ==
  ASSUME NEW f \in Torrents, p_state[f] = "running", NEW c, GoodWork(c)
  PROVE  GoodWork(Swarm!tried(f, c))
<1> DEFINE m == Cardinality(c.new[f])
<1>1. m \in Nat
  <2>1. c.new[f] \in SUBSET Addresses BY DEF GoodWork, Working
  <2> QED BY <2>1, PeersAssumption, FS_Subset, FS_CardinalityType
<1>2. PICK t : tries(t, f, c, m) /\ Swarm!tried(f, c) = t[m] BY <1>1, Tries
<1> HIDE DEF m
<1>3. \A k \in 0..m : t[k] = IF k = 0 THEN c ELSE Swarm!try(f, t[k - 1]) BY <1>2 DEF tries
<1> DEFINE S == {n \in Nat : n <= m => GoodWork(t[n])}
<1>4. 0 \in S BY <1>1, <1>3
<1>5. ASSUME NEW n \in Nat, n \in S PROVE n + 1 \in S
  <2>1. CASE n + 1 <= m
    <3>1. n + 1 \in 0..m /\ n + 1 # 0 /\ (n + 1) - 1 = n /\ GoodWork(t[n]) BY <1>1, <1>5, <2>1
    <3>2. t[n + 1] = Swarm!try(f, t[n]) BY <1>3, <3>1
    <3>3. GoodWork(t[n + 1]) BY <3>1, <3>2, TryGood
    <3> QED BY <3>3
  <2>2. CASE ~(n + 1 <= m) BY <2>2
  <2> QED BY <2>1, <2>2
<1>6. m \in S BY <1>1, <1>4, <1>5, Induct
<1> QED BY <1>1, <1>2, <1>6

LEMMA ConnectedGood ==
  ASSUME NEW s, NEW B, NEW E, GoodLinks(s, B, E), NEW U, NEW c, c = Swarm!connected(s, U)
  PROVE  /\ GoodLinks(c, B, E) /\ (s = <<>> => c = <<>>) /\ Len(c) <= Len(s)
         /\ \A j \in DOMAIN c : \E i \in DOMAIN s : c[j].a = s[i].a /\ c[j].local = s[i].local
<1> DEFINE I == {i \in DOMAIN s : ~(s[i].state = -1 \/ (s[i].state = 1 /\ s[i].a \in U))}
           kept == Swarm!at(s, I)
           r == [i \in DOMAIN kept |-> [kept[i] EXCEPT !.state = IF @ = 1 THEN 2 ELSE @]]
<1>1. c = r BY DEF Swarm!connected
<1>2. s \in Seq(PeerLink) BY DEF GoodLinks
<1>3. kept \in Seq(PeerLink) /\ Len(kept) <= Len(s) /\ \E g : Taken(kept, s, I, g) BY <1>2, AtTakes
<1>4. PICK g : Taken(kept, s, I, g) BY <1>3
<1>5. \A j \in DOMAIN s : j \in I => s[j].state # -1 OBVIOUS
<1> HIDE DEF I, kept
<1>6. /\ r \in Seq(PeerLink) /\ DOMAIN r = DOMAIN kept /\ Len(r) = Len(kept)
      /\ \A j \in DOMAIN r : r[j].a = kept[j].a /\ r[j].local = kept[j].local
                             /\ r[j].state = IF kept[j].state = 1 THEN 2 ELSE kept[j].state
  <2>1. DOMAIN r = DOMAIN kept /\ Len(kept) \in Nat /\ DOMAIN kept = 1..Len(kept) BY <1>3
  <2>2. ASSUME NEW j \in DOMAIN kept
        PROVE  /\ r[j] \in PeerLink /\ r[j].a = kept[j].a /\ r[j].local = kept[j].local
               /\ r[j].state = IF kept[j].state = 1 THEN 2 ELSE kept[j].state
    <3>1. kept[j] \in PeerLink BY <1>3
    <3>2. r[j] = [kept[j] EXCEPT !.state = IF @ = 1 THEN 2 ELSE @] OBVIOUS
    <3> HIDE DEF r
    <3> QED BY <3>1, <3>2 DEF PeerLink
  <2>3. r \in [1..Len(kept) -> PeerLink]
    <3>1. r = [j \in 1..Len(kept) |-> r[j]] BY <2>1
    <3> HIDE DEF r
    <3> QED BY <2>1, <2>2, <3>1
  <2> HIDE DEF r
  <2> QED BY <2>1, <2>2, <2>3
<1> HIDE DEF r
<1>7. ASSUME NEW j \in DOMAIN r
      PROVE  /\ g[j] \in DOMAIN s /\ r[j].a = s[g[j]].a /\ r[j].local = s[g[j]].local
             /\ (s[g[j]].state = -1 => r[j].state = -1)
             /\ \A k \in DOMAIN r : j # k => g[j] # g[k]
  BY <1>4, <1>5, <1>6 DEF Taken
<1>8. GoodLinks(r, B, E)
  <2>1. r \in Seq(PeerLink) BY <1>6
  <2> QED BY <1>7, <2>1, FewerLinks
<1>9. ASSUME s = <<>> PROVE r = <<>>
  <2>1. DOMAIN s = {} BY <1>9
  <2>2. DOMAIN r = {} BY <1>7, <2>1
  <2> QED BY <1>6, <2>2
<1>10. Len(r) <= Len(s) BY <1>3, <1>6
<1>11. \A j \in DOMAIN r : \E i \in DOMAIN s : r[j].a = s[i].a /\ r[j].local = s[i].local BY <1>7
<1> QED BY <1>1, <1>8, <1>9, <1>10, <1>11

LEMMA FileGood ==
  ASSUME NEW f \in Torrents, NEW c, GoodWork(c), NEW U
  PROVE  GoodWork(Swarm!file_pre_select(f, c, U))
<1> DEFINE d == IF p_state[f] = "running" THEN Swarm!tried(f, c) ELSE c
           e == [d EXCEPT !.peers[f] = Swarm!connected(@, U)]
<1>1. Swarm!file_pre_select(f, c, U) = e BY DEF Swarm!file_pre_select
<1>2. GoodWork(d) BY TriedGood
<1> HIDE DEF d
<1> DEFINE s == Swarm!connected(d.peers[f], U)
           peers == [d.peers EXCEPT ![f] = s]
<1>3. /\ GoodPeers(d.peers, m_block_list, excused) /\ d \in Working
      /\ d.peers \in [Torrents -> Seq(PeerLink)] /\ Heeded(d.peers) /\ m_peer_limit \in Int
  BY <1>2 DEF GoodWork, GoodPeers
<1>4. /\ GoodLinks(s, m_block_list, excused) /\ (p_state[f] = "closed" => s = <<>>)
      /\ Len(s) <= Len(d.peers[f])
      /\ \A j \in DOMAIN s : \E i \in DOMAIN d.peers[f] :
           s[j].a = d.peers[f][i].a /\ s[j].local = d.peers[f][i].local
  <2>1. GoodLinks(d.peers[f], m_block_list, excused) /\ (p_state[f] = "closed" => d.peers[f] = <<>>)
    BY <1>3 DEF GoodPeers
  <2>2. s = Swarm!connected(d.peers[f], U) OBVIOUS
  <2> DEFINE s0 == d.peers[f]
  <2>3. GoodLinks(s0, m_block_list, excused) /\ s = Swarm!connected(s0, U) BY <2>1, <2>2
  <2> HIDE DEF s, s0
  <2>4. /\ GoodLinks(s, m_block_list, excused) /\ (s0 = <<>> => s = <<>>) /\ Len(s) <= Len(s0)
        /\ \A j \in DOMAIN s : \E i \in DOMAIN s0 : s[j].a = s0[i].a /\ s[j].local = s0[i].local
    BY <2>3, ConnectedGood
  <2> QED BY <2>1, <2>4 DEF s0
<1>5. e = [d EXCEPT !.peers = peers] OBVIOUS
<1> HIDE DEF s, e
<1>6. GoodPeers(peers, m_block_list, excused) BY <1>3, <1>4, OneTorrent
<1>7. peers \in [Torrents -> Seq(PeerLink)]
  <2> HIDE DEF peers
  <2> QED BY <1>6 DEF GoodPeers
<1>8. Swarm!locals(peers) \subseteq Swarm!locals(d.peers)
  <2>1. peers[f] = s /\ \A h \in Torrents : h # f => peers[h] = d.peers[h] BY <1>3
  <2> HIDE DEF peers
  <2> SUFFICES ASSUME NEW t \in Torrents \X Addresses, t \in Swarm!locals(peers) PROVE t \in Swarm!locals(d.peers)
    BY DEF Swarm!locals
  <2>2. PICK j \in DOMAIN peers[t[1]] : peers[t[1]][j].local /\ peers[t[1]][j].a = t[2] BY DEF Swarm!locals
  <2>3. \E i \in DOMAIN d.peers[t[1]] : d.peers[t[1]][i].local /\ d.peers[t[1]][i].a = t[2]
    <3>1. CASE t[1] = f BY <1>4, <2>1, <2>2, <3>1
    <3>2. CASE t[1] # f BY <2>1, <2>2, <3>2
    <3> QED BY <3>1, <3>2
  <2> QED BY <2>3 DEF Swarm!locals
<1>9. Swarm!c_peers(peers) <= Swarm!c_peers(d.peers)
  <2>1. s \in Seq(PeerLink) BY <1>4 DEF GoodLinks
  <2> QED BY <1>3, <1>4, <2>1, FewerCounted
<1> HIDE DEF peers
<1>10. Heeded(peers)
  <2>1. Swarm!c_peers(peers) \in Nat /\ Swarm!c_peers(d.peers) \in Nat BY <1>3, <1>7, LinksCounted
  <2>2. Swarm!c_peers(d.peers) <= m_peer_limit => Swarm!c_peers(peers) <= m_peer_limit BY <1>3, <1>9, <2>1
  <2> QED BY <1>3, <1>8, <2>2 DEF Heeded
<1>11. e \in Working /\ e.peers = peers BY <1>3, <1>5, <1>7 DEF Working
<1> QED BY <1>1, <1>3, <1>6, <1>10, <1>11 DEF GoodWork

LEMMA TorrentsListed == Swarm!SetToSeq(Torrents) \in [1..Cardinality(Torrents) -> Torrents]
<1> DEFINE n == Cardinality(Torrents)
<1>1. n \in Nat /\ ExistsBijection(1..n, Torrents) BY PeersAssumption, FS_CardinalityType
<1>2. PICK f : f \in Bijection(1..n, Torrents) BY <1>1 DEF ExistsBijection
<1>3. f \in [1..n -> Torrents] /\ Swarm!IsInjective(f)
  BY <1>2 DEF Bijection, Injection, IsInjective, Swarm!IsInjective
<1>4. Swarm!SetToSeq(Torrents) = CHOOSE g \in [1..n -> Torrents] : Swarm!IsInjective(g)
  BY SameCount DEF Swarm!SetToSeq
<1> QED BY <1>3, <1>4

walks(t, c, U, n) ==
  t = [k \in 0..n |-> IF k = 0 THEN c ELSE Swarm!file_pre_select(Swarm!SetToSeq(Torrents)[k], t[k - 1], U)]

LEMMA Walks ==
  ASSUME NEW c, NEW U, Cardinality(Torrents) \in Nat
  PROVE  \E t : walks(t, c, U, Cardinality(Torrents)) /\ Swarm!all_pre_select(c, U) = t[Cardinality(Torrents)]
<1> DEFINE next(a, i) == Swarm!file_pre_select(Swarm!SetToSeq(Torrents)[i], a, U)
           S == {n \in Nat : \E t : walks(t, c, U, n)}
<1>1. 0 \in S
  <2> DEFINE t == [i \in 0..0 |-> c]
  <2>1. walks(t, c, U, 0) BY DEF walks
  <2> QED BY <2>1
<1>2. ASSUME NEW n \in Nat, n \in S PROVE n + 1 \in S
  <2>1. PICK t : walks(t, c, U, n) BY <1>2
  <2>2. \A i \in 0..n : t[i] = IF i = 0 THEN c ELSE next(t[i - 1], i) BY <2>1 DEF walks
  <2> HIDE DEF next
  <2> DEFINE u == [i \in 0..(n + 1) |-> IF i = n + 1 THEN next(t[n], n + 1) ELSE t[i]]
  <2>3. ASSUME NEW i \in 0..(n + 1) PROVE u[i] = IF i = 0 THEN c ELSE next(u[i - 1], i)
    <3>1. CASE i = 0 BY <2>2, <3>1
    <3>2. CASE i # 0 /\ i # n + 1
      <4>1. i \in 0..n /\ i - 1 \in 0..n BY <3>2
      <4>2. u[i] = t[i] /\ u[i - 1] = t[i - 1] BY <4>1
      <4> QED BY <2>2, <3>2, <4>1, <4>2
    <3>3. CASE i = n + 1
      <4>1. u[i] = next(t[n], i) /\ u[i - 1] = t[n] BY <3>3
      <4> QED BY <3>3, <4>1
    <3> QED BY <3>1, <3>2, <3>3
  <2>4. u = [i \in 0..(n + 1) |-> u[i]] OBVIOUS
  <2> HIDE DEF u
  <2>5. u = [i \in 0..(n + 1) |-> IF i = 0 THEN c ELSE next(u[i - 1], i)] BY <2>3, <2>4
  <2>6. walks(u, c, U, n + 1) BY <2>5 DEF walks, next
  <2> QED BY <2>6
<1>3. \E t : walks(t, c, U, Cardinality(Torrents)) BY <1>1, <1>2, Induct
<1> DEFINE p == CHOOSE t : t = [k \in 0..Cardinality(Torrents) |->
                  IF k = 0 THEN c ELSE Swarm!file_pre_select(Swarm!SetToSeq(Torrents)[k], t[k - 1], U)]
<1>4. walks(p, c, U, Cardinality(Torrents)) BY <1>3 DEF walks
<1>5. Swarm!all_pre_select(c, U) = p[Cardinality(Torrents)] BY SameCount DEF Swarm!all_pre_select
<1> QED BY <1>4, <1>5

LEMMA AllGood ==
  ASSUME NEW c, GoodWork(c), NEW U
  PROVE  GoodWork(Swarm!all_pre_select(c, U))
<1> DEFINE m == Cardinality(Torrents)
<1>1. m \in Nat BY PeersAssumption, FS_CardinalityType
<1>2. PICK t : walks(t, c, U, m) /\ Swarm!all_pre_select(c, U) = t[m] BY <1>1, Walks
<1>3. \A k \in 0..m : k # 0 => Swarm!SetToSeq(Torrents)[k] \in Torrents
  <2> DEFINE fs == Swarm!SetToSeq(Torrents)
  <2>1. fs \in [1..m -> Torrents] BY TorrentsListed
  <2> HIDE DEF fs, m
  <2> QED BY <1>1, <2>1 DEF fs
<1> HIDE DEF m
<1>4. \A k \in 0..m : t[k] = IF k = 0 THEN c ELSE Swarm!file_pre_select(Swarm!SetToSeq(Torrents)[k], t[k - 1], U)
  BY <1>2 DEF walks
<1> DEFINE S == {n \in Nat : n <= m => GoodWork(t[n])}
<1>5. 0 \in S BY <1>1, <1>4
<1>6. ASSUME NEW n \in Nat, n \in S PROVE n + 1 \in S
  <2>1. CASE n + 1 <= m
    <3>1. n + 1 \in 0..m /\ n + 1 # 0 /\ (n + 1) - 1 = n /\ GoodWork(t[n]) BY <1>1, <1>6, <2>1
    <3> DEFINE f == Swarm!SetToSeq(Torrents)[n + 1]
    <3>2. t[n + 1] = Swarm!file_pre_select(f, t[n], U) BY <1>4, <3>1
    <3>3. f \in Torrents BY <1>3, <3>1
    <3> HIDE DEF f
    <3>4. GoodWork(t[n + 1]) BY <3>1, <3>2, <3>3, FileGood
    <3> QED BY <3>4
  <2>2. CASE ~(n + 1 <= m) BY <2>2
  <2> QED BY <2>1, <2>2
<1>7. m \in S BY <1>1, <1>5, <1>6, Induct
<1> QED BY <1>1, <1>2, <1>7

-----------------------------------------------------------------------------

Waiting == [a : Addresses, age : Nat]
GoodWaiting(s, B, E) == s \in Seq(Waiting) /\ \A i \in DOMAIN s : s[i].a \in B => s[i].a \in E

PeersInv ==
  /\ m_new_peers \in [Torrents -> SUBSET Addresses]
  /\ p_state \in [Torrents -> {"running", "paused", "closed"}]
  /\ GoodWaiting(m_links, m_block_list, excused) /\ backlog \in Seq(Addresses)
  /\ GoodPeers(m_peers, m_block_list, excused) /\ m_peer_limit \in Limits

LEMMA PeersInit == Swarm!Init => PeersInv
<1> SUFFICES ASSUME Swarm!Init PROVE PeersInv OBVIOUS
<1>1. m_peers = [f \in Torrents |-> <<>>] /\ <<>> \in Seq(PeerLink) /\ DOMAIN <<>> = {} BY DEF Swarm!Init
<1>2. GoodPeers(m_peers, m_block_list, excused) BY <1>1 DEF GoodPeers, GoodLinks
<1> QED BY <1>2 DEF Swarm!Init, PeersInv, GoodWaiting

LEMMA PeersGive == PeersInv => Swarm!OneLinkEach /\ Swarm!BlockedOut
BY DEF PeersInv, GoodPeers, GoodLinks, Swarm!OneLinkEach, Swarm!BlockedOut, Swarm!block_list_has

\* The places that are left when one is taken out, in s and in what is left of it.
LEMMA RemovedAt ==
  ASSUME NEW S, NEW s \in Seq(S), NEW i \in DOMAIN s
  PROVE  /\ Swarm!RemoveAt(s, i) \in Seq(S)
         /\ \E g : Taken(Swarm!RemoveAt(s, i), s, DOMAIN s, g)
<1> DEFINE m == Len(s)
           n == m - 1
           x == SubSeq(s, 1, i - 1)
           y == SubSeq(s, i + 1, m)
           r == x \o y
           g == [j \in 1..n |-> IF j < i THEN j ELSE j + 1]
<1>1. m \in Nat /\ DOMAIN s = 1..m /\ i \in 1..m /\ n \in Nat OBVIOUS
<1>2. Swarm!RemoveAt(s, i) = r BY DEF Swarm!RemoveAt
<1>3. x \in Seq(S) /\ Len(x) = i - 1 /\ \A j \in 1..(i - 1) : x[j] = s[j] BY <1>1
<1>4. y \in Seq(S) /\ Len(y) = m - i /\ \A j \in 1..(m - i) : y[j] = s[i + j] BY <1>1
<1>5. DOMAIN g = 1..n /\ \A j \in 1..n : g[j] = IF j < i THEN j ELSE j + 1 OBVIOUS
<1> HIDE DEF m, x, y, g
<1>6. r \in Seq(S) BY <1>3, <1>4
<1>7. Len(r) = Len(x) + Len(y)
  <2>1. x \in Seq(S) /\ y \in Seq(S) BY <1>3, <1>4
  <2> QED BY <2>1
<1>8. DOMAIN r = 1..n
  <2>1. Len(r) = n BY <1>1, <1>3, <1>4, <1>7
  <2>2. DOMAIN r = 1..Len(r) BY <1>6
  <2> HIDE DEF r, n
  <2> QED BY <2>1, <2>2
<1>9. ASSUME NEW j \in 1..n PROVE r[j] = s[g[j]]
  <2>1. CASE j < i
    <3>1. j \in 1..Len(x) /\ j \in 1..(i - 1) /\ g[j] = j BY <1>1, <1>3, <1>5, <2>1
    <3>2. r[j] = x[j] BY <1>3, <1>4, <3>1
    <3> QED BY <1>3, <3>1, <3>2
  <2>2. CASE ~(j < i)
    <3> DEFINE k == j - (i - 1)
    <3>1. Len(x) = i - 1 /\ Len(y) = m - i /\ g[j] = j + 1 /\ m \in Nat /\ i \in 1..m /\ j \in 1..(m - 1) /\ j >= i
      BY <1>1, <1>3, <1>4, <1>5, <2>2
    <3>2. k \in 1..(m - i) /\ i + k = j + 1 /\ j \in (Len(x) + 1)..(Len(x) + Len(y)) /\ k = j - Len(x)
      <4> DEFINE a == Len(x)
                 b == Len(y)
      <4>1. a = i - 1 /\ b = m - i /\ m \in Nat /\ i \in 1..m /\ j \in 1..(m - 1) /\ j >= i BY <3>1
      <4> HIDE DEF r, n, a, b
      <4>2. i \in Int /\ j \in Int /\ a \in Int /\ b \in Int /\ j > a /\ j <= a + b /\ j - a <= m - i BY <4>1
      <4>3. j - a \in 1..(m - i) /\ j \in (a + 1)..(a + b) /\ i + (j - a) = j + 1 /\ j - (i - 1) = j - a
        <5>m. m \in Int BY <4>1
        <5>1. j - a \in Int /\ m - i \in Int /\ 1 <= j - a BY <4>2, <5>m
        <5>2. j - a \in 1..(m - i) BY <4>2, <5>1
        <5>3. j \in (a + 1)..(a + b) BY <4>2
        <5>a. a = i - 1 BY <4>1
        <5>4. i + (j - a) = j + 1 /\ j - (i - 1) = j - a BY <4>2, <5>a
        <5> QED BY <5>2, <5>3, <5>4
      <4> QED BY <4>3 DEF a, b
    <3>3. r[j] = y[j - Len(x)]
      <4>1. x \in Seq(S) /\ y \in Seq(S) /\ j \in (Len(x) + 1)..(Len(x) + Len(y)) BY <1>3, <1>4, <3>2
      <4> HIDE DEF k, n
      <4>2. j \in Nat /\ ~(j <= Len(x)) /\ Len(x) \in Nat /\ Len(y) \in Nat BY <4>1
      <4>3. j \in 1..(Len(x) + Len(y)) BY <4>1, <4>2
      <4> QED BY <4>1, <4>2, <4>3
    <3> QED BY <1>4, <3>1, <3>2, <3>3
  <2> QED BY <2>1, <2>2
<1>10. \A j \in 1..n : g[j] \in DOMAIN s /\ \A k \in 1..n : j # k => g[j] # g[k] BY <1>1, <1>5
<1> HIDE DEF r, n
<1>11. Taken(r, s, DOMAIN s, g) BY <1>8, <1>9, <1>10 DEF Taken
<1> QED BY <1>2, <1>6, <1>11

\* What is taken of the connections that wait still waits as it should.
LEMMA FewerWaiting ==
  ASSUME NEW s, NEW B, NEW E, GoodWaiting(s, B, E), NEW I, NEW r \in Seq(Waiting), NEW g, Taken(r, s, I, g)
  PROVE  GoodWaiting(r, B, E)
<1> SUFFICES ASSUME NEW i \in DOMAIN r, r[i].a \in B PROVE r[i].a \in E BY DEF GoodWaiting
<1>1. g[i] \in DOMAIN s /\ r[i] = s[g[i]] BY DEF Taken
<1> QED BY <1>1 DEF GoodWaiting

LEMMA Accepted ==
  ASSUME PeersInv
  PROVE  GoodWaiting(m_links \o [i \in DOMAIN Swarm!taken |-> [a |-> Swarm!taken[i], age |-> 0]], m_block_list, excused)
<1> DEFINE B == m_block_list
           t == Swarm!taken
           x == m_links
           y == [i \in DOMAIN t |-> [a |-> t[i], age |-> 0]]
           r == x \o y
           I == {i \in DOMAIN backlog : ~Swarm!block_list_has(backlog[i])}
<1>1. x \in Seq(Waiting) /\ backlog \in Seq(Addresses) /\ \A i \in DOMAIN x : x[i].a \in B => x[i].a \in excused
  BY DEF PeersInv, GoodWaiting
<1>2. t \in Seq(Addresses) /\ \E g : Taken(t, backlog, I, g) BY <1>1, AtTakes DEF Swarm!taken
<1>3. \A i \in DOMAIN t : t[i] \notin B BY <1>2 DEF Taken, Swarm!block_list_has
<1> HIDE DEF t, x, B, I
<1>4. y \in Seq(Waiting) /\ Len(y) = Len(t) /\ \A i \in DOMAIN y : y[i].a \notin B
  <2>1. Len(t) \in Nat /\ DOMAIN t = 1..Len(t) /\ \A i \in DOMAIN t : t[i] \in Addresses BY <1>2
  <2>2. y = [i \in 1..Len(t) |-> [a |-> t[i], age |-> 0]] BY <2>1
  <2>3. \A i \in 1..Len(t) : [a |-> t[i], age |-> 0] \in Waiting BY <2>1 DEF Waiting
  <2>4. y \in [1..Len(t) -> Waiting] BY <2>2, <2>3
  <2>5. \A i \in 1..Len(t) : y[i].a = t[i] BY <2>2
  <2> HIDE DEF y
  <2> QED BY <1>3, <2>1, <2>4, <2>5
<1> HIDE DEF y
<1>5. r \in Seq(Waiting) /\ DOMAIN r = 1..(Len(x) + Len(y)) /\ Len(x) \in Nat /\ Len(y) \in Nat
  <2>1. r \in Seq(Waiting) BY <1>1, <1>4
  <2>2. Len(r) = Len(x) + Len(y)
    <3>1. x \in Seq(Waiting) /\ y \in Seq(Waiting) BY <1>1, <1>4
    <3> QED BY <3>1
  <2>3. DOMAIN r = 1..Len(r) BY <2>1
  <2> HIDE DEF r
  <2> QED BY <1>1, <1>4, <2>1, <2>2, <2>3
<1>6. ASSUME NEW i \in 1..(Len(x) + Len(y)), r[i].a \in B PROVE r[i].a \in excused
  <2>1. CASE i <= Len(x)
    <3>1. r[i] = x[i] /\ i \in DOMAIN x BY <1>1, <1>4, <1>5, <2>1
    <3> HIDE DEF r
    <3> QED BY <1>1, <1>6, <3>1
  <2>2. CASE ~(i <= Len(x))
    <3>1. r[i] = y[i - Len(x)] /\ i - Len(x) \in DOMAIN y BY <1>1, <1>4, <1>5, <2>2
    <3> HIDE DEF r
    <3> QED BY <1>4, <1>6, <3>1
  <2> QED BY <2>1, <2>2
<1> HIDE DEF r
<1>7. GoodWaiting(r, B, excused) BY <1>5, <1>6 DEF GoodWaiting
<1> QED BY <1>7 DEF r, B, x, y, t

\* A link that is closed, and those that are lost.
LEMMA DisconnectedGood ==
  ASSUME NEW s, NEW B, NEW E, GoodLinks(s, B, E), NEW a
  PROVE  /\ GoodLinks(Swarm!disconnected(s, a), B, E) /\ (s = <<>> => Swarm!disconnected(s, a) = <<>>)
         /\ \A i \in DOMAIN Swarm!disconnected(s, a) :
              Swarm!disconnected(s, a)[i].a = a => Swarm!disconnected(s, a)[i].state = -1
<1> DEFINE found == {i \in DOMAIN s : s[i].a = a}
           m == Swarm!Min(found)
           r == [s EXCEPT ![m].state = -1]
<1>1. s \in Seq(PeerLink) /\ Len(s) \in Nat /\ DOMAIN s = 1..Len(s) BY DEF GoodLinks
<1>2. CASE found = {}
  <2>1. Swarm!disconnected(s, a) = s BY <1>2 DEF Swarm!disconnected
  <2> QED BY <1>2, <2>1
<1>3. CASE found # {}
  <2>1. Swarm!disconnected(s, a) = r BY <1>3 DEF Swarm!disconnected
  <2>2. found \in SUBSET Nat BY <1>1
  <2>3. m \in found BY <1>3, <2>2, FirstAddress
  <2> HIDE DEF m
  <2>4. m \in DOMAIN s /\ s[m].a = a BY <2>3
  <2>5. /\ r \in Seq(PeerLink) /\ DOMAIN r = DOMAIN s
        /\ \A j \in DOMAIN s : r[j].a = s[j].a /\ r[j].local = s[j].local
                               /\ r[j].state = IF j = m THEN -1 ELSE s[j].state
    <3>1. DOMAIN r = DOMAIN s OBVIOUS
    <3>2. ASSUME NEW j \in DOMAIN s
          PROVE  /\ r[j] \in PeerLink /\ r[j].a = s[j].a /\ r[j].local = s[j].local
                 /\ r[j].state = IF j = m THEN -1 ELSE s[j].state
      <4>1. s[j] \in PeerLink BY <1>1
      <4>2. r[j] = IF j = m THEN [s[j] EXCEPT !.state = -1] ELSE s[j] OBVIOUS
      <4> HIDE DEF r
      <4> QED BY <4>1, <4>2 DEF PeerLink
    <3> HIDE DEF r
    <3>3. r \in Seq(PeerLink)
      <4>1. r = [j \in 1..Len(s) |-> r[j]] BY <1>1, <3>1 DEF r
      <4>2. r \in [1..Len(s) -> PeerLink] BY <1>1, <3>2, <4>1
      <4> QED BY <1>1, <4>2
    <3> QED BY <3>1, <3>2, <3>3
  <2> HIDE DEF r, found
  <2> DEFINE g == [j \in DOMAIN s |-> j]
  <2>6. \A j \in DOMAIN r : /\ g[j] \in DOMAIN s /\ r[j].a = s[g[j]].a /\ r[j].local = s[g[j]].local
                             /\ (s[g[j]].state = -1 => r[j].state = -1)
                             /\ \A k \in DOMAIN r : j # k => g[j] # g[k]
    BY <2>5
  <2> HIDE DEF g
  <2>7. GoodLinks(r, B, E)
    <3>1. r \in Seq(PeerLink) BY <2>5
    <3> QED BY <2>6, <3>1, FewerLinks
  <2>8. \A j \in DOMAIN r : r[j].a = a => r[j].state = -1
    <3>1. \A j \in DOMAIN s : s[j].a = a => j = m BY <2>4 DEF GoodLinks
    <3> QED BY <2>5, <3>1
  <2>9. s # <<>> BY <2>4
  <2> QED BY <2>1, <2>7, <2>8, <2>9
<1> QED BY <1>2, <1>3

LEMMA LostGood ==
  ASSUME NEW s, NEW B, NEW E, GoodLinks(s, B, E), NEW i \in DOMAIN s
  PROVE  GoodLinks(Swarm!RemoveAt(s, i), B, E)
<1> DEFINE r == Swarm!RemoveAt(s, i)
<1>1. s \in Seq(PeerLink) BY DEF GoodLinks
<1>2. r \in Seq(PeerLink) /\ \E g : Taken(r, s, DOMAIN s, g) BY <1>1, RemovedAt
<1>3. PICK g : Taken(r, s, DOMAIN s, g) BY <1>2
<1> HIDE DEF r
<1>4. GoodLinks(r, B, E) BY <1>2, <1>3, FewerLinks DEF Taken
<1> QED BY <1>4 DEF r

LEMMA ShakenGood ==
  ASSUME NEW s, NEW B, NEW E, GoodLinks(s, B, E), NEW i \in DOMAIN s, s[i].state # -1
  PROVE  GoodLinks([s EXCEPT ![i].state = 3], B, E)
<1> DEFINE r == [s EXCEPT ![i].state = 3]
           g == [j \in DOMAIN s |-> j]
<1>1. s \in Seq(PeerLink) /\ Len(s) \in Nat /\ DOMAIN s = 1..Len(s) BY DEF GoodLinks
<1>2. DOMAIN r = DOMAIN s OBVIOUS
<1>3. ASSUME NEW j \in DOMAIN s
      PROVE  /\ r[j] \in PeerLink /\ r[j].a = s[j].a /\ r[j].local = s[j].local
             /\ (s[j].state = -1 => r[j].state = -1)
  <2>1. s[j] \in PeerLink BY <1>1
  <2>2. r[j] = IF j = i THEN [s[j] EXCEPT !.state = 3] ELSE s[j] OBVIOUS
  <2> HIDE DEF r
  <2> QED BY <2>1, <2>2 DEF PeerLink
<1>4. r = [j \in 1..Len(s) |-> r[j]] BY <1>1, <1>2
<1> HIDE DEF r
<1>5. r \in Seq(PeerLink)
  <2>1. r \in [1..Len(s) -> PeerLink] BY <1>1, <1>3, <1>4
  <2> QED BY <1>1, <2>1
<1>6. \A j \in DOMAIN r : /\ g[j] \in DOMAIN s /\ r[j].a = s[g[j]].a /\ r[j].local = s[g[j]].local
                           /\ (s[g[j]].state = -1 => r[j].state = -1)
                           /\ \A k \in DOMAIN r : j # k => g[j] # g[k]
  BY <1>2, <1>3
<1> HIDE DEF g
<1>7. GoodLinks(r, B, E) BY <1>5, <1>6, FewerLinks
<1> QED BY <1>7 DEF r

\* Every torrent loses its link with who is blocked, and who had connected is let in.
LEMMA Blocking ==
  ASSUME PeersInv, NEW a \in Addresses, Swarm!peer_block(a)
  PROVE  PeersInv'
<1> DEFINE peers == [f \in Torrents |-> Swarm!disconnected(m_peers[f], a)]
           B == m_block_list \cup {a}
           E == IF a \in m_block_list \/ ~(\E i \in DOMAIN m_links : m_links[i].a = a)
                THEN excused ELSE excused \cup {a}
<1>1. /\ m_peers' = peers /\ m_block_list' = B /\ excused' = E
      /\ UNCHANGED <<p_state, m_new_peers, m_links, backlog, m_peer_limit>>
  BY DEF Swarm!peer_block, Swarm!block_list_has
<1>2. GoodWaiting(m_links, B, E) BY DEF PeersInv, GoodWaiting
<1>3. ASSUME NEW f \in Torrents PROVE GoodLinks(peers[f], B, E) /\ (p_state[f] = "closed" => peers[f] = <<>>)
  <2> DEFINE r == Swarm!disconnected(m_peers[f], a)
  <2>1. GoodLinks(m_peers[f], m_block_list, excused) /\ (p_state[f] = "closed" => m_peers[f] = <<>>)
    BY DEF PeersInv, GoodPeers
  <2>2. /\ GoodLinks(r, m_block_list, excused) /\ (m_peers[f] = <<>> => r = <<>>)
        /\ \A i \in DOMAIN r : r[i].a = a => r[i].state = -1
    BY <2>1, DisconnectedGood
  <2>3. peers[f] = r OBVIOUS
  <2> HIDE DEF r, peers
  <2>4. GoodLinks(r, B, E) BY <2>2 DEF GoodLinks
  <2> QED BY <2>1, <2>2, <2>3, <2>4
<1>4. peers \in [Torrents -> Seq(PeerLink)] BY <1>3 DEF GoodLinks
<1> HIDE DEF peers, B, E
<1>5. GoodPeers(m_peers, m_block_list, excused)' BY <1>1, <1>3, <1>4 DEF GoodPeers
<1>6. GoodWaiting(m_links, m_block_list, excused)' BY <1>1, <1>2 DEF GoodWaiting
<1> QED BY <1>1, <1>5, <1>6 DEF PeersInv

LEMMA PeersNext == PeersInv /\ [Swarm!Next]_(Swarm!vars) => PeersInv'
<1> SUFFICES ASSUME PeersInv, [Swarm!Next]_(Swarm!vars) PROVE PeersInv' OBVIOUS
<1> DEFINE B == m_block_list
           E == excused
<1>a. GoodPeers(m_peers, B, E) /\ GoodWaiting(m_links, B, E) BY DEF PeersInv
\* Steps that leave the block list and the torrents alone, and those that leave the links alone, too.
<1>b. ASSUME UNCHANGED <<p_state, B, E>>, NEW peers, m_peers' = peers, GoodPeers(peers, B, E)
      PROVE  GoodPeers(m_peers, m_block_list, excused)'
  <2> HIDE DEF B, E
  <2>1. UNCHANGED <<p_state, m_block_list, excused>> BY <1>b DEF B, E
  <2>2. GoodPeers(peers, m_block_list, excused)
    BY <1>b DEF B, E
  <2> QED BY <1>b, <2>1, <2>2 DEF GoodPeers, GoodLinks
<1>c. ASSUME UNCHANGED <<p_state, m_peers, B, E>> PROVE GoodPeers(m_peers, m_block_list, excused)'
  BY <1>a, <1>c DEF GoodPeers, GoodLinks
<1>d. ASSUME UNCHANGED <<m_links, B, E>> PROVE GoodWaiting(m_links, m_block_list, excused)'
  BY <1>a, <1>d DEF GoodWaiting
<1>e. ASSUME UNCHANGED <<B, E>>, NEW s, m_links' = s, GoodWaiting(s, B, E)
      PROVE  GoodWaiting(m_links, m_block_list, excused)'
  BY <1>e DEF GoodWaiting
<1>1. CASE Swarm!pre_select
  <2> DEFINE c == [new |-> m_new_peers, peers |-> m_peers]
  <2>1. GoodWork(c) BY <1>a, PeersAssumption DEF GoodWork, Working, PeersInv, GoodPeers, Heeded
  <2>2. PICK U \in SUBSET Addresses :
          m_new_peers' = Swarm!all_pre_select(c, U).new /\ m_peers' = Swarm!all_pre_select(c, U).peers
    BY <1>1 DEF Swarm!pre_select
  <2>3. UNCHANGED <<p_state, m_links, backlog, m_peer_limit, B, E>> BY <1>1 DEF Swarm!pre_select, Swarm!config
  <2> HIDE DEF c
  <2> DEFINE d == Swarm!all_pre_select(c, U)
  <2>4. GoodWork(d) BY <2>1, AllGood
  <2> HIDE DEF d
  <2>5. m_new_peers' \in [Torrents -> SUBSET Addresses] BY <2>2, <2>4 DEF GoodWork, Working, d
  <2>6. GoodPeers(d.peers, B, E) /\ m_peers' = d.peers BY <2>2, <2>4 DEF GoodWork, d
  <2>7. GoodPeers(m_peers, m_block_list, excused)' BY <1>b, <2>3, <2>6
  <2>8. GoodWaiting(m_links, m_block_list, excused)' BY <1>d, <2>3
  <2> QED BY <2>3, <2>5, <2>7, <2>8 DEF PeersInv
<1>2. CASE Swarm!accept
  <2>1. UNCHANGED <<p_state, m_new_peers, m_peers, m_peer_limit, B, E>> BY <1>2 DEF Swarm!accept, Swarm!config
  <2>2. GoodPeers(m_peers, m_block_list, excused)' BY <1>c, <2>1
  <2>3. CASE listens
    <3> DEFINE s == m_links \o [i \in DOMAIN Swarm!taken |-> [a |-> Swarm!taken[i], age |-> 0]]
    <3>1. m_links' = s /\ backlog' = <<>> BY <1>2, <2>3 DEF Swarm!accept
    <3>2. GoodWaiting(s, B, E) BY Accepted
    <3> HIDE DEF s
    <3>3. GoodWaiting(m_links, m_block_list, excused)' BY <1>e, <2>1, <3>1, <3>2
    <3> QED BY <2>1, <2>2, <3>1, <3>3 DEF PeersInv
  <2>4. CASE ~listens
    <3>1. UNCHANGED <<m_links, backlog>> BY <1>2, <2>4 DEF Swarm!accept
    <3>2. GoodWaiting(m_links, m_block_list, excused)' BY <1>d, <2>1, <3>1
    <3> QED BY <2>1, <2>2, <3>1, <3>2 DEF PeersInv
  <2> QED BY <2>3, <2>4
<1>3. CASE Swarm!end_of_turn
  <2> DEFINE I == {i \in DOMAIN m_links : m_links[i].age <= LinkTime}
             s == Swarm!at(m_links, I)
  <2>1. UNCHANGED <<p_state, m_new_peers, m_peers, backlog, m_peer_limit, B, E>> /\ m_links' = s
    BY <1>3 DEF Swarm!end_of_turn, Swarm!config
  <2>2. s \in Seq(Waiting) /\ \E g : Taken(s, m_links, I, g) BY <1>a, AtTakes DEF GoodWaiting
  <2> HIDE DEF I
  <2>3. PICK g : Taken(s, m_links, I, g) BY <2>2
  <2> HIDE DEF s
  <2>4. GoodWaiting(s, B, E) BY <1>a, <2>2, <2>3, FewerWaiting
  <2>5. GoodWaiting(m_links, m_block_list, excused)' BY <1>e, <2>1, <2>4
  <2>6. GoodPeers(m_peers, m_block_list, excused)' BY <1>c, <2>1
  <2> QED BY <2>1, <2>5, <2>6 DEF PeersInv
<1>4. CASE Swarm!second
  <2> DEFINE s == [i \in DOMAIN m_links |-> [m_links[i] EXCEPT !.age = Swarm!Min({@ + 1, LinkTime + 1})]]
             n == Len(m_links)
  <2>1. UNCHANGED <<p_state, m_new_peers, m_peers, backlog, m_peer_limit, B, E>> /\ m_links' = s
    BY <1>4 DEF Swarm!second, Swarm!config
  <2>2. m_links \in Seq(Waiting) /\ n \in Nat /\ DOMAIN m_links = 1..n BY <1>a DEF GoodWaiting
  <2>3. ASSUME NEW i \in DOMAIN m_links PROVE s[i] \in Waiting /\ s[i].a = m_links[i].a
    <3> DEFINE t == m_links[i].age + 1
               u == LinkTime + 1
               m == Swarm!Min({t, u})
    <3>1. m_links[i] \in Waiting BY <2>2
    <3>2. {t, u} \in SUBSET Nat /\ {t, u} # {} BY <3>1, PeersAssumption DEF Waiting
    <3>3. m \in {t, u} BY <3>2, FirstAddress
    <3>4. m \in Nat BY <3>2, <3>3
    <3>5. s[i] = [m_links[i] EXCEPT !.age = m] OBVIOUS
    <3> HIDE DEF m, s
    <3> QED BY <3>1, <3>4, <3>5 DEF Waiting
  <2>4. s = [i \in 1..n |-> s[i]] BY <2>2
  <2> HIDE DEF s, n
  <2>5. s \in Seq(Waiting) /\ DOMAIN s = DOMAIN m_links
    <3>1. s \in [1..n -> Waiting] BY <2>2, <2>3, <2>4
    <3> QED BY <2>2, <3>1
  <2>6. GoodWaiting(s, B, E) BY <1>a, <2>3, <2>5 DEF GoodWaiting
  <2>7. GoodWaiting(m_links, m_block_list, excused)' BY <1>e, <2>1, <2>6
  <2>8. GoodPeers(m_peers, m_block_list, excused)' BY <1>c, <2>1
  <2> QED BY <2>1, <2>7, <2>8 DEF PeersInv
<1>5. ASSUME NEW i \in DOMAIN m_links, Swarm!recv_handshake(i) PROVE PeersInv'
  <2> DEFINE s == Swarm!RemoveAt(m_links, i)
             a == m_links[i].a
             l == [a |-> a, local |-> FALSE, state |-> 4]
  <2>1. UNCHANGED <<p_state, m_new_peers, backlog, m_peer_limit, B, E>> /\ m_links' = s
    BY <1>5 DEF Swarm!recv_handshake, Swarm!config
  <2>2. s \in Seq(Waiting) /\ \E g : Taken(s, m_links, DOMAIN m_links, g) BY <1>a, RemovedAt DEF GoodWaiting
  <2>3. PICK g : Taken(s, m_links, DOMAIN m_links, g) BY <2>2
  <2> HIDE DEF s
  <2>4. GoodWaiting(s, B, E) BY <1>a, <2>2, <2>3, FewerWaiting
  <2>5. GoodWaiting(m_links, m_block_list, excused)' BY <1>e, <2>1, <2>4
  <2>6. GoodPeers(m_peers, m_block_list, excused)'
    <3>1. CASE UNCHANGED m_peers BY <1>c, <2>1, <3>1
    <3>2. ASSUME NEW f \in Torrents, Swarm!insert_peer(f, a), m_peers' # m_peers
          PROVE  GoodPeers(m_peers, m_block_list, excused)'
      <4> DEFINE r == Append(m_peers[f], l)
                 peers == [m_peers EXCEPT ![f] = r]
      <4>1. p_state[f] # "closed" /\ ~Swarm!find_peer(m_peers[f], a) /\ m_peers' = peers
        BY <3>2 DEF Swarm!insert_peer
      <4>2. a \in Addresses /\ (a \in B => a \in E)
        <5>1. m_links[i] \in Waiting BY <1>a DEF GoodWaiting
        <5> QED BY <1>a, <5>1 DEF GoodWaiting, Waiting
      <4> HIDE DEF a
      <4>3. l \in PeerLink /\ l.a = a /\ ~l.local BY <4>2 DEF PeerLink
      <4> HIDE DEF l
      <4>4. GoodLinks(m_peers[f], B, E) BY <1>a DEF GoodPeers
      <4>5. GoodLinks(r, B, E) BY <4>1, <4>2, <4>3, <4>4, OneMoreLink
      <4>6. GoodPeers(peers, B, E)
        <5> HIDE DEF r
        <5> QED BY <1>a, <4>1, <4>5, OneTorrent
      <4> HIDE DEF peers
      <4> QED BY <1>b, <2>1, <4>1, <4>6
    <3> QED BY <1>5, <3>1, <3>2 DEF Swarm!recv_handshake
  <2> QED BY <2>1, <2>5, <2>6 DEF PeersInv
<1>6. ASSUME NEW f \in Torrents, NEW i \in DOMAIN m_peers[f], Swarm!peer_post_select(f, i) PROVE PeersInv'
  <2> DEFINE s == m_peers[f]
             x == [s EXCEPT ![i].state = 3]
             y == Swarm!RemoveAt(s, i)
  <2>1. /\ UNCHANGED <<p_state, m_new_peers, m_links, backlog, m_peer_limit, B, E>> /\ s[i].state # -1
        /\ m_peers' = [m_peers EXCEPT ![f] = x] \/ m_peers' = [m_peers EXCEPT ![f] = y]
    BY <1>6 DEF Swarm!peer_post_select, Swarm!config
  <2>2. GoodLinks(s, B, E) /\ (p_state[f] = "closed" => s = <<>>) BY <1>a DEF GoodPeers
  <2>3. p_state[f] # "closed" BY <2>2
  <2>4. GoodLinks(x, B, E) BY <2>1, <2>2, ShakenGood
  <2>5. GoodLinks(y, B, E) BY <2>2, LostGood
  <2> HIDE DEF x, y
  <2>6. PICK r \in {x, y} : m_peers' = [m_peers EXCEPT ![f] = r] BY <2>1
  <2>7. GoodLinks(r, B, E) BY <2>4, <2>5
  <2>8. GoodPeers([m_peers EXCEPT ![f] = r], B, E) BY <1>a, <2>3, <2>7, OneTorrent
  <2>9. GoodPeers(m_peers, m_block_list, excused)'
    <3> DEFINE peers == [m_peers EXCEPT ![f] = r]
    <3>1. m_peers' = peers /\ GoodPeers(peers, B, E) BY <2>6, <2>8
    <3> HIDE DEF peers
    <3> QED BY <1>b, <2>1, <3>1
  <2>10. GoodWaiting(m_links, m_block_list, excused)' BY <1>d, <2>1
  <2> QED BY <2>1, <2>9, <2>10 DEF PeersInv
<1>7. ASSUME NEW f \in Torrents, NEW a \in Addresses, Swarm!peer_connect(f, a) PROVE PeersInv'
  <2>1. /\ UNCHANGED <<p_state, m_peers, m_links, backlog, m_peer_limit, B, E>>
        /\ m_new_peers' = [m_new_peers EXCEPT ![f] = @ \cup {a}]
    BY <1>7 DEF Swarm!peer_connect, Swarm!config
  <2>2. GoodPeers(m_peers, m_block_list, excused)' BY <1>c, <2>1
  <2>3. GoodWaiting(m_links, m_block_list, excused)' BY <1>d, <2>1
  <2>4. m_new_peers' \in [Torrents -> SUBSET Addresses] BY <2>1 DEF PeersInv
  <2> QED BY <2>1, <2>2, <2>3, <2>4 DEF PeersInv
<1>8. ASSUME NEW f \in Torrents, NEW a \in Addresses, Swarm!peer_disconnect(f, a) PROVE PeersInv'
  <2> DEFINE r == Swarm!disconnected(m_peers[f], a)
             peers == [m_peers EXCEPT ![f] = r]
  <2>1. UNCHANGED <<p_state, m_new_peers, m_links, backlog, m_peer_limit, B, E>> /\ m_peers' = peers
    BY <1>8 DEF Swarm!peer_disconnect, Swarm!config
  <2>2. GoodLinks(m_peers[f], B, E) /\ (p_state[f] = "closed" => m_peers[f] = <<>>) BY <1>a DEF GoodPeers
  <2>3. GoodLinks(r, B, E) /\ (m_peers[f] = <<>> => r = <<>>) BY <2>2, DisconnectedGood
  <2> HIDE DEF r
  <2>4. GoodPeers(peers, B, E) BY <1>a, <2>2, <2>3, OneTorrent
  <2> HIDE DEF peers
  <2>5. GoodPeers(m_peers, m_block_list, excused)' BY <1>b, <2>1, <2>4
  <2>6. GoodWaiting(m_links, m_block_list, excused)' BY <1>d, <2>1
  <2> QED BY <2>1, <2>5, <2>6 DEF PeersInv
<1>9. ASSUME NEW a \in Addresses, Swarm!peer_block(a) PROVE PeersInv' BY <1>9, Blocking
<1>10. ASSUME NEW a \in Addresses, Swarm!connects(a) PROVE PeersInv'
  <2>1. /\ UNCHANGED <<p_state, m_new_peers, m_peers, m_links, m_peer_limit, B, E>>
        /\ backlog' = Append(backlog, a)
    BY <1>10 DEF Swarm!connects, Swarm!config
  <2>2. GoodPeers(m_peers, m_block_list, excused)' BY <1>c, <2>1
  <2>3. GoodWaiting(m_links, m_block_list, excused)' BY <1>d, <2>1
  <2>4. backlog' \in Seq(Addresses) BY <2>1 DEF PeersInv
  <2> QED BY <2>1, <2>2, <2>3, <2>4 DEF PeersInv
<1>11. ASSUME NEW s \in SUBSET m_block_list, Swarm!set_block_list(s) PROVE PeersInv'
  <2>1. /\ UNCHANGED <<p_state, m_new_peers, m_peers, m_links, backlog, m_peer_limit>>
        /\ m_block_list' = s /\ excused' = E \cap s
    BY <1>11 DEF Swarm!set_block_list
  <2>2. GoodPeers(m_peers, m_block_list, excused)' BY <1>a, <2>1 DEF GoodPeers, GoodLinks
  <2>3. GoodWaiting(m_links, m_block_list, excused)' BY <1>a, <2>1 DEF GoodWaiting
  <2> QED BY <2>1, <2>2, <2>3 DEF PeersInv
<1>12. ASSUME NEW v \in Limits, Swarm!peer_limit(v) PROVE PeersInv'
  <2>1. UNCHANGED <<p_state, m_new_peers, m_peers, m_links, backlog, B, E>> /\ m_peer_limit' = v
    BY <1>12 DEF Swarm!peer_limit
  <2>2. GoodPeers(m_peers, m_block_list, excused)' BY <1>c, <2>1
  <2>3. GoodWaiting(m_links, m_block_list, excused)' BY <1>d, <2>1
  <2> QED BY <2>1, <2>2, <2>3 DEF PeersInv
<1>13. ASSUME NEW f \in Torrents, NEW s \in {"running", "paused", "closed"}, Swarm!file_state(f, s)
       PROVE  PeersInv'
  <2>1. /\ UNCHANGED <<m_new_peers, m_links, backlog, m_peer_limit, B, E>> /\ p_state' = [p_state EXCEPT ![f] = s]
        /\ m_peers' = IF s = "closed" THEN [m_peers EXCEPT ![f] = <<>>] ELSE m_peers
    BY <1>13 DEF Swarm!file_state, Swarm!config
  <2>2. p_state' \in [Torrents -> {"running", "paused", "closed"}] BY <2>1 DEF PeersInv
  <2>3. ASSUME NEW h \in Torrents
        PROVE  GoodLinks(m_peers'[h], B, E) /\ (p_state'[h] = "closed" => m_peers'[h] = <<>>)
    <3>1. GoodLinks(m_peers[h], B, E) /\ (p_state[h] = "closed" => m_peers[h] = <<>>) BY <1>a DEF GoodPeers
    <3>2. CASE h # f
      <4>1. m_peers'[h] = m_peers[h] /\ p_state'[h] = p_state[h] BY <2>1, <3>2
      <4> QED BY <3>1, <4>1
    <3>3. CASE h = f /\ s = "closed"
      <4>1. m_peers'[h] = <<>> BY <1>a, <2>1, <3>3 DEF GoodPeers
      <4>2. DOMAIN <<>> = {} /\ <<>> \in Seq(PeerLink) OBVIOUS
      <4> QED BY <4>1, <4>2 DEF GoodLinks
    <3>4. CASE h = f /\ s # "closed"
      <4>1. m_peers'[h] = m_peers[h] /\ p_state'[h] = s BY <2>1, <3>4 DEF PeersInv
      <4> QED BY <3>1, <3>4, <4>1
    <3> QED BY <3>2, <3>3, <3>4
  <2>4. m_peers' \in [Torrents -> Seq(PeerLink)] BY <1>a, <2>1 DEF GoodPeers
  <2>5. GoodPeers(m_peers, m_block_list, excused)'
    <3>1. \A h \in Torrents : GoodLinks(m_peers'[h], B', E') /\ (p_state'[h] = "closed" => m_peers'[h] = <<>>)
      BY <2>1, <2>3
    <3> QED BY <2>4, <3>1 DEF GoodPeers
  <2>6. GoodWaiting(m_links, m_block_list, excused)' BY <1>d, <2>1
  <2> QED BY <2>1, <2>2, <2>5, <2>6 DEF PeersInv
<1>14. CASE UNCHANGED Swarm!vars
  <2>1. UNCHANGED <<p_state, m_new_peers, m_peers, m_links, backlog, m_peer_limit, B, E>> BY <1>14 DEF Swarm!vars
  <2>2. GoodPeers(m_peers, m_block_list, excused)' BY <1>c, <2>1
  <2>3. GoodWaiting(m_links, m_block_list, excused)' BY <1>d, <2>1
  <2> QED BY <2>1, <2>2, <2>3 DEF PeersInv
<1> QED
  BY <1>1, <1>2, <1>3, <1>4, <1>5, <1>6, <1>7, <1>8, <1>9, <1>10, <1>11, <1>12, <1>13, <1>14 DEF Swarm!Next

\* Our own links are those that were there, unless pre_select has found room for more.
LEMMA NoNewLocals ==
  ASSUME NEW peers, \A f \in Torrents : \A j \in DOMAIN peers[f] : peers[f][j].local =>
           \E i \in DOMAIN m_peers[f] : m_peers[f][i].local /\ m_peers[f][i].a = peers[f][j].a
  PROVE  Heeded(peers)
<1> SUFFICES ASSUME NEW t \in Torrents \X Addresses, t \in Swarm!locals(peers) PROVE t \in Swarm!locals(m_peers)
  BY DEF Heeded, Swarm!locals
<1>1. PICK j \in DOMAIN peers[t[1]] : peers[t[1]][j].local /\ peers[t[1]][j].a = t[2] BY DEF Swarm!locals
<1>2. \E i \in DOMAIN m_peers[t[1]] : m_peers[t[1]][i].local /\ m_peers[t[1]][i].a = t[2] BY <1>1
<1> QED BY <1>2 DEF Swarm!locals

LEMMA DisconnectedSame ==
  ASSUME NEW s \in Seq(PeerLink), NEW a
  PROVE  LET r == Swarm!disconnected(s, a)
         IN DOMAIN r = DOMAIN s /\ \A i \in DOMAIN s : r[i].a = s[i].a /\ r[i].local = s[i].local
<1> DEFINE r == Swarm!disconnected(s, a)
<1>1. CASE r = s BY <1>1
<1>2. CASE r # s
  <2>1. PICK k : r = [s EXCEPT ![k].state = -1] BY <1>2 DEF Swarm!disconnected
  <2>2. ASSUME NEW i \in DOMAIN s PROVE r[i].a = s[i].a /\ r[i].local = s[i].local
    <3>1. s[i] \in PeerLink OBVIOUS
    <3>2. r[i] = s[i] \/ r[i] = [s[i] EXCEPT !.state = -1] BY <2>1
    <3> HIDE DEF r
    <3> QED BY <3>1, <3>2 DEF PeerLink
  <2> QED BY <2>1, <2>2
<1> QED BY <1>1, <1>2

LEMMA LimitHeeded == PeersInv /\ [Swarm!Next]_(Swarm!vars) => Heeded(m_peers')
<1> SUFFICES ASSUME PeersInv, [Swarm!Next]_(Swarm!vars) PROVE Heeded(m_peers') OBVIOUS
<1>a. GoodPeers(m_peers, m_block_list, excused) /\ m_peers \in [Torrents -> Seq(PeerLink)]
  BY DEF PeersInv, GoodPeers
<1>1. CASE Swarm!pre_select
  <2> DEFINE c == [new |-> m_new_peers, peers |-> m_peers]
  <2>1. PICK U \in SUBSET Addresses : m_peers' = Swarm!all_pre_select(c, U).peers BY <1>1 DEF Swarm!pre_select
  <2>2. GoodWork(c) BY <1>a, PeersAssumption DEF GoodWork, Working, PeersInv, Heeded
  <2> HIDE DEF c
  <2>3. GoodWork(Swarm!all_pre_select(c, U)) BY <2>2, AllGood
  <2> QED BY <2>1, <2>3 DEF GoodWork
<1>2. CASE UNCHANGED m_peers
  <2>1. Heeded(m_peers) BY DEF Heeded
  <2> QED BY <1>2, <2>1
<1>3. ASSUME NEW i \in DOMAIN m_links, Swarm!recv_handshake(i) PROVE Heeded(m_peers')
  <2>1. CASE UNCHANGED m_peers BY <1>2, <2>1
  <2>2. ASSUME NEW f \in Torrents, m_peers' # m_peers, Swarm!insert_peer(f, m_links[i].a) PROVE Heeded(m_peers')
    <3> DEFINE l == [a |-> m_links[i].a, local |-> FALSE, state |-> 4]
    <3>1. m_peers' = [m_peers EXCEPT ![f] = Append(m_peers[f], l)] BY <2>2 DEF Swarm!insert_peer
    <3>2. ~l.local OBVIOUS
    <3> HIDE DEF l
    <3>3. ASSUME NEW h \in Torrents, NEW j \in DOMAIN m_peers'[h], m_peers'[h][j].local
          PROVE  \E k \in DOMAIN m_peers[h] : m_peers[h][k].local /\ m_peers[h][k].a = m_peers'[h][j].a
      <4>1. CASE h # f
        <5>1. m_peers'[h] = m_peers[h] BY <1>a, <3>1, <4>1
        <5> QED BY <3>3, <5>1
      <4>2. CASE h = f
        <5>1. m_peers'[h] = Append(m_peers[h], l) /\ m_peers[h] \in Seq(PeerLink) BY <1>a, <3>1, <4>2
        <5>2. j \in 1..(Len(m_peers[h]) + 1) /\ j # Len(m_peers[h]) + 1 BY <3>2, <3>3, <5>1
        <5>3. j \in DOMAIN m_peers[h] /\ m_peers'[h][j] = m_peers[h][j] BY <5>1, <5>2
        <5> QED BY <3>3, <5>3
      <4> QED BY <4>1, <4>2
    <3> QED BY <3>3, NoNewLocals
  <2> QED BY <1>3, <2>1, <2>2 DEF Swarm!recv_handshake
<1>4. ASSUME NEW f \in Torrents, NEW i \in DOMAIN m_peers[f], Swarm!peer_post_select(f, i) PROVE Heeded(m_peers')
  <2> DEFINE s == m_peers[f]
             x == [s EXCEPT ![i].state = 3]
             y == Swarm!RemoveAt(s, i)
  <2>1. m_peers' = [m_peers EXCEPT ![f] = x] \/ m_peers' = [m_peers EXCEPT ![f] = y]
    BY <1>4 DEF Swarm!peer_post_select
  <2>2. s \in Seq(PeerLink) BY <1>a
  <2>3. \A j \in DOMAIN x : \E k \in DOMAIN s : x[j].local = s[k].local /\ x[j].a = s[k].a
    <3> TAKE j \in DOMAIN x
    <3>1. j \in DOMAIN s /\ s[j] \in PeerLink BY <2>2
    <3>2. x[j] = s[j] \/ x[j] = [s[j] EXCEPT !.state = 3] BY <3>1
    <3>3. x[j].local = s[j].local /\ x[j].a = s[j].a
      <4> HIDE DEF x
      <4> QED BY <3>1, <3>2 DEF PeerLink
    <3> QED BY <3>1, <3>3
  <2>4. \A j \in DOMAIN y : \E k \in DOMAIN s : y[j].local = s[k].local /\ y[j].a = s[k].a
    <3>1. PICK g : Taken(y, s, DOMAIN s, g) BY <2>2, RemovedAt
    <3> HIDE DEF y
    <3> QED BY <3>1 DEF Taken
  <2> HIDE DEF x, y
  <2>5. PICK r \in {x, y} : m_peers' = [m_peers EXCEPT ![f] = r] BY <2>1
  <2>6. \A j \in DOMAIN r : \E k \in DOMAIN s : r[j].local = s[k].local /\ r[j].a = s[k].a BY <2>3, <2>4
  <2>7. m_peers'[f] = r /\ \A h \in Torrents : h # f => m_peers'[h] = m_peers[h] BY <1>a, <2>5
  <2> QED BY <2>6, <2>7, NoNewLocals
<1>5. ASSUME NEW a, \A f \in Torrents : m_peers'[f] = m_peers[f] \/ m_peers'[f] = Swarm!disconnected(m_peers[f], a)
      PROVE  Heeded(m_peers')
  <2>1. ASSUME NEW f \in Torrents
        PROVE  /\ DOMAIN m_peers'[f] = DOMAIN m_peers[f]
               /\ \A i \in DOMAIN m_peers[f] : /\ m_peers'[f][i].a = m_peers[f][i].a
                                              /\ m_peers'[f][i].local = m_peers[f][i].local
    <3>1. m_peers[f] \in Seq(PeerLink) BY <1>a
    <3> QED BY <1>5, <3>1, DisconnectedSame
  <2> QED BY <2>1, NoNewLocals
<1>6. ASSUME NEW f \in Torrents, NEW a \in Addresses, Swarm!peer_disconnect(f, a) PROVE Heeded(m_peers')
  <2>1. \A h \in Torrents : m_peers'[h] = m_peers[h] \/ m_peers'[h] = Swarm!disconnected(m_peers[h], a)
    BY <1>a, <1>6 DEF Swarm!peer_disconnect
  <2> QED BY <1>5, <2>1
<1>7. ASSUME NEW a \in Addresses, Swarm!peer_block(a) PROVE Heeded(m_peers')
  <2>1. \A h \in Torrents : m_peers'[h] = Swarm!disconnected(m_peers[h], a) BY <1>7 DEF Swarm!peer_block
  <2> QED BY <1>5, <2>1
<1>8. ASSUME NEW f \in Torrents, NEW s \in {"running", "paused", "closed"}, Swarm!file_state(f, s)
      PROVE  Heeded(m_peers')
  <2>1. \A h \in Torrents : m_peers'[h] = m_peers[h] \/ m_peers'[h] = <<>>
    BY <1>a, <1>8 DEF Swarm!file_state
  <2>2. DOMAIN <<>> = {} OBVIOUS
  <2> QED BY <2>1, <2>2, NoNewLocals
<1> QED
  <2>1. CASE Swarm!accept BY <1>2, <2>1 DEF Swarm!accept
  <2>2. CASE Swarm!end_of_turn BY <1>2, <2>2 DEF Swarm!end_of_turn
  <2>3. CASE Swarm!second BY <1>2, <2>3 DEF Swarm!second
  <2>4. CASE \E f \in Torrents, a \in Addresses : Swarm!peer_connect(f, a) BY <1>2, <2>4 DEF Swarm!peer_connect
  <2>5. CASE \E a \in Addresses : Swarm!connects(a) BY <1>2, <2>5 DEF Swarm!connects
  <2>6. CASE \E s \in SUBSET m_block_list : Swarm!set_block_list(s) BY <1>2, <2>6 DEF Swarm!set_block_list
  <2>7. CASE \E v \in Limits : Swarm!peer_limit(v) BY <1>2, <2>7 DEF Swarm!peer_limit
  <2>8. CASE UNCHANGED Swarm!vars BY <1>2, <2>8 DEF Swarm!vars
  <2> QED
    BY <1>1, <1>3, <1>4, <1>6, <1>7, <1>8, <2>1, <2>2, <2>3, <2>4, <2>5, <2>6, <2>7, <2>8 DEF Swarm!Next

-----------------------------------------------------------------------------
(* Commands.                                                               *)

States == {"queued", "hashing", "paused", "running", "stopped"}
Torrent == [state : States, priority : {0, 1}, ratio : Int, override : BOOLEAN]
Options == [id : Nat, priority : {0, 1}, ratio : Int, override : BOOLEAN]
GoodServer(s) == DOMAIN s \in SUBSET Torrents /\ \A h \in DOMAIN s : s[h] \in Torrent

\* What a copy has of the server, when that has not changed since.
Mirrors(c, s) ==
  /\ \A id \in DOMAIN c : c[id].hash \in DOMAIN s /\ c[id].t = s[c[id].hash]
  /\ \A h \in DOMAIN s : \E id \in DOMAIN c : c[id].hash = h
GoodCopy(c) ==
  /\ DOMAIN c \in SUBSET Nat /\ \A id \in DOMAIN c : c[id].t \in Torrent
  /\ \E n \in Nat : \A id \in DOMAIN c : id <= n
\* Selected rows, and the one whose options are open, were meant, whatever rows there were then.
Meant(c) ==
  /\ selected \subseteq DOMAIN c /\ \A id \in selected : c[id].hash \in meant
  /\ dialog # <<>> => dialog \in Options /\ dialog.id \in DOMAIN c /\ c[dialog.id].hash \in meant
OrdersInv ==
  /\ GoodServer(o_server) /\ GoodCopy(copy) /\ Meant(copy)
  /\ o_fresh \in BOOLEAN /\ (o_fresh => Mirrors(copy, o_server))

LEMMA OrdersInit == Orders!Init => OrdersInv
<1> SUFFICES ASSUME Orders!Init PROVE OrdersInv OBVIOUS
<1>1. ASSUME NEW s \in {"paused", "running", "stopped"}
      PROVE  [Orders!new_torrent EXCEPT !.state = s] \in Torrent
  <2>1. Orders!new_torrent \in Torrent BY DEF Orders!new_torrent, Torrent, States
  <2>2. s \in States BY DEF States
  <2> QED BY <2>1, <2>2 DEF Torrent
<1>2. GoodServer(o_server) BY <1>1 DEF Orders!Init, GoodServer
<1>3. DOMAIN copy = {} /\ selected = {} /\ dialog = <<>> /\ o_fresh = FALSE
  <2>1. DOMAIN <<>> = {} OBVIOUS
  <2> QED BY <2>1 DEF Orders!Init
<1> QED BY <1>2, <1>3 DEF OrdersInv, GoodCopy, Meant

\* What a state, a priority and options make of a torrent.
LEMMA StateOf ==
  ASSUME NEW t \in Torrent, NEW s \in {"queued", "paused", "running", "stopped"}, NEW u \in Orders!state(t, s)
  PROVE  u \in Torrent /\ (t.state \in {"paused", "running"} => u.state = s)
<1>1. PICK x \in States : u = [t EXCEPT !.state = x] /\ (t.state \in {"paused", "running"} => x = s)
  <2>1. CASE s \in {"queued", "stopped"} \/ Orders!is_open(t) BY <2>1 DEF Orders!state, States
  <2>2. CASE ~(s \in {"queued", "stopped"} \/ Orders!is_open(t))
    <3>1. u \in {[t EXCEPT !.state = x] : x \in {"hashing", "running"}} BY <2>2 DEF Orders!state, Orders!opened
    <3>2. t.state \notin {"paused", "running"} BY <2>2 DEF Orders!is_open
    <3> QED BY <3>1, <3>2 DEF States
  <2> QED BY <2>1, <2>2
<1> QED BY <1>1 DEF Torrent

LEMMA OptionsOf ==
  ASSUME NEW t \in Torrent, NEW o \in Options, NEW u \in Orders!options(t, o)
  PROVE  u \in Torrent
<1> DEFINE r == Orders!Max({100, o.ratio})
<1>1. o.ratio \in Int /\ o.priority \in {0, 1} /\ o.override \in BOOLEAN BY DEF Options
<1>2. r \in Int
  <2>1. \E x \in {100, o.ratio} : \A y \in {100, o.ratio} : x >= y
    <3>1. CASE o.ratio >= 100 BY <1>1, <3>1
    <3>2. CASE ~(o.ratio >= 100) BY <1>1, <3>2
    <3> QED BY <3>1, <3>2
  <2>2. r \in {100, o.ratio} BY <2>1 DEF Orders!Max
  <2> QED BY <1>1, <2>2
<1>3. u = [t EXCEPT !.priority = o.priority, !.ratio = r, !.override = o.override] BY DEF Orders!options
<1> HIDE DEF r
<1> QED BY <1>1, <1>2, <1>3 DEF Torrent

\* Ids are never used twice while they are known.
LEMMA NextId ==
  ASSUME NEW c, GoodCopy(c)
  PROVE  Orders!new_id(c) \in Nat /\ \A id \in DOMAIN c : id < Orders!new_id(c)
<1>1. DOMAIN c \in SUBSET Nat BY DEF GoodCopy
<1>2. PICK n \in Nat : \A id \in DOMAIN c : id <= n BY DEF GoodCopy
<1>3. CASE DOMAIN c = {} BY <1>3 DEF Orders!new_id
<1>4. CASE DOMAIN c # {}
  <2> DEFINE gaps == {n - id : id \in DOMAIN c}
  <2>1. gaps \in SUBSET Nat /\ gaps # {} BY <1>1, <1>2, <1>4
  <2>2. PICK a \in gaps : \A b \in gaps : a <= b BY <2>1, Smallest
  <2>3. PICK x \in DOMAIN c : a = n - x BY <2>2
  <2>4. \A y \in DOMAIN c : x >= y
    <3> TAKE y \in DOMAIN c
    <3>1. n - x <= n - y BY <2>2, <2>3
    <3> QED BY <1>1, <3>1
  <2>5. Orders!Max(DOMAIN c) \in DOMAIN c /\ \A y \in DOMAIN c : Orders!Max(DOMAIN c) >= y
    BY <2>3, <2>4 DEF Orders!Max
  <2>6. Orders!new_id(c) = Orders!Max(DOMAIN c) + 1 BY <1>4 DEF Orders!new_id
  <2> QED BY <1>1, <2>5, <2>6
<1> QED BY <1>3, <1>4

LEMMA AllListed ==
  ASSUME NEW S, IsFiniteSet(S)
  PROVE  LET s == Orders!SetToSeq(S)
         IN s \in Seq(S) /\ \A x \in S : \E i \in DOMAIN s : s[i] = x
<1> DEFINE n == Cardinality(S)
           s == Orders!SetToSeq(S)
<1>1. n \in Nat /\ ExistsBijection(1..n, S) BY FS_CardinalityType
<1>2. PICK f : f \in Bijection(1..n, S) BY <1>1 DEF ExistsBijection
<1>3. f \in [1..n -> S] /\ Orders!IsInjective(f)
  BY <1>2 DEF Bijection, Injection, IsInjective, Orders!IsInjective
<1>4. Orders!Cardinality(S) = n BY DEF Orders!Cardinality, Cardinality
<1>5. s \in [1..n -> S] /\ Orders!IsInjective(s)
  <2>1. s = CHOOSE g \in [1..n -> S] : Orders!IsInjective(g) BY <1>4 DEF Orders!SetToSeq
  <2> QED BY <1>3, <2>1
<1> HIDE DEF s
<1>6. s \in Injection(1..n, S) BY <1>5 DEF Injection, IsInjective, Orders!IsInjective
<1>7. s \in Surjection(1..n, S)
  <2>1. Cardinality(1..n) = Cardinality(S) BY <1>1, FS_Interval
  <2> HIDE DEF n
  <2> QED BY <1>6, <2>1, FS_Injection
<1>8. s \in Seq(S) /\ DOMAIN s = 1..n BY <1>1, <1>5
<1>9. \A x \in S : \E i \in DOMAIN s : s[i] = x BY <1>7, <1>8 DEF Surjection
<1> QED BY <1>8, <1>9 DEF s

\* After a snapshot has been read every torrent of the server has a row, and rows have kept theirs.
LEMMA NewRows ==
  ASSUME GoodServer(o_server), GoodCopy(copy)
  PROVE  LET r == Orders!with_new(copy)
         IN /\ DOMAIN copy \subseteq DOMAIN r /\ \A id \in DOMAIN copy : r[id] = copy[id]
            /\ DOMAIN r \in SUBSET Nat /\ \E n \in Nat : \A id \in DOMAIN r : id <= n
            /\ \A h \in DOMAIN o_server : \E id \in DOMAIN r : r[id].hash = h
<1> DEFINE S == DOMAIN o_server \ {copy[id].hash : id \in DOMAIN copy}
           new == Orders!SetToSeq(S)
           first == Orders!new_id(copy)
           J == first..(first + Len(new) - 1)
           r == Orders!with_new(copy)
<1>1. new \in Seq(S) /\ \A h \in S : \E i \in DOMAIN new : new[i] = h
  <2>1. S \in SUBSET Torrents BY DEF GoodServer
  <2> HIDE DEF S
  <2>2. IsFiniteSet(S) BY <2>1, PeersAssumption, FS_Subset
  <2> QED BY <2>2, AllListed
<1>2. first \in Nat /\ \A id \in DOMAIN copy : id < first BY NextId
<1>3. r = [id \in DOMAIN copy \cup J |-> IF id \in DOMAIN copy THEN copy[id] ELSE Orders!entry(new[id - first + 1])]
  BY DEF Orders!with_new
<1>4. Len(new) \in Nat /\ DOMAIN new = 1..Len(new) BY <1>1
<1>5. \A i \in 1..Len(new) : new[i] \in S BY <1>1
<1> HIDE DEF r, first, new, S
<1>6. DOMAIN copy \in SUBSET Nat BY DEF GoodCopy
<1>7. DOMAIN r = DOMAIN copy \cup J /\ \A id \in DOMAIN copy : r[id] = copy[id] BY <1>3
<1>8. ASSUME NEW k \in 1..Len(new) PROVE \E id \in DOMAIN r : r[id].hash = new[k]
  <2> DEFINE id == first + k - 1
  <2>1. id \in J /\ id - first + 1 = k /\ id >= first /\ id \in Int BY <1>2, <1>4
  <2>2. id \notin DOMAIN copy BY <1>2, <1>6, <2>1
  <2>3. r[id] = Orders!entry(new[id - first + 1]) BY <1>3, <1>7, <2>1, <2>2
  <2> HIDE DEF id
  <2>4. r[id].hash = new[k] BY <2>1, <2>3 DEF Orders!entry
  <2> QED BY <1>7, <2>1, <2>4
<1>9. \A h \in DOMAIN o_server : \E id \in DOMAIN r : r[id].hash = h
  <2> TAKE h \in DOMAIN o_server
  <2>1. CASE h \in S
    <3>1. PICK k \in 1..Len(new) : new[k] = h BY <1>1, <1>4, <2>1
    <3> QED BY <1>8, <3>1
  <2>2. CASE h \notin S
    <3>1. PICK id \in DOMAIN copy : copy[id].hash = h BY <2>2 DEF S
    <3> QED BY <1>7, <3>1
  <2> QED BY <2>1, <2>2
<1>10. \E n \in Nat : \A id \in DOMAIN r : id <= n
  <2>1. first + Len(new) \in Nat BY <1>2, <1>4
  <2>2. \A id \in DOMAIN copy : id <= first + Len(new) BY <1>2, <1>4, <1>6
  <2>3. \A id \in J : id <= first + Len(new) BY <1>2, <1>4
  <2> QED BY <1>7, <2>1, <2>2, <2>3
<1>11. DOMAIN r \in SUBSET Nat BY <1>2, <1>4, <1>6, <1>7
<1> QED BY <1>7, <1>9, <1>10, <1>11 DEF r

LEMMA Agreed ==
  ASSUME NEW A, IsFiniteSet(A), A # {}, NEW none, none \notin A
  PROVE  LET mark == IF Orders!Cardinality(A) = 1 THEN CHOOSE x \in A : TRUE ELSE none
         IN IF mark = none THEN Orders!Cardinality(A) > 1 ELSE A = {mark}
<1>1. Orders!Cardinality(A) = Cardinality(A) BY DEF Orders!Cardinality, Cardinality
<1>2. Cardinality(A) \in Nat /\ Cardinality(A) # 0 BY FS_CardinalityType, FS_EmptySet
<1>3. CASE Cardinality(A) = 1
  <2>1. PICK x : A = {x} BY <1>3, FS_Singleton
  <2> QED BY <1>1, <1>3, <2>1
<1>4. CASE Cardinality(A) # 1
  <2>1. Cardinality(A) > 1 BY <1>2, <1>4
  <2> QED BY <1>1, <1>4, <2>1
<1> QED BY <1>3, <1>4

\* The values of a finite set's elements.
LEMMA Values ==
  ASSUME NEW S, IsFiniteSet(S), NEW f
  PROVE  IsFiniteSet({f[x] : x \in S})
<1> DEFINE T == {f[x] : x \in S}
           g == [x \in S |-> f[x]]
<1>1. g \in Surjection(S, T) BY DEF Surjection
<1> QED BY <1>1, FS_Surjection

\* The marks: what the copy says of the selected torrents is what the server does.
LEMMA OrdersGive == OrdersInv => Orders!MarkTrue
<1> SUFFICES ASSUME OrdersInv, o_fresh, selected # {} PROVE Orders!MarkTrue
  BY DEF Orders!MarkTrue
<1> DEFINE A == {copy[id].t.state : id \in selected}
           L == {copy[id].t.priority : id \in selected}
           states == {o_server[h].state : h \in Orders!selection}
           levels == {o_server[h].priority : h \in Orders!selection}
<1>1. selected \subseteq DOMAIN copy /\ DOMAIN copy \in SUBSET Nat /\ Mirrors(copy, o_server)
  BY DEF OrdersInv, Meant, GoodCopy
<1>2. IsFiniteSet(selected)
  <2>1. PICK n \in Nat : \A id \in DOMAIN copy : id <= n BY DEF OrdersInv, GoodCopy
  <2>2. selected \in SUBSET (0..n) BY <1>1, <2>1
  <2>3. IsFiniteSet(0..n) BY FS_Interval
  <2> QED BY <2>2, <2>3, FS_Subset
<1>3. \A id \in selected : copy[id].t = o_server[copy[id].hash] /\ copy[id].t \in Torrent
  BY <1>1 DEF OrdersInv, GoodCopy, Mirrors
<1>4. states = A /\ levels = L BY <1>3 DEF Orders!selection, Orders!hash
<1>5. IsFiniteSet(A) /\ IsFiniteSet(L)
  <2> DEFINE f == [id \in selected |-> copy[id].t.state]
             g == [id \in selected |-> copy[id].t.priority]
  <2>1. A = {f[id] : id \in selected} /\ L = {g[id] : id \in selected} OBVIOUS
  <2> HIDE DEF f, g
  <2>2. IsFiniteSet({f[id] : id \in selected}) /\ IsFiniteSet({g[id] : id \in selected}) BY <1>2, Values
  <2> QED BY <2>1, <2>2
<1>6. A # {} /\ L # {} OBVIOUS
<1>7. Orders!Unknown \notin A /\ 2 \notin L BY <1>3 DEF Torrent, States, Orders!Unknown
<1>8. Orders!get_torrent_state = (IF Orders!Cardinality(A) = 1 THEN CHOOSE s \in A : TRUE ELSE Orders!Unknown)
  BY DEF Orders!get_torrent_state
<1>9. Orders!get_torrent_priority = (IF Orders!Cardinality(L) = 1 THEN CHOOSE s \in L : TRUE ELSE 2)
  BY DEF Orders!get_torrent_priority
<1> HIDE DEF A, L
<1>10. IF Orders!get_torrent_state = Orders!Unknown THEN Orders!Cardinality(A) > 1 ELSE A = {Orders!get_torrent_state}
  BY <1>5, <1>6, <1>7, <1>8, Agreed
<1>11. IF Orders!get_torrent_priority = 2 THEN Orders!Cardinality(L) > 1 ELSE L = {Orders!get_torrent_priority}
  BY <1>5, <1>6, <1>7, <1>9, Agreed
<1> QED BY <1>4, <1>10, <1>11 DEF Orders!MarkTrue

\* A command: every torrent it is for is changed, and no other; none comes or goes.
LEMMA OneCommand ==
  ASSUME OrdersInv,
         DOMAIN o_server' = DOMAIN o_server,
         \A h \in DOMAIN o_server : o_server'[h] \in Torrent \/ o_server'[h] = o_server[h],
         UNCHANGED <<copy, selected, meant>>, dialog' \in {dialog, <<>>}, o_fresh' = FALSE
  PROVE  OrdersInv'
<1>1. GoodServer(o_server)' BY DEF OrdersInv, GoodServer
<1>2. GoodCopy(copy)' BY DEF OrdersInv, GoodCopy
<1>3. Meant(copy)'
  <2>1. Meant(copy) BY DEF OrdersInv
  <2> QED BY <2>1 DEF Meant
<1> QED BY <1>1, <1>2, <1>3 DEF OrdersInv

LEMMA OrdersNext == OrdersInv /\ [Orders!Next]_(Orders!vars) => OrdersInv'
<1> SUFFICES ASSUME OrdersInv, [Orders!Next]_(Orders!vars) PROVE OrdersInv' OBVIOUS
<1>a. GoodServer(o_server) /\ GoodCopy(copy) /\ Meant(copy) /\ o_fresh \in BOOLEAN BY DEF OrdersInv
<1>1. CASE Orders!Background
  <2>1. UNCHANGED <<copy, selected, dialog, meant>> /\ o_fresh' = FALSE
    BY <1>1 DEF Orders!Background, Orders!one_more, Orders!window
  <2>2. GoodServer(o_server)'
    <3>1. ASSUME NEW h \in DOMAIN o_server, NEW m \in Orders!moves, o_server' = [o_server EXCEPT ![h].state = m[2]]
          PROVE  GoodServer(o_server)'
      <4>1. m[2] \in States BY DEF Orders!moves, States
      <4>2. [o_server[h] EXCEPT !.state = m[2]] \in Torrent BY <1>a, <4>1 DEF GoodServer, Torrent
      <4> QED BY <1>a, <3>1, <4>2 DEF GoodServer
    <3>2. ASSUME NEW h \in Torrents \ DOMAIN o_server,
                 o_server' = [k \in DOMAIN o_server \cup {h} |-> IF k = h THEN Orders!new_torrent ELSE o_server[k]]
          PROVE  GoodServer(o_server)'
      <4>1. Orders!new_torrent \in Torrent BY DEF Orders!new_torrent, Torrent, States
      <4> QED BY <1>a, <3>2, <4>1 DEF GoodServer
    <3>3. ASSUME NEW h \in DOMAIN o_server, Orders!close({h}) PROVE GoodServer(o_server)'
      BY <1>a, <3>3 DEF GoodServer, Orders!close
    <3> QED BY <1>1, <3>1, <3>2, <3>3 DEF Orders!Background
  <2> QED BY <1>a, <2>1, <2>2 DEF OrdersInv, GoodCopy, Meant
<1>2. CASE Orders!OnTimer
  <2> DEFINE read == Orders!with_new(copy)
             stay == {id \in DOMAIN read : read[id].hash \in DOMAIN o_server}
  <2>1. /\ DOMAIN copy \subseteq DOMAIN read /\ \A id \in DOMAIN copy : read[id] = copy[id]
        /\ DOMAIN read \in SUBSET Nat /\ \E n \in Nat : \A id \in DOMAIN read : id <= n
        /\ \A h \in DOMAIN o_server : \E id \in DOMAIN read : read[id].hash = h
    BY <1>a, NewRows
  <2>2. /\ copy' = [id \in stay |-> Orders!entry(read[id].hash)]
        /\ selected' = selected \cap stay
        /\ dialog' = IF dialog # <<>> /\ dialog.id \notin stay THEN <<>> ELSE dialog
        /\ o_fresh' = TRUE /\ UNCHANGED <<o_server, meant>>
    BY <1>2 DEF Orders!OnTimer
  <2> HIDE DEF read
  <2>3. \A id \in stay : copy'[id].hash = read[id].hash /\ copy'[id].t = o_server[read[id].hash]
    BY <2>2 DEF Orders!entry
  <2>4. DOMAIN copy' = stay BY <2>2
  <2>5. GoodCopy(copy)'
    <3>1. \A id \in stay : copy'[id].t \in Torrent BY <1>a, <2>3 DEF GoodServer
    <3> QED BY <2>1, <2>4, <3>1 DEF GoodCopy
  <2>6. Mirrors(copy, o_server)' BY <2>1, <2>2, <2>3, <2>4 DEF Mirrors
  <2>7. Meant(copy)'
    <3>1. \A id \in DOMAIN copy \cap stay : copy'[id].hash = copy[id].hash BY <2>1, <2>3
    <3>2. selected' \subseteq stay /\ \A id \in selected' : copy'[id].hash \in meant
      BY <1>a, <2>2, <3>1 DEF Meant
    <3>3. dialog' # <<>> => dialog' \in Options /\ dialog'.id \in stay /\ copy'[dialog'.id].hash \in meant
      <4>1. CASE dialog' = <<>> BY <4>1
      <4>2. CASE dialog' # <<>>
        <5>1. dialog' = dialog /\ dialog # <<>> /\ dialog.id \in stay BY <2>2, <4>2
        <5>2. dialog \in Options /\ dialog.id \in DOMAIN copy /\ copy[dialog.id].hash \in meant BY <1>a, <5>1 DEF Meant
        <5> QED BY <3>1, <5>1, <5>2
      <4> QED BY <4>1, <4>2
    <3> QED BY <2>2, <2>4, <3>2, <3>3 DEF Meant
  <2>8. GoodServer(o_server)' BY <1>a, <2>2
  <2> QED BY <2>2, <2>5, <2>6, <2>7, <2>8 DEF OrdersInv
<1>3. CASE Orders!OnPopupPaused
  <2>1. UNCHANGED <<copy, selected, dialog, meant>> /\ o_fresh' = FALSE
    BY <1>3 DEF Orders!OnPopupPaused, Orders!one_more, Orders!window
  <2>2. DOMAIN o_server' = DOMAIN o_server
        /\ \A h \in DOMAIN o_server :
             o_server'[h] \in CASE h \in Orders!in_copy("running") -> Orders!state(o_server[h], "paused")
                                [] h \in Orders!resumed -> Orders!state(o_server[h], "running")
                                [] OTHER -> {o_server[h]}
    BY <1>3 DEF Orders!OnPopupPaused
  <2>3. ASSUME NEW h \in DOMAIN o_server PROVE o_server'[h] \in Torrent \/ o_server'[h] = o_server[h]
    <3>1. o_server[h] \in Torrent BY <1>a DEF GoodServer
    <3>2. \/ o_server'[h] \in Orders!state(o_server[h], "paused") \/ o_server'[h] \in Orders!state(o_server[h], "running")
          \/ o_server'[h] = o_server[h]
      BY <2>2
    <3> QED BY <3>1, <3>2, StateOf
  <2> QED BY <2>1, <2>2, <2>3, OneCommand
<1>4. CASE Orders!OnFileClose
  <2>1. UNCHANGED <<copy, selected, dialog, meant>> /\ o_fresh' = FALSE
        /\ o_server' = [h \in DOMAIN o_server \ Orders!selection |-> o_server[h]]
    BY <1>4 DEF Orders!OnFileClose, Orders!one_more, Orders!window, Orders!close
  <2>2. GoodServer(o_server)' BY <1>a, <2>1 DEF GoodServer
  <2> QED BY <1>a, <2>1, <2>2 DEF OrdersInv, GoodCopy, Meant
<1>5. CASE Orders!OnPopupTorrentOptions
  <2>1. UNCHANGED <<o_server, copy, selected, meant, o_fresh>> BY <1>5 DEF Orders!OnPopupTorrentOptions
  <2>2. PICK id \in selected : dialog' = Orders!shown(id, copy[id].t.priority, copy[id].t.ratio, copy[id].t.override)
    BY <1>5 DEF Orders!OnPopupTorrentOptions
  <2>3. id \in DOMAIN copy /\ id \in Nat /\ copy[id].t \in Torrent /\ copy[id].hash \in meant
    BY <1>a DEF Meant, GoodCopy
  <2>4. dialog' \in Options /\ dialog'.id = id BY <2>2, <2>3 DEF Orders!shown, Options, Torrent
  <2>5. Meant(copy)' BY <1>a, <2>1, <2>3, <2>4 DEF Meant
  <2> QED BY <2>1, <2>5 DEF OrdersInv
<1>6. CASE Orders!OptionsOK
  <2>1. UNCHANGED <<copy, selected, meant>> /\ o_fresh' = FALSE /\ dialog # <<>> /\ dialog' = <<>>
    BY <1>6 DEF Orders!OptionsOK, Orders!one_more
  <2>2. DOMAIN o_server' = DOMAIN o_server
        /\ \A h \in DOMAIN o_server : o_server'[h] \in Orders!options(o_server[h], dialog) \/ o_server'[h] = o_server[h]
    BY <1>6 DEF Orders!OptionsOK, Orders!for_each
  <2>3. dialog \in Options BY <1>a, <2>1 DEF Meant
  <2>4. \A h \in DOMAIN o_server : o_server'[h] \in Torrent \/ o_server'[h] = o_server[h]
    BY <1>a, <2>2, <2>3, OptionsOf DEF GoodServer
  <2> QED BY <2>1, <2>2, <2>4, OneCommand
<1>7. CASE Orders!OptionsCancel
  <2>1. UNCHANGED <<o_server, copy, selected, meant, o_fresh>> /\ dialog' = <<>> BY <1>7 DEF Orders!OptionsCancel
  <2> QED BY <2>1 DEF OrdersInv, Meant
<1>8. ASSUME NEW S \in SUBSET DOMAIN copy, Orders!Select(S) PROVE OrdersInv'
  <2>1. /\ UNCHANGED <<o_server, copy, dialog, o_fresh>> /\ dialog = <<>>
        /\ selected' = S /\ meant' = {Orders!hash(id) : id \in S}
    BY <1>8 DEF Orders!Select
  <2>2. Meant(copy)' BY <2>1 DEF Meant, Orders!hash
  <2> QED BY <2>1, <2>2 DEF OrdersInv
<1>9. ASSUME NEW v \in {"queued", "paused", "running", "stopped"}, Orders!set_torrent_state(v) PROVE OrdersInv'
  <2>1. UNCHANGED <<copy, selected, dialog, meant>> /\ o_fresh' = FALSE
    BY <1>9 DEF Orders!set_torrent_state, Orders!command, Orders!one_more, Orders!window
  <2>2. DOMAIN o_server' = DOMAIN o_server
        /\ \A h \in DOMAIN o_server : o_server'[h] \in Orders!state(o_server[h], v) \/ o_server'[h] = o_server[h]
    BY <1>9 DEF Orders!set_torrent_state, Orders!command, Orders!for_each
  <2>3. \A h \in DOMAIN o_server : o_server'[h] \in Torrent \/ o_server'[h] = o_server[h]
    BY <1>a, <2>2, StateOf DEF GoodServer
  <2> QED BY <2>1, <2>2, <2>3, OneCommand
<1>10. CASE Orders!set_torrent_priority(1)
  <2>1. UNCHANGED <<copy, selected, dialog, meant>> /\ o_fresh' = FALSE
    BY <1>10 DEF Orders!set_torrent_priority, Orders!command, Orders!one_more, Orders!window
  <2>2. DOMAIN o_server' = DOMAIN o_server
        /\ \A h \in DOMAIN o_server : o_server'[h] \in Orders!priority(o_server[h], 1) \/ o_server'[h] = o_server[h]
    BY <1>10 DEF Orders!set_torrent_priority, Orders!command, Orders!for_each
  <2>3. \A h \in DOMAIN o_server : o_server'[h] \in Torrent \/ o_server'[h] = o_server[h]
    <3> TAKE h \in DOMAIN o_server
    <3>1. o_server[h] \in Torrent BY <1>a DEF GoodServer
    <3>2. [o_server[h] EXCEPT !.priority = 1] \in Torrent BY <3>1 DEF Torrent
    <3> QED BY <2>2, <3>2 DEF Orders!priority
  <2> QED BY <2>1, <2>2, <2>3, OneCommand
<1>11. ASSUME NEW o \in Options, Orders!EditOptions(o) PROVE OrdersInv'
  <2>1. /\ UNCHANGED <<o_server, copy, selected, meant, o_fresh>> /\ dialog # <<>>
        /\ dialog' = [o EXCEPT !.id = dialog.id]
    BY <1>11 DEF Orders!EditOptions
  <2>2. dialog \in Options /\ dialog.id \in DOMAIN copy /\ copy[dialog.id].hash \in meant BY <1>a, <2>1 DEF Meant
  <2>3. dialog' \in Options /\ dialog'.id = dialog.id BY <2>1, <2>2 DEF Options
  <2>4. Meant(copy)' BY <1>a, <2>1, <2>2, <2>3 DEF Meant
  <2> QED BY <2>1, <2>4 DEF OrdersInv
<1>12. ASSUME NEW S, NEW v, Orders!set_priority(S, v) PROVE OrdersInv'
  <2>1. UNCHANGED <<o_server, copy, selected, dialog, meant>> /\ o_fresh' = FALSE
    BY <1>12 DEF Orders!set_priority, Orders!one_more, Orders!window
  <2> QED BY <2>1 DEF OrdersInv, Meant
<1>13. CASE UNCHANGED Orders!vars
  <2>1. UNCHANGED <<o_server, copy, selected, dialog, meant, o_fresh>> BY <1>13 DEF Orders!vars
  <2> QED BY <2>1 DEF OrdersInv, Meant
<1>14. Orders!shown(0, 1, 0, FALSE) \in Options /\ Orders!shown(0, 0, 150, TRUE) \in Options
  BY DEF Orders!shown, Options
<1> QED
  BY <1>1, <1>2, <1>3, <1>4, <1>5, <1>6, <1>7, <1>8, <1>9, <1>10, <1>11, <1>12, <1>13, <1>14 DEF Orders!Next

\* A command reaches torrents that were meant only.
LEMMA CommandsMeant ==
  OrdersInv /\ [Orders!Next]_(Orders!vars) =>
    ((\E s \in {"queued", "paused", "running", "stopped"} : Orders!set_torrent_state(s))
       \/ Orders!OnFileClose \/ Orders!OptionsOK => Orders!others_kept)
<1> SUFFICES ASSUME OrdersInv, NEW h \in DOMAIN o_server \ meant,
                    \/ \E s \in {"queued", "paused", "running", "stopped"} : Orders!set_torrent_state(s)
                    \/ Orders!OnFileClose \/ Orders!OptionsOK
             PROVE  h \in DOMAIN o_server' /\ o_server'[h] = o_server[h]
  BY DEF Orders!others_kept
<1>1. h \notin Orders!selection BY DEF OrdersInv, Meant, Orders!selection, Orders!hash
<1>2. ASSUME NEW s \in {"queued", "paused", "running", "stopped"}, Orders!set_torrent_state(s)
      PROVE  h \in DOMAIN o_server' /\ o_server'[h] = o_server[h]
  BY <1>1, <1>2 DEF Orders!set_torrent_state, Orders!command, Orders!for_each
<1>3. CASE Orders!OnFileClose BY <1>1, <1>3 DEF Orders!OnFileClose, Orders!close
<1>4. CASE Orders!OptionsOK
  <2>1. h # Orders!hash(dialog.id) BY <1>4 DEF OrdersInv, Meant, Orders!OptionsOK, Orders!hash
  <2> QED BY <1>4, <2>1 DEF Orders!OptionsOK, Orders!for_each
<1> QED BY <1>2, <1>3, <1>4

\* Paused, where the copy says what the server does: it has the torrents the window thinks of.
LEMMA PausedAll ==
  OrdersInv /\ Orders!OnPopupPaused /\ o_fresh =>
    /\ \A h \in DOMAIN o_server : o_server[h].state \notin {"paused", "running"} => o_server'[h] = o_server[h]
    /\ \/ \A h \in DOMAIN o_server : o_server'[h].state # "running"
       \/ \A h \in DOMAIN o_server : o_server'[h].state # "paused"
<1> SUFFICES ASSUME OrdersInv, Orders!OnPopupPaused, o_fresh
             PROVE  /\ \A h \in DOMAIN o_server :
                         o_server[h].state \notin {"paused", "running"} => o_server'[h] = o_server[h]
                    /\ \/ \A h \in DOMAIN o_server : o_server'[h].state # "running"
                       \/ \A h \in DOMAIN o_server : o_server'[h].state # "paused"
  OBVIOUS
<1>1. Mirrors(copy, o_server) /\ GoodServer(o_server) BY DEF OrdersInv
<1>2. \A s : Orders!in_copy(s) = {h \in DOMAIN o_server : o_server[h].state = s}
  BY <1>1 DEF Orders!in_copy, Orders!hash, Mirrors
<1>3. \A h \in DOMAIN o_server :
        o_server'[h] \in CASE h \in Orders!in_copy("running") -> Orders!state(o_server[h], "paused")
                           [] h \in Orders!resumed -> Orders!state(o_server[h], "running")
                           [] OTHER -> {o_server[h]}
  BY DEF Orders!OnPopupPaused
<1>4. ASSUME NEW h \in DOMAIN o_server
      PROVE  /\ o_server[h].state = "running" => o_server'[h].state = "paused"
             /\ h \in Orders!resumed => o_server[h].state = "paused" /\ o_server'[h].state = "running"
             /\ o_server[h].state # "running" /\ h \notin Orders!resumed => o_server'[h] = o_server[h]
  <2>1. o_server[h] \in Torrent BY <1>1 DEF GoodServer
  <2>2. h \in Orders!in_copy("running") <=> o_server[h].state = "running" BY <1>2
  <2>3. h \in Orders!resumed => o_server[h].state = "paused" BY <1>2 DEF Orders!resumed
  <2>4. CASE o_server[h].state = "running"
    <3>1. o_server'[h] \in Orders!state(o_server[h], "paused") BY <1>3, <2>2, <2>3, <2>4
    <3>2. o_server'[h].state = "paused" BY <2>1, <2>4, <3>1, StateOf
    <3> QED BY <2>3, <2>4, <3>2
  <2>5. CASE h \in Orders!resumed
    <3>1. o_server'[h] \in Orders!state(o_server[h], "running") BY <1>3, <2>2, <2>3, <2>5
    <3>2. o_server'[h].state = "running" BY <2>1, <2>3, <2>5, <3>1, StateOf
    <3> QED BY <2>3, <2>5, <3>2
  <2>6. CASE o_server[h].state # "running" /\ h \notin Orders!resumed BY <1>3, <2>2, <2>6
  <2> QED BY <2>4, <2>5, <2>6
<1>5. CASE Orders!in_copy("running") = {}
  <2>1. \A h \in DOMAIN o_server : o_server[h].state # "running" BY <1>2, <1>5
  <2>2. \A h \in DOMAIN o_server : o_server[h].state = "paused" => h \in Orders!resumed
    BY <1>2, <1>5 DEF Orders!resumed
  <2>3. \A h \in DOMAIN o_server : o_server'[h].state # "paused"
    <3> TAKE h \in DOMAIN o_server
    <3>1. CASE h \in Orders!resumed BY <1>4, <3>1
    <3>2. CASE h \notin Orders!resumed BY <1>4, <2>1, <2>2, <3>2
    <3> QED BY <3>1, <3>2
  <2> QED BY <1>4, <2>3
<1>6. CASE Orders!in_copy("running") # {}
  <2>1. \A h : h \notin Orders!resumed BY <1>6 DEF Orders!resumed
  <2>2. \A h \in DOMAIN o_server : o_server'[h].state # "running"
    <3> TAKE h \in DOMAIN o_server
    <3>1. CASE o_server[h].state = "running" BY <1>4, <3>1
    <3>2. CASE o_server[h].state # "running" BY <1>4, <2>1, <3>2
    <3> QED BY <3>1, <3>2
  <2> QED BY <1>4, <2>2
<1> QED BY <1>5, <1>6

\* However the window is hidden and shown, options change and the shell starts anew, the icon is there
\* when it is wanted (XBT ClientDlg.cpp:987), or the window is; a mark in the menu of a copy that is
\* not stale is true of every torrent selected (XBT ClientDlg.cpp:2662); whoever connects to whom,
\* a torrent has one link with an address at most (bt_file.cpp:247) and none with who is blocked; and
\* whatever ports other programs take, the one that trackers are told is the one the server listens on.
THEOREM ControlIsKept == Window!Spec /\ Orders!Spec /\ Swarm!Spec /\ Listening!Spec => []ControlKept
<1>1. TrayInv => Window!IconAsWanted /\ Window!HidesWhenLeft BY DEF TrayInv
<1>2. PortsInv => Listening!ReachedWhereTold BY DEF PortsInv
<1>3. Window!Spec => [](Window!IconAsWanted /\ Window!HidesWhenLeft)
  BY TrayInit, TrayNext, <1>1, PTL DEF Window!Spec
<1>4. Orders!Spec => []Orders!MarkTrue
  BY OrdersInit, OrdersNext, OrdersGive, PTL DEF Orders!Spec
<1>5. Swarm!Spec => [](Swarm!OneLinkEach /\ Swarm!BlockedOut)
  BY PeersInit, PeersNext, PeersGive, PTL DEF Swarm!Spec
<1>6. Listening!Spec => []Listening!ReachedWhereTold
  BY PortsInit, PortsNext, <1>2, PTL DEF Listening!Spec
<1> QED BY <1>3, <1>4, <1>5, <1>6, PTL DEF ControlKept

\* Though the rows the user acts on are up to a second old, what is commanded reaches the torrents he
\* selected and no other (XBT ClientDlg.cpp:2675); where they are not stale, Paused starts nothing that
\* was not paused and leaves none running or none paused (XBT ClientDlg.cpp:3261); and a torrent makes
\* a link of its own only while all torrents together are below the peer limit (server.cpp:1129).
THEOREM CommandsAreObeyed == Orders!Spec /\ Swarm!Spec => CommandsObeyed
<1>1. Orders!Spec => []OrdersInv BY OrdersInit, OrdersNext, PTL DEF Orders!Spec
<1>2. Swarm!Spec => []PeersInv BY PeersInit, PeersNext, PTL DEF Swarm!Spec
<1>3. Orders!Spec => Orders!MeantOnly
  BY <1>1, CommandsMeant, PTL DEF Orders!Spec, Orders!MeantOnly
<1>4. OrdersInv /\ [Orders!Next]_(Orders!vars) =>
        [Orders!OnPopupPaused /\ o_fresh =>
           /\ \A h \in DOMAIN o_server : o_server[h].state \notin {"paused", "running"} => o_server'[h] = o_server[h]
           /\ \/ \A h \in DOMAIN o_server : o_server'[h].state # "running"
              \/ \A h \in DOMAIN o_server : o_server'[h].state # "paused"]_(Orders!vars)
  BY PausedAll
<1>5. Orders!Spec => Orders!PausedPauses
  BY <1>1, <1>4, PTL DEF Orders!Spec, Orders!PausedPauses
<1>6. PeersInv /\ [Swarm!Next]_(Swarm!vars) =>
        [\/ Swarm!locals(m_peers') \subseteq Swarm!locals(m_peers) \/ m_peer_limit = 0
         \/ Swarm!c_peers(m_peers') <= m_peer_limit]_(Swarm!vars)
  BY LimitHeeded DEF Heeded
<1>7. Swarm!Spec => Swarm!OwnWithinLimit
  BY <1>2, <1>6, PTL DEF Swarm!Spec, Swarm!OwnWithinLimit
<1> QED BY <1>3, <1>5, <1>7, PTL DEF CommandsObeyed
=============================================================================
