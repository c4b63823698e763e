---------------------------- MODULE DownloadProofs ----------------------------
(***************************************************************************)
(* Proofs about Download for any links, pieces, priorities and budgets.    *)
(***************************************************************************)
EXTENDS Download, FiniteSetTheorems, NatInduction, TLAPS

\* A sub-piece we have is reserved by nobody, one we have not by one link at most.
SubsInv(subs) ==
  \A b \in DOMAIN subs : /\ subs[b].valid => subs[b].peers = {}
                         /\ \A k, l \in subs[b].peers : k = l
\* A piece: its type, its counts and its reservations.
PieceInv(p, a) == p \in PieceRecord(SubPieces[a]) /\ PieceCounts(p, a) /\ SubsInv(p.subs)

\* The links of a torrent and its state go together: a link is used only while the torrent is
\* open and not hashed, and a torrent that is not open has no link and no hasher.
LinksInv(t) ==
  /\ \A l \in Link : /\ t.links[l].state = "none" => t.links[l] = NoLink
                     /\ t.links[l].state = "ready" => t.hashed = NoHasher
  /\ ~is_open(t) => t.hashed = NoHasher /\ \A l \in Link : t.links[l] = NoLink
  /\ is_open(t) => (t.validate <=> t.hashed # NoHasher)

Told(t) ==
  \A l \in Link : t.links[l].state = "ready" =>
    valid_pieces(t) \subseteq t.links[l].told \cup t.links[l].haves \cup t.links[l].has

TorrentInv(t) ==
  /\ t \in TorrentRecord
  /\ \A a \in Piece : PieceInv(t.pieces[a], a) /\ t.pieces[a].peers = owners(t, Link, a)
  /\ LinksInv(t) /\ Told(t)
  /\ is_open(t) /\ t.hashed = NoHasher => t.left = invalid_size(t.pieces)

\* Every reservation is one of a link that has the request.
Reserved(t) ==
  \A a \in Piece : \A b \in DOMAIN t.pieces[a].subs : \A l \in t.pieces[a].subs[b].peers :
    t.links[l].state = "ready" /\ t.links[l].asked[<<a, b>>] > 0

\* While the hasher runs, left is the size of the pieces hashed so far that are not valid.
HashInv ==
  torrent.hashed # NoHasher =>
    /\ torrent.left = Cardinality({c \in Chunk : c[1] <= torrent.hashed /\ ~torrent.pieces[c[1]].valid})
    /\ \A a \in Piece : a <= torrent.hashed /\ torrent.pieces[a].valid => good(disk, a)

\* What state.bin may hold of the pieces.
SavedInv ==
  /\ saved \in [state: State, validate: BOOLEAN, valid: SUBSET Piece, subs: {saved.subs}]
  /\ \A a \in Piece :
       /\ saved.subs[a] \in {NoSubs} \cup [1..SubPieces[a] -> BOOLEAN]
       /\ a \in saved.valid => saved.subs[a] = NoSubs
       /\ saved.subs[a] # NoSubs => \E b \in 1..SubPieces[a] : ~saved.subs[a][b]

\* What is on disk of the pieces that are called valid: all of them, or, once the file has been
\* removed, nothing.  Until it is, all that state.bin calls valid without a doubt is on disk too.
AllGood(pieces) == \A a \in pieces : good(disk, a)
Gone == \A c \in Chunk : disk[c] = "none"
Intact == budget["lose"] = Budget["lose"]
Sure == Intact \/ budget["crash"] = Budget["crash"]
DataInv ==
  /\ Sure /\ up /\ ~torrent.validate =>
       \/ AllGood(valid_pieces(torrent))
       \/ Gone /\ ~Intact /\ ~is_open(torrent)
  /\ Sure /\ ~up /\ ~saved.validate => Gone \/ AllGood(saved.valid)
  /\ Intact /\ ~saved.validate =>
       /\ AllGood(saved.valid)
       /\ up => saved.valid \subseteq valid_pieces(torrent) /\ ~torrent.validate

Inv ==
  /\ TorrentInv(torrent) /\ SavedInv
  /\ disk \in [Chunk -> {"none", "good", "bad"}]
  /\ up \in BOOLEAN /\ turn \in SUBSET Link
  /\ budget \in [Kind -> Nat] /\ \A k \in Kind : budget[k] <= Budget[k]
  /\ ~up => torrent = new_torrent
  /\ budget["odd"] = Budget["odd"] => Reserved(torrent)
  /\ HashInv /\ DataInv

-----------------------------------------------------------------------------
(* One piece.                                                              *)

LEMMA Sizes ==
  ASSUME NEW a \in Piece
  PROVE  /\ SubPieces[a] \in Nat \ {0} /\ SubPieces[a] <= SubPieces[1]
         /\ IsFiniteSet(1..SubPieces[a]) /\ Cardinality(1..SubPieces[a]) = SubPieces[a]
<1>1. SubPieces[a] \in Nat \ {0} /\ SubPieces[a] <= SubPieces[1] BY DownloadAssumption
<1> QED BY <1>1, FS_Interval

\* A set of the sub-pieces of a piece has at most as many elements as the piece.
LEMMA FewSubs ==
  ASSUME NEW a \in Piece, NEW s \in SUBSET (1..SubPieces[a])
  PROVE  IsFiniteSet(s) /\ Cardinality(s) \in 0..SubPieces[a]
<1> DEFINE all == 1..SubPieces[a]
<1>1. IsFiniteSet(all) /\ Cardinality(all) = SubPieces[a] /\ SubPieces[a] \in Nat BY Sizes
<1>2. s \in SUBSET all OBVIOUS
<1> HIDE DEF all
<1>3. IsFiniteSet(s) /\ Cardinality(s) <= SubPieces[a] BY <1>1, <1>2, FS_Subset
<1>4. Cardinality(s) \in Nat BY <1>3, FS_CardinalityType
<1> QED BY <1>1, <1>3, <1>4

LEMMA NoSubsEmpty == DOMAIN NoSubs = {} /\ \A f : f \in [{} -> {}] => f = NoSubs
BY DEF NoSubs

\* A piece is the record of its fields.
LEMMA PieceFields ==
  ASSUME NEW n, NEW p \in PieceRecord(n)
  PROVE  /\ p = [valid |-> p.valid, subs |-> p.subs, left |-> p.left,
                 unrequested |-> p.unrequested, peers |-> p.peers]
         /\ p.valid \in BOOLEAN /\ p.subs \in {NoSubs} \cup [1..n -> SubPiece]
         /\ p.left \in 0..n /\ p.unrequested \in 0..n /\ p.peers \in Nat
BY DEF PieceRecord

LEMMA MakePiece ==
  ASSUME NEW n, NEW v \in BOOLEAN, NEW s \in {NoSubs} \cup [1..n -> SubPiece],
         NEW l \in 0..n, NEW u \in 0..n, NEW m \in Nat
  PROVE  [valid |-> v, subs |-> s, left |-> l, unrequested |-> u, peers |-> m] \in PieceRecord(n)
BY DEF PieceRecord

\* The sub-pieces of a piece as they are once there is a list of them.
LEMMA OpenSubs ==
  ASSUME NEW a \in Piece, NEW p, p.subs \in {NoSubs} \cup [1..SubPieces[a] -> SubPiece]
  PROVE  /\ open_subs(p, a) \in [1..SubPieces[a] -> SubPiece]
         /\ p.subs = NoSubs => \A b \in 1..SubPieces[a] :
                                 open_subs(p, a)[b] = [valid |-> FALSE, peers |-> {}]
         /\ p.subs # NoSubs => open_subs(p, a) = p.subs
BY DEF open_subs, SubPiece

\* A piece none of whose sub-pieces has been fetched.
LEMMA FreshPiece ==
  ASSUME NEW a \in Piece, NEW p \in PieceRecord(SubPieces[a]), ~p.valid, p.subs = NoSubs,
         p.left = SubPieces[a], p.unrequested = SubPieces[a]
  PROVE  PieceInv(p, a)
<1> DEFINE subs == open_subs(p, a)
<1>1. subs = [b \in 1..SubPieces[a] |-> [valid |-> FALSE, peers |-> {}]] BY DEF open_subs
<1>2. {b \in DOMAIN subs : ~subs[b].valid} = 1..SubPieces[a] BY <1>1
<1>3. requestable(subs) = 1..SubPieces[a] BY <1>1 DEF requestable
<1>4. SubPieces[a] > 0 /\ Cardinality(1..SubPieces[a]) = SubPieces[a] BY Sizes
<1> HIDE DEF subs
<1>5. PieceCounts(p, a) BY <1>2, <1>3, <1>4 DEF PieceCounts, subs
<1> QED BY <1>5, NoSubsEmpty DEF PieceInv, SubsInv

LEMMA ValidPiece ==
  ASSUME NEW a \in Piece, NEW p \in PieceRecord(SubPieces[a]), p.valid, p.subs = NoSubs
  PROVE  PieceInv(p, a)
BY NoSubsEmpty DEF PieceInv, PieceCounts, SubsInv

LEMMA NewPiece ==
  ASSUME NEW a \in Piece
  PROVE  PieceInv(new_piece(a), a) /\ ~new_piece(a).valid /\ new_piece(a).peers = 0
<1>1. SubPieces[a] \in 0..SubPieces[a] BY Sizes
<1>2. new_piece(a) \in PieceRecord(SubPieces[a]) BY <1>1, MakePiece DEF new_piece
<1> QED BY <1>2, FreshPiece DEF new_piece

\* Cbt_piece::valid keeps the counts of a piece.
LEMMA PieceValid ==
  ASSUME NEW a \in Piece, NEW p, PieceInv(p, a), NEW v \in BOOLEAN
  PROVE  /\ PieceInv(piece_valid(p, a, v), a)
         /\ piece_valid(p, a, v).valid = v /\ piece_valid(p, a, v).peers = p.peers
         /\ piece_valid(p, a, v).subs \in {p.subs, NoSubs}
<1> DEFINE q == piece_valid(p, a, v)
<1>0. p \in PieceRecord(SubPieces[a]) BY DEF PieceInv
<1>p. /\ p = [valid |-> p.valid, subs |-> p.subs, left |-> p.left,
              unrequested |-> p.unrequested, peers |-> p.peers]
      /\ p.valid \in BOOLEAN /\ p.peers \in Nat
  BY <1>0, PieceFields
<1>n. 0 \in 0..SubPieces[a] /\ SubPieces[a] \in 0..SubPieces[a] BY Sizes
<1>1. CASE v = TRUE
  <2>1. q = [valid |-> TRUE, subs |-> NoSubs, left |-> 0, unrequested |-> 0, peers |-> p.peers]
    BY <1>1, <1>p DEF piece_valid
  <2>2. q \in PieceRecord(SubPieces[a])
    <3> DEFINE N == SubPieces[a]
               x == p.peers
    <3>1. N \in 0..N /\ 0 \in 0..N /\ x \in Nat BY <1>p, <1>n
    <3> HIDE DEF N, x, q
    <3>2. /\ [valid |-> TRUE, subs |-> NoSubs, left |-> 0, unrequested |-> 0, peers |-> x] \in PieceRecord(N)
          /\ [valid |-> FALSE, subs |-> NoSubs, left |-> N, unrequested |-> N, peers |-> x] \in PieceRecord(N)
      BY <3>1 DEF PieceRecord
    <3> QED BY <2>1, <3>2 DEF N, x
  <2>3. q.valid = TRUE /\ q.peers = p.peers /\ q.subs = NoSubs BY <2>1
  <2>4. PieceInv(q, a) BY <2>2, <2>3, ValidPiece
  <2> QED BY <1>1, <2>3, <2>4
<1>2. CASE v = FALSE /\ p.subs = NoSubs
  <2>1. q = [valid |-> FALSE, subs |-> NoSubs, left |-> SubPieces[a],
             unrequested |-> SubPieces[a], peers |-> p.peers]
    BY <1>2, <1>p DEF piece_valid
  <2>2. q \in PieceRecord(SubPieces[a])
    <3> DEFINE N == SubPieces[a]
               x == p.peers
    <3>1. N \in 0..N /\ 0 \in 0..N /\ x \in Nat BY <1>p, <1>n
    <3> HIDE DEF N, x, q
    <3>2. /\ [valid |-> TRUE, subs |-> NoSubs, left |-> 0, unrequested |-> 0, peers |-> x] \in PieceRecord(N)
          /\ [valid |-> FALSE, subs |-> NoSubs, left |-> N, unrequested |-> N, peers |-> x] \in PieceRecord(N)
      BY <3>1 DEF PieceRecord
    <3> QED BY <2>1, <3>2 DEF N, x
  <2>3. PieceInv(q, a) BY <2>1, <2>2, FreshPiece
  <2>4. q.valid = FALSE /\ q.peers = p.peers /\ q.subs = NoSubs BY <2>1
  <2> QED BY <1>2, <2>3, <2>4
<1>3. CASE v = FALSE /\ p.subs # NoSubs
  <2>1. p.valid = FALSE BY <1>3, <1>p DEF PieceInv, PieceCounts
  <2>2. q = p BY <1>3, <2>1, <1>p DEF piece_valid
  <2> QED BY <1>3, <2>1, <2>2
<1> QED BY <1>1, <1>2, <1>3

\* What a piece that is not valid is known to keep of its sub-pieces.
LEMMA Unreserved ==
  ASSUME NEW a \in Piece, NEW p, PieceInv(p, a), ~p.valid
  PROVE  LET s == open_subs(p, a)
         IN /\ s \in [1..SubPieces[a] -> SubPiece] /\ SubsInv(s)
            /\ p.left = Cardinality({b \in DOMAIN s : ~s[b].valid}) /\ p.left > 0
            /\ p.unrequested = Cardinality(requestable(s))
<1>1. p.subs \in {NoSubs} \cup [1..SubPieces[a] -> SubPiece] BY PieceFields DEF PieceInv
<1> DEFINE s == open_subs(p, a)
<1>2. s \in [1..SubPieces[a] -> SubPiece] BY <1>1, OpenSubs
<1>3. SubsInv(s)
  <2>1. CASE p.subs = NoSubs
    <3>1. \A b \in 1..SubPieces[a] : s[b].valid = FALSE /\ s[b].peers = {} BY <1>1, <2>1, OpenSubs
    <3> HIDE DEF s
    <3> QED BY <1>2, <3>1 DEF SubsInv
  <2>2. CASE p.subs # NoSubs
    <3>1. s = p.subs BY <1>1, <2>2, OpenSubs
    <3> HIDE DEF s
    <3> QED BY <3>1 DEF SubsInv, PieceInv
  <2> QED BY <2>1, <2>2
<1>4. PieceCounts(p, a) BY DEF PieceInv
<1> QED BY <1>2, <1>3, <1>4 DEF PieceCounts

LEMMA ListedPiece ==
  ASSUME NEW a \in Piece, NEW s \in [1..SubPieces[a] -> SubPiece], SubsInv(s), NEW m \in Nat,
         NEW l, NEW u, NEW b \in 1..SubPieces[a], ~s[b].valid,
         l = Cardinality({c \in 1..SubPieces[a] : ~s[c].valid}), u = Cardinality(requestable(s))
  PROVE  PieceInv([valid |-> FALSE, subs |-> s, left |-> l, unrequested |-> u, peers |-> m], a)
<1> DEFINE missing == {c \in 1..SubPieces[a] : ~s[c].valid}
           p == [valid |-> FALSE, subs |-> s, left |-> l, unrequested |-> u, peers |-> m]
<1>1. DOMAIN s = 1..SubPieces[a] /\ b \in missing OBVIOUS
<1>2. missing \in SUBSET (1..SubPieces[a]) /\ requestable(s) \in SUBSET (1..SubPieces[a])
  BY <1>1 DEF requestable
<1>3. l \in 0..SubPieces[a] /\ u \in 0..SubPieces[a] /\ IsFiniteSet(missing) BY <1>2, FewSubs
<1>4. l > 0
  <2> HIDE DEF missing
  <2>1. Cardinality(missing) # 0 BY <1>1, <1>3, FS_EmptySet
  <2>2. l = Cardinality(missing) BY DEF missing
  <2> QED BY <1>3, <2>1, <2>2
<1>5. p \in PieceRecord(SubPieces[a]) BY <1>3, MakePiece
<1>6. open_subs(p, a) = s
  <2>1. s # NoSubs BY <1>1, NoSubsEmpty
  <2> QED BY <2>1 DEF open_subs
<1>7. PieceCounts(p, a)
  <2>1. /\ p.valid = FALSE /\ p.left = l /\ p.unrequested = u /\ DOMAIN s = 1..SubPieces[a]
        /\ l = Cardinality({c \in DOMAIN s : ~s[c].valid})
    BY <1>1
  <2> HIDE DEF p
  <2> QED BY <1>4, <1>6, <2>1 DEF PieceCounts
<1>8. p.subs = s OBVIOUS
<1> HIDE DEF p
<1>9. PieceInv(p, a) BY <1>5, <1>7, <1>8 DEF PieceInv, SubsInv
<1> QED BY <1>9 DEF p

\* Reserving free sub-pieces keeps the counts.
LEMMA Reserve ==
  ASSUME NEW a \in Piece, NEW p, PieceInv(p, a), ~p.valid, NEW l \in Link,
         NEW taken \in SUBSET requestable(open_subs(p, a))
  PROVE  /\ PieceInv(reserve(p, a, l, taken), a)
         /\ reserve(p, a, l, taken).valid = p.valid /\ reserve(p, a, l, taken).peers = p.peers
<1> DEFINE s == open_subs(p, a)
           r == [b \in DOMAIN s |-> IF b \in taken THEN [valid |-> FALSE, peers |-> {l}] ELSE s[b]]
<1>1. /\ s \in [1..SubPieces[a] -> SubPiece] /\ SubsInv(s)
      /\ p.left = Cardinality({b \in DOMAIN s : ~s[b].valid}) /\ p.left > 0
      /\ p.unrequested = Cardinality(requestable(s))
  BY Unreserved
<1>2. /\ p = [valid |-> p.valid, subs |-> p.subs, left |-> p.left,
              unrequested |-> p.unrequested, peers |-> p.peers]
      /\ p.valid = FALSE /\ p.peers \in Nat
  BY PieceFields DEF PieceInv
<1>3. reserve(p, a, l, taken) =
        [valid |-> FALSE, subs |-> r, left |-> p.left,
         unrequested |-> Cardinality(requestable(s)) - Cardinality(taken), peers |-> p.peers]
  <2>1. reserve(p, a, l, taken) =
          [p EXCEPT !.subs = r, !.unrequested = p.unrequested - Cardinality(taken)]
    BY DEF reserve
  <2> HIDE DEF s, r
  <2> QED BY <1>1, <1>2, <2>1 DEF s
<1>4. taken \subseteq requestable(s) /\ requestable(s) \in SUBSET (1..SubPieces[a])
  BY <1>1 DEF requestable
<1> HIDE DEF s
<1>5. r \in [1..SubPieces[a] -> SubPiece] BY <1>1 DEF SubPiece
<1>6. SubsInv(r) BY <1>1 DEF SubsInv
<1>7. \A b \in 1..SubPieces[a] : ~r[b].valid <=> ~s[b].valid BY <1>1, <1>4 DEF requestable
<1>8. requestable(r) = requestable(s) \ taken BY <1>1, <1>4 DEF requestable
<1>9. Cardinality(requestable(r)) = Cardinality(requestable(s)) - Cardinality(taken)
  <2>1. IsFiniteSet(requestable(s)) BY <1>4, FewSubs
  <2>2. requestable(s) \cap taken = taken BY <1>4
  <2> QED BY <1>8, <2>1, <2>2, FS_Difference
<1>10. DOMAIN s = 1..SubPieces[a] BY <1>1
<1> HIDE DEF r
<1>11. {b \in 1..SubPieces[a] : ~r[b].valid} = {b \in 1..SubPieces[a] : ~s[b].valid} BY <1>7
<1>12. PICK b \in 1..SubPieces[a] : ~r[b].valid
  <2>1. CASE {b \in 1..SubPieces[a] : ~r[b].valid} = {}
    <3>1. p.left = 0 BY <1>1, <1>10, <1>11, <2>1, FS_EmptySet
    <3> QED BY <1>1, <3>1
  <2> QED BY <2>1
<1>13. PieceInv([valid |-> FALSE, subs |-> r, left |-> p.left,
         unrequested |-> Cardinality(requestable(r)), peers |-> p.peers], a)
  BY <1>1, <1>2, <1>5, <1>6, <1>10, <1>11, <1>12, ListedPiece
<1> DEFINE q == reserve(p, a, l, taken)
<1>14. q = [valid |-> FALSE, subs |-> r, left |-> p.left,
            unrequested |-> Cardinality(requestable(r)), peers |-> p.peers]
  BY <1>3, <1>9
<1>15. q.valid = FALSE /\ q.peers = p.peers BY <1>14
<1>16. PieceInv(q, a) BY <1>13, <1>14
<1> QED BY <1>2, <1>15, <1>16

\* A piece whose list of sub-pieces is there and is not valid.
LEMMA Listed ==
  ASSUME NEW a \in Piece, NEW p, PieceInv(p, a), p.subs # NoSubs
  PROVE  /\ p.valid = FALSE /\ open_subs(p, a) = p.subs /\ p.subs \in [1..SubPieces[a] -> SubPiece]
         /\ DOMAIN p.subs = 1..SubPieces[a] /\ SubsInv(p.subs)
         /\ p.left = Cardinality({b \in 1..SubPieces[a] : ~p.subs[b].valid}) /\ p.left > 0
         /\ p.unrequested = Cardinality(requestable(p.subs))
<1>1. p.valid = FALSE BY PieceFields DEF PieceInv, PieceCounts
<1>2. open_subs(p, a) = p.subs BY DEF open_subs
<1> QED BY <1>1, <1>2, Unreserved

\* A sub-piece that is written: the piece is finished or keeps its counts, and in both cases
\* it does once it is judged.
LEMMA Write ==
  ASSUME NEW a \in Piece, NEW p, PieceInv(p, a), NEW b, accepts(p, b)
  PROVE  LET q == piece_write(p, b)
         IN /\ q.peers = p.peers /\ q.valid = FALSE /\ p.valid = FALSE
            /\ q.left > 0 => PieceInv(q, a)
            /\ ~(q.left > 0) => \A v \in BOOLEAN :
                 /\ PieceInv(piece_valid(q, a, v), a)
                 /\ piece_valid(q, a, v).valid = v /\ piece_valid(q, a, v).peers = p.peers
                 /\ piece_valid(q, a, v).subs = NoSubs
            /\ \A c \in DOMAIN q.subs : /\ q.subs[c] = p.subs[c] \/ q.subs[c].peers = {}
                                        /\ c = b => q.subs[c].peers = {}
            /\ DOMAIN q.subs \subseteq DOMAIN p.subs
<1> DEFINE q == piece_write(p, b)
           s == p.subs
           r == [s EXCEPT ![b] = [valid |-> TRUE, peers |-> {}]]
<1>1. p.subs # NoSubs /\ b \in DOMAIN p.subs /\ ~p.subs[b].valid BY NoSubsEmpty DEF accepts
<1>2. /\ p = [valid |-> p.valid, subs |-> p.subs, left |-> p.left,
              unrequested |-> p.unrequested, peers |-> p.peers]
      /\ p.valid = FALSE /\ p.peers \in Nat /\ p.left \in Nat
  <2>1. p.valid = FALSE BY <1>1, Listed
  <2>2. p \in PieceRecord(SubPieces[a]) /\ SubPieces[a] \in Nat BY Sizes DEF PieceInv
  <2>3. /\ p = [valid |-> p.valid, subs |-> p.subs, left |-> p.left,
                unrequested |-> p.unrequested, peers |-> p.peers]
        /\ p.left \in 0..SubPieces[a] /\ p.peers \in Nat
    BY <2>2, PieceFields
  <2> QED BY <2>1, <2>2, <2>3
<1>3. /\ s \in [1..SubPieces[a] -> SubPiece] /\ SubsInv(s) /\ DOMAIN s = 1..SubPieces[a]
      /\ p.left = Cardinality({c \in 1..SubPieces[a] : ~s[c].valid}) /\ p.left > 0
      /\ p.unrequested = Cardinality(requestable(s))
  BY <1>1, Listed
<1> DEFINE u == IF s[b].peers = {} THEN p.unrequested - 1 ELSE p.unrequested
<1>4. q = [valid |-> FALSE, subs |-> IF p.left = 1 THEN NoSubs ELSE r, left |-> p.left - 1,
           unrequested |-> u, peers |-> p.peers]
  <2> DEFINE left == p.left - 1
             subs == IF p.left = 1 THEN NoSubs ELSE r
  <2>1. q = [p EXCEPT !.subs = subs, !.left = left, !.unrequested = u]
    BY DEF piece_write
  <2> HIDE DEF q, u, left, subs
  <2>2. q = [valid |-> FALSE, subs |-> subs, left |-> left, unrequested |-> u, peers |-> p.peers]
    BY <1>2, <2>1
  <2> QED BY <2>2 DEF left, subs
<1>5. b \in 1..SubPieces[a] /\ s[b].valid = FALSE
  <2>1. s[b].valid \in BOOLEAN BY <1>1, <1>3 DEF SubPiece
  <2> QED BY <1>1, <1>3, <2>1
<1> HIDE DEF s
<1>6. r \in [1..SubPieces[a] -> SubPiece] BY <1>3 DEF SubPiece
<1>7. SubsInv(r) BY <1>3 DEF SubsInv
<1>8. /\ {c \in 1..SubPieces[a] : ~r[c].valid} = {c \in 1..SubPieces[a] : ~s[c].valid} \ {b}
      /\ requestable(r) = requestable(s) \ {b}
      /\ b \in requestable(s) <=> s[b].peers = {}
  BY <1>3, <1>5 DEF requestable
<1>9. /\ IsFiniteSet({c \in 1..SubPieces[a] : ~s[c].valid}) /\ IsFiniteSet(requestable(s))
      /\ p.unrequested \in Nat
  <2>1. /\ {c \in 1..SubPieces[a] : ~s[c].valid} \in SUBSET (1..SubPieces[a])
        /\ requestable(s) \in SUBSET (1..SubPieces[a])
    BY <1>3 DEF requestable
  <2> QED BY <1>3, <2>1, FewSubs
<1>10. p.left - 1 = Cardinality({c \in 1..SubPieces[a] : ~r[c].valid})
  BY <1>3, <1>5, <1>8, <1>9, FS_RemoveElement
<1>11. u = Cardinality(requestable(r)) BY <1>3, <1>8, <1>9, FS_RemoveElement, ZenonT(120)
<1> HIDE DEF r, u, q
<1>12. ASSUME q.left > 0 PROVE PieceInv(q, a)
  <2>1. p.left # 1 /\ p.left - 1 > 0 BY <1>2, <1>4, <1>12
  <2>2. PICK c \in 1..SubPieces[a] : ~r[c].valid
    <3>1. {c \in 1..SubPieces[a] : ~r[c].valid} # {}
      <4>1. Cardinality({c \in 1..SubPieces[a] : ~r[c].valid}) # 0 BY <1>10, <2>1
      <4> QED BY <4>1, FS_EmptySet
    <3> QED BY <3>1
  <2>3. PieceInv([valid |-> FALSE, subs |-> r, left |-> p.left - 1, unrequested |-> u,
                  peers |-> p.peers], a)
    BY <1>2, <1>6, <1>7, <1>10, <1>11, <2>2, ListedPiece
  <2> QED BY <1>4, <2>1, <2>3
<1>13. ASSUME ~(q.left > 0), NEW v \in BOOLEAN
       PROVE  /\ PieceInv(piece_valid(q, a, v), a)
              /\ piece_valid(q, a, v).valid = v /\ piece_valid(q, a, v).peers = p.peers
              /\ piece_valid(q, a, v).subs = NoSubs
  <2>1. p.left = 1 BY <1>2, <1>3, <1>4, <1>13
  <2>2. q = [valid |-> FALSE, subs |-> NoSubs, left |-> 0, unrequested |-> u, peers |-> p.peers]
    BY <1>4, <2>1
  <2>3. 0 \in 0..SubPieces[a] /\ SubPieces[a] \in 0..SubPieces[a] BY Sizes
  <2>4. CASE v = TRUE
    <3>1. piece_valid(q, a, v) =
            [valid |-> TRUE, subs |-> NoSubs, left |-> 0, unrequested |-> 0, peers |-> p.peers]
      BY <2>2, <2>4 DEF piece_valid
    <3>2. PieceInv([valid |-> TRUE, subs |-> NoSubs, left |-> 0, unrequested |-> 0,
                    peers |-> p.peers], a)
      BY <1>2, <2>3, MakePiece, ValidPiece
    <3>3. piece_valid(q, a, v).valid = TRUE /\ piece_valid(q, a, v).peers = p.peers BY <3>1
    <3>4. piece_valid(q, a, v).subs = NoSubs BY <3>1
    <3> QED BY <2>4, <3>1, <3>2, <3>3, <3>4
  <2>5. CASE v = FALSE
    <3>1. piece_valid(q, a, v) =
            [valid |-> FALSE, subs |-> NoSubs, left |-> SubPieces[a],
             unrequested |-> SubPieces[a], peers |-> p.peers]
      BY <2>2, <2>5 DEF piece_valid
    <3>2. PieceInv([valid |-> FALSE, subs |-> NoSubs, left |-> SubPieces[a],
                    unrequested |-> SubPieces[a], peers |-> p.peers], a)
      BY <1>2, <2>3, MakePiece, FreshPiece
    <3>3. piece_valid(q, a, v).valid = FALSE /\ piece_valid(q, a, v).peers = p.peers BY <3>1
    <3>4. piece_valid(q, a, v).subs = NoSubs BY <3>1
    <3> QED BY <2>5, <3>1, <3>2, <3>3, <3>4
  <2> QED BY <2>4, <2>5
<1>14. \A c \in DOMAIN q.subs : /\ q.subs[c] = s[c] \/ q.subs[c].peers = {}
                                /\ c = b => q.subs[c].peers = {}
  <2>1. \A c \in DOMAIN r : (r[c] = s[c] \/ r[c].peers = {}) /\ (c = b => r[c].peers = {})
    BY <1>3 DEF r
  <2> QED BY <1>4, <2>1, NoSubsEmpty
<1>15. DOMAIN q.subs \subseteq DOMAIN s BY <1>3, <1>4, <1>6, NoSubsEmpty
<1>16. q.peers = p.peers /\ q.valid = FALSE /\ p.valid = FALSE BY <1>2, <1>4
<1> QED BY <1>12, <1>13, <1>14, <1>15, <1>16 DEF q, s

\* Reservations that go leave the sub-pieces they were for to be requested again.
LEMMA Release ==
  ASSUME NEW a \in Piece, NEW p, PieceInv(p, a), p.subs # NoSubs, NEW r \in [1..SubPieces[a] -> SubPiece],
         \A b \in 1..SubPieces[a] : /\ r[b].valid = p.subs[b].valid
                                    /\ r[b].peers \subseteq p.subs[b].peers,
         NEW m \in Nat, NEW u,
         u = p.unrequested + Cardinality({b \in 1..SubPieces[a] : p.subs[b].peers # {} /\ r[b].peers = {}})
  PROVE  PieceInv([valid |-> p.valid, subs |-> r, left |-> p.left, unrequested |-> u, peers |-> m], a)
<1> DEFINE s == p.subs
           freed == {b \in 1..SubPieces[a] : s[b].peers # {} /\ r[b].peers = {}}
<1>1. /\ s \in [1..SubPieces[a] -> SubPiece] /\ SubsInv(s) /\ DOMAIN s = 1..SubPieces[a]
      /\ p.left = Cardinality({b \in 1..SubPieces[a] : ~s[b].valid}) /\ p.left > 0
      /\ p.unrequested = Cardinality(requestable(s)) /\ p.valid = FALSE
  BY Listed
<1>2. u = p.unrequested + Cardinality(freed) OBVIOUS
<1> HIDE DEF s
<1>3. DOMAIN r = 1..SubPieces[a] OBVIOUS
<1>4. \A b \in 1..SubPieces[a] : r[b].valid = s[b].valid /\ r[b].peers \subseteq s[b].peers BY DEF s
<1>5. SubsInv(r)
  <2> SUFFICES ASSUME NEW b \in 1..SubPieces[a]
               PROVE  /\ r[b].valid => r[b].peers = {}
                      /\ \A k, l \in r[b].peers : k = l
    BY <1>3 DEF SubsInv
  <2>1. /\ s[b].valid => s[b].peers = {}
        /\ \A k, l \in s[b].peers : k = l
    BY <1>1 DEF SubsInv
  <2> QED BY <1>4, <2>1
<1>6. {b \in 1..SubPieces[a] : ~r[b].valid} = {b \in 1..SubPieces[a] : ~s[b].valid} BY <1>4
<1>7. requestable(r) = requestable(s) \cup freed
  <2>1. \A b \in freed : ~s[b].valid BY <1>1 DEF SubsInv
  <2> QED BY <1>1, <1>3, <1>4, <2>1 DEF requestable
<1>8. requestable(s) \cap freed = {} BY DEF requestable
<1>9. Cardinality(requestable(r)) = Cardinality(requestable(s)) + Cardinality(freed)
  <2>1. IsFiniteSet(requestable(s)) /\ IsFiniteSet(freed)
    <3>1. requestable(s) \in SUBSET (1..SubPieces[a]) BY <1>1 DEF requestable
    <3>2. freed \in SUBSET (1..SubPieces[a]) OBVIOUS
    <3> HIDE DEF freed
    <3> QED BY <3>1, <3>2, FewSubs
  <2> HIDE DEF freed
  <2>2. Cardinality(requestable(s)) \in Nat /\ Cardinality(freed) \in Nat BY <2>1, FS_CardinalityType
  <2>3. Cardinality({}) = 0 BY FS_EmptySet
  <2> QED BY <1>7, <1>8, <2>1, <2>2, <2>3, FS_Union
<1> HIDE DEF freed
<1>10. PICK b \in 1..SubPieces[a] : ~r[b].valid
  <2> DEFINE missing == {b \in 1..SubPieces[a] : ~s[b].valid}
  <2>1. Cardinality(missing) # 0 BY <1>1
  <2> HIDE DEF missing
  <2>2. missing # {} BY <2>1, FS_EmptySet
  <2> QED BY <1>6, <2>2 DEF missing
<1>11. PieceInv([valid |-> FALSE, subs |-> r, left |-> p.left, unrequested |-> u, peers |-> m], a)
  BY <1>1, <1>2, <1>5, <1>6, <1>9, <1>10, ListedPiece
<1> QED BY <1>1, <1>11

LEMMA FewerPeers ==
  ASSUME NEW s \in SubPiece, NEW peers \in SUBSET Link
  PROVE  /\ [s EXCEPT !.peers = peers] \in SubPiece
         /\ [s EXCEPT !.peers = peers].valid = s.valid
         /\ [s EXCEPT !.peers = peers].peers = peers
BY DEF SubPiece

\* Fields of a piece that the loss of reservations does not touch.
SameBut(q, p) ==
  /\ q.valid = p.valid /\ q.peers = p.peers /\ DOMAIN q.subs = DOMAIN p.subs
  /\ \A b \in DOMAIN p.subs : q.subs[b].peers \subseteq p.subs[b].peers

\* check_peer keeps the counts of a piece.
LEMMA CheckPeer ==
  ASSUME NEW a \in Piece, NEW p, PieceInv(p, a), NEW l \in Link, NEW expired
  PROVE  PieceInv(check_peer(p, l, expired), a) /\ SameBut(check_peer(p, l, expired), p)
<1> DEFINE gone == held(p, l) \cap expired
           r == released(p.subs, l, gone)
           freed == {b \in gone : p.subs[b].peers = {l}}
           q == check_peer(p, l, expired)
           u == p.unrequested + Cardinality(freed)
<1>1. /\ p = [valid |-> p.valid, subs |-> p.subs, left |-> p.left,
              unrequested |-> p.unrequested, peers |-> p.peers]
      /\ p.valid \in BOOLEAN /\ p.peers \in Nat /\ p.subs \in {NoSubs} \cup [1..SubPieces[a] -> SubPiece]
  BY PieceFields DEF PieceInv
<1>2. q = [valid |-> p.valid, subs |-> r, left |-> p.left, unrequested |-> u, peers |-> p.peers]
  <2>1. q = [p EXCEPT !.subs = r, !.unrequested = u] BY DEF check_peer
  <2> HIDE DEF q, r, u
  <2> QED BY <1>1, <2>1
<1>3. CASE p.subs = NoSubs
  <2>1. DOMAIN p.subs = {} BY <1>3, NoSubsEmpty
  <2>2. freed = {} /\ DOMAIN r = {} BY <2>1 DEF held, released
  <2>3. r = NoSubs BY <2>1, NoSubsEmpty DEF released
  <2>4. u = p.unrequested
    <3> HIDE DEF freed
    <3>1. p.unrequested \in 0..SubPieces[a] /\ SubPieces[a] \in Nat BY PieceFields, Sizes DEF PieceInv
    <3>2. Cardinality(freed) = 0 BY <2>2, FS_EmptySet
    <3> QED BY <3>1, <3>2
  <2>5. q = p BY <1>1, <1>2, <1>3, <2>3, <2>4
  <2> QED BY <2>5 DEF SameBut
<1>4. CASE p.subs # NoSubs
  <2>1. /\ p.subs \in [1..SubPieces[a] -> SubPiece] /\ DOMAIN p.subs = 1..SubPieces[a]
        /\ SubsInv(p.subs)
    BY <1>4, Listed
  <2>2. ASSUME NEW b \in 1..SubPieces[a]
        PROVE  /\ r[b] \in SubPiece /\ r[b].valid = p.subs[b].valid
               /\ r[b].peers = IF b \in gone THEN p.subs[b].peers \ {l} ELSE p.subs[b].peers
    <3> DEFINE fewer == p.subs[b].peers \ {l}
    <3>1. r[b] = IF b \in gone THEN [p.subs[b] EXCEPT !.peers = fewer] ELSE p.subs[b]
      BY <2>1 DEF released
    <3>2. p.subs[b] \in SubPiece BY <2>1
    <3>3. fewer \in SUBSET Link BY <3>2 DEF SubPiece
    <3> HIDE DEF fewer, gone, r
    <3>4. CASE b \in gone
      <4>1. r[b] \in SubPiece /\ r[b].valid = p.subs[b].valid /\ r[b].peers = fewer
        <5>1. r[b] = [p.subs[b] EXCEPT !.peers = fewer] BY <3>1, <3>4
        <5> QED BY <3>2, <3>3, <5>1, FewerPeers, SMTT(30)
      <4> QED BY <3>4, <4>1 DEF fewer
    <3>5. CASE b \notin gone BY <3>1, <3>2, <3>5
    <3> QED BY <3>4, <3>5
  <2>3. DOMAIN r = 1..SubPieces[a] /\ r = [b \in 1..SubPieces[a] |-> r[b]] BY <2>1 DEF released
  <2>4. r \in [1..SubPieces[a] -> SubPiece]
    <3> HIDE DEF r
    <3> QED BY <2>2, <2>3
  <2>5. freed = {b \in 1..SubPieces[a] : p.subs[b].peers # {} /\ r[b].peers = {}}
    <3>1. \A b \in gone : b \in 1..SubPieces[a] /\ l \in p.subs[b].peers BY <2>1 DEF held
    <3>2. \A b \in 1..SubPieces[a] :
            r[b].peers = IF b \in gone THEN p.subs[b].peers \ {l} ELSE p.subs[b].peers
      BY <2>2
    <3>3. \A b \in 1..SubPieces[a] : \A k, m \in p.subs[b].peers : k = m BY <2>1 DEF SubsInv
    <3> HIDE DEF gone, r
    <3>4. \A b \in gone : p.subs[b].peers = {l} BY <3>1, <3>3
    <3> QED BY <3>1, <3>2, <3>4
  <2>6. \A b \in 1..SubPieces[a] : r[b].valid = p.subs[b].valid /\ r[b].peers \subseteq p.subs[b].peers
    <3> HIDE DEF gone, r
    <3> QED BY <2>2
  <2> HIDE DEF r, freed
  <2>8. PieceInv([valid |-> p.valid, subs |-> r, left |-> p.left, unrequested |-> u, peers |-> p.peers], a)
    BY <1>1, <1>4, <2>4, <2>5, <2>6, Release
  <2>9. PieceInv(q, a) /\ q.subs = r /\ q.valid = p.valid /\ q.peers = p.peers BY <1>2, <2>8
  <2> HIDE DEF q
  <2>10. SameBut(q, p) BY <2>1, <2>3, <2>6, <2>9 DEF SameBut
  <2> QED BY <2>9, <2>10 DEF q
<1> QED BY <1>3, <1>4

\* erase_peer for requests of different links, or of different sub-pieces, keeps the counts.
LEMMA ErasePeers ==
  ASSUME NEW a \in Piece, NEW p, PieceInv(p, a), NEW asked \in SUBSET (Link \X (1..SubPieces[a]))
  PROVE  /\ PieceInv(erase_peers(p, asked), a) /\ SameBut(erase_peers(p, asked), p)
         /\ \A b \in DOMAIN p.subs : \A l \in erase_peers(p, asked).subs[b].peers : <<l, b>> \notin asked
<1> DEFINE gone == {r \in asked : r[2] \in held(p, r[1])}
           fewer(b) == {l \in p.subs[b].peers : <<l, b>> \notin gone}
           r == [b \in DOMAIN p.subs |-> [valid |-> p.subs[b].valid, peers |-> fewer(b)]]
           q == erase_peers(p, asked)
           u == p.unrequested + Cardinality(gone)
<1>1. /\ p = [valid |-> p.valid, subs |-> p.subs, left |-> p.left,
              unrequested |-> p.unrequested, peers |-> p.peers]
      /\ p.valid \in BOOLEAN /\ p.peers \in Nat /\ p.subs \in {NoSubs} \cup [1..SubPieces[a] -> SubPiece]
      /\ p.unrequested \in 0..SubPieces[a] /\ SubPieces[a] \in Nat
  BY PieceFields, Sizes DEF PieceInv
<1>2. CASE p.valid
  <2>1. q = p BY <1>2 DEF erase_peers
  <2>2. DOMAIN p.subs = {} BY <1>2, NoSubsEmpty DEF PieceInv, PieceCounts
  <2> QED BY <2>1, <2>2 DEF SameBut
<1>3. ASSUME ~p.valid
      PROVE  q = [valid |-> p.valid, subs |-> r, left |-> p.left, unrequested |-> u, peers |-> p.peers]
  <2>1. q = IF p.valid THEN p ELSE [p EXCEPT !.subs = r, !.unrequested = u] BY DEF erase_peers
  <2> HIDE DEF q, r, u
  <2> QED BY <1>1, <1>3, <2>1
<1>4. CASE ~p.valid /\ p.subs = NoSubs
  <2>1. DOMAIN p.subs = {} BY <1>4, NoSubsEmpty
  <2>2. gone = {} BY <2>1 DEF held
  <2>3. r = NoSubs BY <2>1, NoSubsEmpty
  <2>4. u = p.unrequested
    <3> HIDE DEF gone
    <3>1. Cardinality(gone) = 0 BY <2>2, FS_EmptySet
    <3> QED BY <1>1, <3>1
  <2>5. q = p BY <1>1, <1>3, <1>4, <2>3, <2>4
  <2> QED BY <2>1, <2>5 DEF SameBut
<1>5. CASE ~p.valid /\ p.subs # NoSubs
  <2>1. /\ p.subs \in [1..SubPieces[a] -> SubPiece] /\ DOMAIN p.subs = 1..SubPieces[a]
        /\ SubsInv(p.subs)
    BY <1>5, Listed
  <2>2. ASSUME NEW b \in 1..SubPieces[a]
        PROVE  r[b] \in SubPiece /\ r[b].valid = p.subs[b].valid /\ r[b].peers = fewer(b)
    <3> DEFINE f == fewer(b)
    <3>1. r[b] = [valid |-> p.subs[b].valid, peers |-> f] BY <2>1
    <3>2. p.subs[b] \in SubPiece BY <2>1
    <3>3. f \in SUBSET Link /\ p.subs[b].valid \in BOOLEAN BY <3>2 DEF SubPiece
    <3> HIDE DEF f, r
    <3>4. r[b] \in SubPiece /\ r[b].valid = p.subs[b].valid /\ r[b].peers = f
      BY <3>1, <3>3 DEF SubPiece
    <3> QED BY <3>4 DEF f
  <2>3. DOMAIN r = 1..SubPieces[a] /\ r = [b \in 1..SubPieces[a] |-> r[b]] BY <2>1
  <2>4. r \in [1..SubPieces[a] -> SubPiece]
    <3> HIDE DEF r
    <3> QED BY <2>2, <2>3
  <2>5. \A b \in 1..SubPieces[a] : r[b].valid = p.subs[b].valid /\ r[b].peers \subseteq p.subs[b].peers
    <3> HIDE DEF r
    <3> QED BY <2>2
  <2> DEFINE freed == {b \in 1..SubPieces[a] : p.subs[b].peers # {} /\ r[b].peers = {}}
  <2>6. \A e \in gone : /\ e = <<e[1], e[2]>> /\ e[2] \in 1..SubPieces[a]
                        /\ e[1] \in p.subs[e[2]].peers /\ e \in asked
    BY <2>1 DEF held
  <2>7. \A b \in 1..SubPieces[a] : \A l \in p.subs[b].peers : <<l, b>> \in asked => <<l, b>> \in gone
    BY <2>1 DEF held
  <2>8. \A b \in 1..SubPieces[a] : \A k, m \in p.subs[b].peers : k = m BY <2>1 DEF SubsInv
  <2> HIDE DEF gone, r
  <2>9. Cardinality(gone) = Cardinality(freed)
    <3> DEFINE f == [e \in gone |-> e[2]]
    <3>1. ASSUME NEW e \in gone PROVE e[2] \in freed
      <4>1. e = <<e[1], e[2]>> /\ e[2] \in 1..SubPieces[a] /\ e[1] \in p.subs[e[2]].peers BY <2>6
      <4>2. \A l \in p.subs[e[2]].peers : <<l, e[2]>> \in gone BY <2>8, <4>1
      <4>3. r[e[2]].peers = {} BY <2>2, <4>1, <4>2
      <4> QED BY <4>1, <4>3
    <3>2. \A d, e \in gone : d[2] = e[2] => d = e BY <2>6, <2>8
    <3>3. \A b \in freed : \E e \in gone : e[2] = b
      <4> SUFFICES ASSUME NEW b \in freed PROVE \E e \in gone : e[2] = b OBVIOUS
      <4>1. PICK l \in p.subs[b].peers : l \notin r[b].peers OBVIOUS
      <4>2. <<l, b>> \in gone BY <2>2, <4>1
      <4> QED BY <4>2
    <3>4. IsFiniteSet(freed)
      <4>1. freed \in SUBSET (1..SubPieces[a]) OBVIOUS
      <4> HIDE DEF freed
      <4> QED BY <4>1, FewSubs
    <3> HIDE DEF freed
    <3>5. f \in Bijection(gone, freed)
      BY <3>1, <3>2, <3>3 DEF Bijection, Injection, Surjection, IsInjective
    <3>6. ExistsBijection(gone, freed) BY <3>5 DEF ExistsBijection
    <3>7. IsFiniteSet(gone) BY <3>4, <3>5, FS_Injection DEF Bijection
    <3> QED BY <3>6, <3>7, FS_Bijection
  <2>10. PieceInv([valid |-> p.valid, subs |-> r, left |-> p.left, unrequested |-> u, peers |-> p.peers], a)
    BY <1>1, <1>5, <2>4, <2>5, <2>9, Release
  <2>11. PieceInv(q, a) /\ q.subs = r /\ q.valid = p.valid /\ q.peers = p.peers BY <1>3, <1>5, <2>10
  <2> HIDE DEF q
  <2>12. SameBut(q, p) BY <2>1, <2>3, <2>5, <2>11 DEF SameBut
  <2>13. \A b \in DOMAIN p.subs : \A l \in q.subs[b].peers : <<l, b>> \notin asked
    BY <2>1, <2>2, <2>7, <2>11
  <2> QED BY <2>11, <2>12, <2>13 DEF q
<1> QED BY <1>2, <1>4, <1>5

-----------------------------------------------------------------------------
(* One torrent.                                                            *)

\* A torrent is the record of its fields.
Fields(t) ==
  t = [state |-> t.state, pieces |-> t.pieces, left |-> t.left, end_mode |-> t.end_mode,
       validate |-> t.validate, hashed |-> t.hashed, links |-> t.links]
\* What the steps that fetch no data leave alone.
Kept(s, t) ==
  /\ s.state = t.state /\ s.left = t.left /\ s.validate = t.validate /\ s.hashed = t.hashed
  /\ \A a \in Piece : s.pieces[a].valid = t.pieces[a].valid

LEMMA TorrentFields ==
  ASSUME NEW t \in TorrentRecord
  PROVE  /\ Fields(t) /\ t.state \in State /\ DOMAIN t.pieces = Piece
         /\ t.left \in -1..Size /\ t.end_mode \in BOOLEAN /\ t.validate \in BOOLEAN
         /\ t.hashed \in {NoHasher} \cup 0..Pieces /\ t.links \in [Link -> LinkRecord]
BY DEF TorrentRecord, Fields

LEMMA MakeTorrent ==
  ASSUME NEW t, Fields(t), t.state \in State, DOMAIN t.pieces = Piece,
         t.pieces = [a \in Piece |-> t.pieces[a]],
         \A a \in Piece : PieceInv(t.pieces[a], a), t.left \in -1..Size, t.end_mode \in BOOLEAN,
         t.validate \in BOOLEAN, t.hashed \in {NoHasher} \cup 0..Pieces, t.links \in [Link -> LinkRecord]
  PROVE  t \in TorrentRecord
<1> DEFINE P == PieceRecord(SubPieces[1]) \cup PieceRecord(SubPieces[Pieces])
<1>1. \A a \in Piece : t.pieces[a] \in P
  <2> SUFFICES ASSUME NEW a \in Piece PROVE t.pieces[a] \in P OBVIOUS
  <2>1. t.pieces[a] \in PieceRecord(SubPieces[a]) BY DEF PieceInv
  <2>2. SubPieces[a] = SubPieces[1] \/ a = Pieces
    <3>1. a \in 1..Pieces /\ Pieces \in Nat /\ (a < Pieces => SubPieces[a] = SubPieces[1])
      BY DownloadAssumption DEF Piece
    <3> QED BY <3>1
  <2>3. CASE SubPieces[a] = SubPieces[1] BY <2>1, <2>3
  <2>4. CASE a = Pieces BY <2>1, <2>4
  <2> QED BY <2>2, <2>3, <2>4
<1> HIDE DEF P
<1>2. t.pieces \in [Piece -> P] BY <1>1
<1>3. [state |-> t.state, pieces |-> t.pieces, left |-> t.left, end_mode |-> t.end_mode,
       validate |-> t.validate, hashed |-> t.hashed, links |-> t.links] \in TorrentRecord
  BY <1>2 DEF TorrentRecord, P
<1> QED BY <1>3 DEF Fields

LEMMA LinkFields ==
  ASSUME NEW k \in LinkRecord
  PROVE  /\ k = [state |-> k.state, has |-> k.has, choked |-> k.choked, interested |-> k.interested,
                 goal |-> k.goal, asked |-> k.asked, pending |-> k.pending, haves |-> k.haves,
                 told |-> k.told]
         /\ k.state \in {"none", "handshake", "ready"} /\ k.has \in SUBSET Piece
         /\ k.choked \in BOOLEAN /\ k.interested \in BOOLEAN /\ k.goal \in BOOLEAN
         /\ k.asked \in [Chunk -> Nat] /\ k.pending \in Int /\ k.haves \in SUBSET Piece
         /\ k.told \in SUBSET Piece
BY DEF LinkRecord

LEMMA MakeLink ==
  ASSUME NEW st \in {"none", "handshake", "ready"}, NEW has \in SUBSET Piece, NEW ch \in BOOLEAN,
         NEW int \in BOOLEAN, NEW goal \in BOOLEAN, NEW as \in [Chunk -> Nat], NEW pe \in Int,
         NEW haves \in SUBSET Piece, NEW told \in SUBSET Piece
  PROVE  [state |-> st, has |-> has, choked |-> ch, interested |-> int, goal |-> goal, asked |-> as,
          pending |-> pe, haves |-> haves, told |-> told] \in LinkRecord
BY DEF LinkRecord

LEMMA NoLinkType ==
  /\ NoLink \in LinkRecord /\ NoLink.state = "none" /\ NoLink.has = {} /\ NoLink.haves = {}
  /\ new_link \in LinkRecord /\ new_link.state = "handshake" /\ new_link.has = {}
<1>1. NoLink \in LinkRecord BY DEF NoLink, LinkRecord
<1>2. new_link \in LinkRecord BY <1>1 DEF new_link, LinkRecord
<1> QED BY <1>1, <1>2 DEF NoLink, new_link

\* A torrent with other links, pieces or mode but the same data.
LEMMA KeptTorrent ==
  ASSUME NEW t, TorrentInv(t), NEW s, Fields(s), Kept(s, t), s.end_mode \in BOOLEAN,
         DOMAIN s.pieces = Piece, s.pieces = [a \in Piece |-> s.pieces[a]],
         s.links \in [Link -> LinkRecord],
         \A a \in Piece : PieceInv(s.pieces[a], a) /\ s.pieces[a].peers = owners(s, Link, a),
         \A l \in Link : /\ s.links[l].state = "none" => s.links[l] = NoLink
                         /\ s.links[l].state = "ready" => t.hashed = NoHasher
                         /\ ~is_open(t) => s.links[l] = NoLink,
         Told(s)
  PROVE  TorrentInv(s)
<1>1. /\ t.state \in State /\ t.left \in -1..Size /\ t.validate \in BOOLEAN
      /\ t.hashed \in {NoHasher} \cup 0..Pieces
  BY TorrentFields DEF TorrentInv
<1>2. s \in TorrentRecord BY <1>1, MakeTorrent DEF Kept
<1>3. is_open(s) <=> is_open(t) BY DEF Kept, is_open
<1>4. LinksInv(s) BY <1>3 DEF LinksInv, TorrentInv, Kept
<1>5. invalid_size(s.pieces) = invalid_size(t.pieces)
  <2>1. \A c \in Chunk : c[1] \in Piece BY DEF Chunk
  <2>2. {c \in Chunk : ~s.pieces[c[1]].valid} = {c \in Chunk : ~t.pieces[c[1]].valid}
    BY <2>1 DEF Kept
  <2> QED BY <2>2 DEF invalid_size
<1> QED BY <1>2, <1>3, <1>4, <1>5 DEF TorrentInv, Kept

\* One link changes, but not what its peer has.
LEMMA LinkStep ==
  ASSUME NEW t, TorrentInv(t), NEW l \in Link, NEW k \in LinkRecord, k.has = t.links[l].has,
         k.state # "none", is_open(t),
         k.state = "ready" => /\ t.hashed = NoHasher
                              /\ valid_pieces(t) \subseteq k.told \cup k.haves \cup k.has
  PROVE  LET s == [t EXCEPT !.links[l] = k]
         IN TorrentInv(s) /\ Kept(s, t) /\ s.pieces = t.pieces /\ s.links = [t.links EXCEPT ![l] = k]
<1> DEFINE s == [t EXCEPT !.links[l] = k]
<1>1. /\ Fields(t) /\ t.end_mode \in BOOLEAN /\ t.links \in [Link -> LinkRecord]
      /\ DOMAIN t.pieces = Piece /\ t.pieces = [a \in Piece |-> t.pieces[a]]
  <2>1. t \in TorrentRecord BY DEF TorrentInv
  <2>2. t.pieces = [a \in Piece |-> t.pieces[a]] BY <2>1 DEF TorrentRecord
  <2> QED BY <2>1, <2>2, TorrentFields
<1>2. /\ s = [state |-> t.state, pieces |-> t.pieces, left |-> t.left, end_mode |-> t.end_mode,
              validate |-> t.validate, hashed |-> t.hashed, links |-> [t.links EXCEPT ![l] = k]]
  BY <1>1 DEF Fields
<1> HIDE DEF s
<1>3. /\ Fields(s) /\ Kept(s, t) /\ s.pieces = t.pieces /\ s.links = [t.links EXCEPT ![l] = k]
      /\ s.end_mode = t.end_mode
  BY <1>2 DEF Fields, Kept
<1>4. s.links \in [Link -> LinkRecord] /\ \A m \in Link : s.links[m] = IF m = l THEN k ELSE t.links[m]
  BY <1>1, <1>3
<1>5. \A m \in Link : s.links[m].has = t.links[m].has BY <1>4
<1>6. ASSUME NEW a \in Piece PROVE PieceInv(s.pieces[a], a) /\ s.pieces[a].peers = owners(s, Link, a)
  <2>1. {m \in Link : a \in s.links[m].has} = {m \in Link : a \in t.links[m].has} BY <1>5
  <2> QED BY <1>3, <2>1 DEF owners, TorrentInv
<1>7. valid_pieces(s) = valid_pieces(t) BY <1>3 DEF valid_pieces
<1>8. Told(s) BY <1>4, <1>7 DEF Told, TorrentInv
<1>9. \A m \in Link : /\ s.links[m].state = "none" => s.links[m] = NoLink
                      /\ s.links[m].state = "ready" => t.hashed = NoHasher
                      /\ ~is_open(t) => s.links[m] = NoLink
  BY <1>4 DEF TorrentInv, LinksInv
<1>10. TorrentInv(s) BY <1>1, <1>3, <1>4, <1>6, <1>8, <1>9, KeptTorrent
<1> QED BY <1>3, <1>10 DEF s

\* What a step in the turn of a link keeps: the invariant, the data, and the reservations' owners.
Safe(s, t) == TorrentInv(s) /\ Kept(s, t) /\ (Reserved(t) => Reserved(s))

LEMMA SafeTrans ==
  ASSUME NEW r, NEW s, NEW t, Safe(r, s), Safe(s, t)
  PROVE  Safe(r, t)
BY DEF Safe, Kept

LEMMA OpenLink ==
  ASSUME NEW t, TorrentInv(t), NEW l \in Link, t.links[l].state # "none"
  PROVE  /\ is_open(t) /\ t.links[l] \in LinkRecord
         /\ t.links[l].state = "ready" =>
              t.hashed = NoHasher /\ ~t.validate /\ t.left = invalid_size(t.pieces)
<1>1. t.links \in [Link -> LinkRecord] BY TorrentFields DEF TorrentInv
<1>2. is_open(t) BY NoLinkType DEF TorrentInv, LinksInv
<1> QED BY <1>1, <1>2 DEF TorrentInv, LinksInv

\* A link whose requests, peer and state stay.
LEMMA SameLink ==
  ASSUME NEW t, TorrentInv(t), NEW l \in Link, NEW k \in LinkRecord, t.links[l].state # "none",
         k.has = t.links[l].has, k.state = t.links[l].state, k.asked = t.links[l].asked,
         k.state = "ready" =>
           t.links[l].told \cup t.links[l].haves \subseteq k.told \cup k.haves \cup k.has
  PROVE  Safe([t EXCEPT !.links[l] = k], t)
<1> DEFINE s == [t EXCEPT !.links[l] = k]
<1>1. is_open(t) BY OpenLink
<1>2. k.state = "ready" => /\ t.hashed = NoHasher
                           /\ valid_pieces(t) \subseteq k.told \cup k.haves \cup k.has
  BY OpenLink DEF TorrentInv, Told
<1>3. TorrentInv(s) /\ Kept(s, t) /\ s.pieces = t.pieces /\ s.links = [t.links EXCEPT ![l] = k]
  BY <1>1, <1>2, LinkStep
<1>4. t.links \in [Link -> LinkRecord] BY TorrentFields DEF TorrentInv
<1> HIDE DEF s
<1>5. \A m \in Link : s.links[m].state = t.links[m].state /\ s.links[m].asked = t.links[m].asked
  BY <1>3, <1>4
<1>6. ASSUME Reserved(t) PROVE Reserved(s)
  <2> SUFFICES ASSUME NEW a \in Piece, NEW b \in DOMAIN t.pieces[a].subs,
                      NEW m \in t.pieces[a].subs[b].peers
               PROVE  s.links[m].state = "ready" /\ s.links[m].asked[<<a, b>>] > 0
    BY <1>3 DEF Reserved
  <2>1. t.links[m].state = "ready" /\ t.links[m].asked[<<a, b>>] > 0 BY <1>6 DEF Reserved
  <2>2. m \in Link
    <3>1. PieceInv(t.pieces[a], a) BY DEF TorrentInv
    <3>2. t.pieces[a].subs \in {NoSubs} \cup [1..SubPieces[a] -> SubPiece] BY <3>1, PieceFields DEF PieceInv
    <3>3. t.pieces[a].subs[b] \in SubPiece BY <3>2, NoSubsEmpty
    <3> QED BY <3>3 DEF SubPiece
  <2> QED BY <1>5, <2>1, <2>2
<1> QED BY <1>3, <1>6 DEF Safe, s

\* The updates of one link in the code, as the link they leave.
LEMMA LinkUpdates ==
  ASSUME NEW t, TorrentInv(t), NEW l \in Link, t.links[l].state # "none",
         NEW g \in BOOLEAN, NEW told \in SUBSET Piece,
         t.links[l].state = "ready" =>
           told = t.links[l].told \cup (t.links[l].haves \ t.links[l].has)
  PROVE  /\ Safe([t EXCEPT !.links[l].choked = TRUE, !.links[l].pending = 0], t)
         /\ Safe([t EXCEPT !.links[l].choked = FALSE], t)
         /\ Safe([t EXCEPT !.links[l].interested = g], t)
         /\ Safe([t EXCEPT !.links[l].goal = g], t)
         /\ Safe([t EXCEPT !.links[l].haves = {}, !.links[l].told = told], t)
<1>1. Fields(t) /\ t.links \in [Link -> LinkRecord] BY TorrentFields DEF TorrentInv
<1> DEFINE k == t.links[l]
<1>2. k \in LinkRecord BY <1>1
<1>3. 0 \in Int /\ TRUE \in BOOLEAN /\ FALSE \in BOOLEAN /\ {} \in SUBSET Piece OBVIOUS
<1>4. Safe([t EXCEPT !.links[l].choked = TRUE, !.links[l].pending = 0], t)
  <2> DEFINE m == [k EXCEPT !.choked = TRUE, !.pending = 0]
  <2>1. [t EXCEPT !.links[l].choked = TRUE, !.links[l].pending = 0] = [t EXCEPT !.links[l] = m]
    BY <1>1 DEF Fields
  <2>2. m \in LinkRecord BY <1>2, <1>3 DEF LinkRecord
  <2>3. /\ m.has = k.has /\ m.state = k.state /\ m.asked = k.asked
        /\ m.haves = k.haves /\ m.told = k.told
    BY <1>2 DEF LinkRecord
  <2> HIDE DEF m
  <2>4. Safe([t EXCEPT !.links[l] = m], t) BY <2>2, <2>3, SameLink
  <2> QED BY <2>1, <2>4
<1>5. Safe([t EXCEPT !.links[l].choked = FALSE], t)
  <2> DEFINE m == [k EXCEPT !.choked = FALSE]
  <2>1. [t EXCEPT !.links[l].choked = FALSE] = [t EXCEPT !.links[l] = m]
    BY <1>1 DEF Fields
  <2>2. m \in LinkRecord BY <1>2, <1>3 DEF LinkRecord
  <2>3. /\ m.has = k.has /\ m.state = k.state /\ m.asked = k.asked
        /\ m.haves = k.haves /\ m.told = k.told
    BY <1>2 DEF LinkRecord
  <2> HIDE DEF m
  <2>4. Safe([t EXCEPT !.links[l] = m], t) BY <2>2, <2>3, SameLink
  <2> QED BY <2>1, <2>4
<1>6. Safe([t EXCEPT !.links[l].interested = g], t)
  <2> DEFINE m == [k EXCEPT !.interested = g]
  <2>1. [t EXCEPT !.links[l].interested = g] = [t EXCEPT !.links[l] = m]
    BY <1>1 DEF Fields
  <2>2. m \in LinkRecord BY <1>2, <1>3 DEF LinkRecord
  <2>3. /\ m.has = k.has /\ m.state = k.state /\ m.asked = k.asked
        /\ m.haves = k.haves /\ m.told = k.told
    BY <1>2 DEF LinkRecord
  <2> HIDE DEF m
  <2>4. Safe([t EXCEPT !.links[l] = m], t) BY <2>2, <2>3, SameLink
  <2> QED BY <2>1, <2>4
<1>7. Safe([t EXCEPT !.links[l].goal = g], t)
  <2> DEFINE m == [k EXCEPT !.goal = g]
  <2>1. [t EXCEPT !.links[l].goal = g] = [t EXCEPT !.links[l] = m]
    BY <1>1 DEF Fields
  <2>2. m \in LinkRecord BY <1>2, <1>3 DEF LinkRecord
  <2>3. /\ m.has = k.has /\ m.state = k.state /\ m.asked = k.asked
        /\ m.haves = k.haves /\ m.told = k.told
    BY <1>2 DEF LinkRecord
  <2> HIDE DEF m
  <2>4. Safe([t EXCEPT !.links[l] = m], t) BY <2>2, <2>3, SameLink
  <2> QED BY <2>1, <2>4
<1>8. Safe([t EXCEPT !.links[l].haves = {}, !.links[l].told = told], t)
  <2> DEFINE m == [k EXCEPT !.haves = {}, !.told = told]
  <2>1. [t EXCEPT !.links[l].haves = {}, !.links[l].told = told] = [t EXCEPT !.links[l] = m]
    BY <1>1 DEF Fields
  <2>2. m \in LinkRecord BY <1>2, <1>3 DEF LinkRecord
  <2>3. /\ m.has = k.has /\ m.state = k.state /\ m.asked = k.asked
        /\ m.haves = {} /\ m.told = told
    BY <1>2 DEF LinkRecord
  <2> HIDE DEF m
  <2>4. Safe([t EXCEPT !.links[l] = m], t) BY <2>2, <2>3, SameLink
  <2> QED BY <2>1, <2>4
<1> QED BY <1>4, <1>5, <1>6, <1>7, <1>8

\* A link that becomes another one: its reservations need a link that is ready and has the
\* requests.
LEMMA ReservedStep ==
  ASSUME NEW t, TorrentInv(t), Reserved(t), NEW l \in Link, NEW k, NEW s, s.pieces = t.pieces,
         s.links = [t.links EXCEPT ![l] = k],
         \A a \in Piece : \A b \in DOMAIN t.pieces[a].subs :
           l \in t.pieces[a].subs[b].peers => k.state = "ready" /\ k.asked[<<a, b>>] > 0
  PROVE  Reserved(s)
<1> SUFFICES ASSUME NEW a \in Piece, NEW b \in DOMAIN t.pieces[a].subs,
                    NEW m \in t.pieces[a].subs[b].peers
             PROVE  s.links[m].state = "ready" /\ s.links[m].asked[<<a, b>>] > 0
  BY DEF Reserved
<1>1. t.links[m].state = "ready" /\ t.links[m].asked[<<a, b>>] > 0 BY DEF Reserved
<1>2. m \in Link
  <2>1. PieceInv(t.pieces[a], a) BY DEF TorrentInv
  <2>2. t.pieces[a].subs \in {NoSubs} \cup [1..SubPieces[a] -> SubPiece] BY <2>1, PieceFields DEF PieceInv
  <2>3. t.pieces[a].subs[b] \in SubPiece BY <2>2, NoSubsEmpty
  <2> QED BY <2>3 DEF SubPiece
<1>3. t.links \in [Link -> LinkRecord] BY TorrentFields DEF TorrentInv
<1>4. CASE m = l
  <2>1. s.links[m] = k BY <1>2, <1>3, <1>4
  <2> QED BY <1>4, <2>1
<1>5. CASE m # l
  <2>1. s.links[m] = t.links[m] BY <1>2, <1>3, <1>5
  <2> QED BY <1>1, <2>1
<1> QED BY <1>4, <1>5

LEMMA ChunkFinite == IsFiniteSet(Chunk) /\ Size \in Nat
<1>1. IsFiniteSet(Piece) BY DownloadAssumption, FS_Interval DEF Piece
<1>2. SubPieces[1] \in Nat
  <2>1. 1 \in Piece BY DownloadAssumption DEF Piece
  <2> QED BY <2>1, Sizes
<1>3. IsFiniteSet(1..SubPieces[1]) BY <1>2, FS_Interval
<1>4. IsFiniteSet(Piece \X (1..SubPieces[1])) BY <1>1, <1>3, FS_Product
<1>5. Chunk \in SUBSET (Piece \X (1..SubPieces[1])) BY DEF Chunk
<1>6. IsFiniteSet(Chunk) BY <1>4, <1>5, FS_Subset
<1> QED BY <1>6, FS_CardinalityType DEF Size

LEMMA SomeSubs ==
  ASSUME NEW n \in Int, NEW k \in Nat \ {0}, n > 0
  PROVE  (n + k - 1) \div k # 0
<1>1. n + k - 1 \in Nat /\ n + k - 1 >= k OBVIOUS
<1> DEFINE q == (n + k - 1) \div k
<1>2. q \in Int /\ k * q <= n + k - 1 /\ n + k - 1 < k * q + k BY <1>1
<1> HIDE DEF q
<1>3. q # 0 BY <1>1, <1>2
<1> QED BY <1>3 DEF q

\* When the count of valid pieces is zero there is none.
LEMMA NoneValid ==
  ASSUME NEW t, TorrentInv(t), t.left = invalid_size(t.pieces), c_valid_pieces(t) = 0
  PROVE  valid_pieces(t) = {}
<1> SUFFICES ASSUME NEW a \in Piece, t.pieces[a].valid PROVE FALSE
  BY DEF valid_pieces, valid_among
<1> DEFINE missing == {c \in Chunk : ~t.pieces[c[1]].valid}
<1>1. t.left = Cardinality(missing) BY DEF invalid_size
<1>2. <<a, 1>> \in Chunk /\ <<a, 1>> \notin missing
  <2>1. SubPieces[a] \in Nat \ {0} /\ SubPieces[1] \in Nat \ {0}
    <3>1. 1 \in Piece BY DownloadAssumption DEF Piece
    <3> QED BY <3>1, Sizes
  <2> QED BY <2>1 DEF Chunk
<1>3. missing \in SUBSET Chunk OBVIOUS
<1> HIDE DEF missing
<1>4. IsFiniteSet(missing) /\ Cardinality(missing) <= Size /\ Cardinality(missing) # Size
  BY <1>2, <1>3, ChunkFinite, FS_Subset DEF Size
<1>5. Cardinality(missing) \in Nat BY <1>4, FS_CardinalityType
<1>6. Size - t.left > 0 /\ Size - t.left \in Int BY <1>1, <1>4, <1>5, ChunkFinite
<1>7. SubPieces[1] \in Nat \ {0}
  <2>1. 1 \in Piece BY DownloadAssumption DEF Piece
  <2> QED BY <2>1, Sizes
<1>8. (Size - t.left + SubPieces[1] - 1) \div SubPieces[1] # 0 BY <1>6, <1>7, SomeSubs
<1> QED BY <1>8 DEF c_valid_pieces

LEMMA Handshake ==
  ASSUME NEW t, TorrentInv(t), NEW l \in Link, t.links[l].state = "handshake", t.hashed = NoHasher
  PROVE  Safe([t EXCEPT !.links[l].state = "ready",
                        !.links[l].told = IF c_valid_pieces(t) = 0 THEN {} ELSE valid_pieces(t)], t)
<1> DEFINE told == IF c_valid_pieces(t) = 0 THEN {} ELSE valid_pieces(t)
           m == [t.links[l] EXCEPT !.state = "ready", !.told = told]
           s == [t EXCEPT !.links[l].state = "ready", !.links[l].told = told]
<1>1. Fields(t) /\ t.links \in [Link -> LinkRecord] BY TorrentFields DEF TorrentInv
<1>2. is_open(t) BY OpenLink
<1>3. told = valid_pieces(t) BY <1>2, NoneValid DEF TorrentInv
<1>4. told \in SUBSET Piece BY <1>3 DEF valid_pieces, valid_among
<1> HIDE DEF told
<1>5. s = [t EXCEPT !.links[l] = m] BY <1>1 DEF Fields
<1>6. m \in LinkRecord
  <2>1. t.links[l] \in LinkRecord /\ "ready" \in {"none", "handshake", "ready"} BY <1>1
  <2> QED BY <1>4, <2>1 DEF LinkRecord
<1>7. m.has = t.links[l].has /\ m.state = "ready" /\ m.told = told BY <1>1 DEF LinkRecord
<1> HIDE DEF m
<1>8. TorrentInv(s) /\ Kept(s, t) /\ s.pieces = t.pieces /\ s.links = [t.links EXCEPT ![l] = m]
  <2> DEFINE r == [t EXCEPT !.links[l] = m]
  <2>1. TorrentInv(r) /\ Kept(r, t) /\ r.pieces = t.pieces /\ r.links = [t.links EXCEPT ![l] = m]
    BY <1>2, <1>3, <1>6, <1>7, LinkStep
  <2> HIDE DEF s
  <2> QED BY <1>5, <2>1
<1>9. ASSUME Reserved(t) PROVE Reserved(s)
  <2>1. \A a \in Piece : \A b \in DOMAIN t.pieces[a].subs : l \notin t.pieces[a].subs[b].peers
    BY <1>9 DEF Reserved
  <2> HIDE DEF s
  <2> QED BY <1>8, <1>9, <2>1, ReservedStep
<1> QED BY <1>8, <1>9 DEF Safe, told

LEMMA Connect ==
  ASSUME NEW t, TorrentInv(t), NEW l \in Link, t.links[l].state = "none", is_open(t)
  PROVE  Safe([t EXCEPT !.links[l] = new_link], t)
<1> DEFINE s == [t EXCEPT !.links[l] = new_link]
<1>1. t.links[l] = NoLink BY DEF TorrentInv, LinksInv
<1>2. TorrentInv(s) /\ Kept(s, t) /\ s.pieces = t.pieces /\ s.links = [t.links EXCEPT ![l] = new_link]
  <2>1. /\ new_link \in LinkRecord /\ new_link.has = t.links[l].has
        /\ new_link.state # "none" /\ new_link.state # "ready"
    BY <1>1, NoLinkType
  <2> QED BY <2>1, LinkStep
<1>3. ASSUME Reserved(t) PROVE Reserved(s)
  <2>1. \A a \in Piece : \A b \in DOMAIN t.pieces[a].subs : l \notin t.pieces[a].subs[b].peers
    BY <1>3 DEF Reserved
  <2> HIDE DEF s
  <2> QED BY <1>2, <1>3, <2>1, ReservedStep
<1> QED BY <1>2, <1>3 DEF Safe

\* Beginning end mode changes nothing of the data.
LEMMA Looked ==
  ASSUME NEW t, TorrentInv(t)
  PROVE  Safe(looked(t), t) /\ looked(t).links = t.links /\ looked(t).pieces = t.pieces
<1> DEFINE e == TRUE
           s == [t EXCEPT !.end_mode = e]
<1>0. e \in BOOLEAN OBVIOUS
<1> HIDE DEF e
<1>1. /\ Fields(t) /\ t.end_mode \in BOOLEAN /\ t.links \in [Link -> LinkRecord]
      /\ DOMAIN t.pieces = Piece /\ t.pieces = [a \in Piece |-> t.pieces[a]]
  <2>1. t \in TorrentRecord BY DEF TorrentInv
  <2>2. t.pieces = [a \in Piece |-> t.pieces[a]] BY <2>1 DEF TorrentRecord
  <2> QED BY <2>1, <2>2, TorrentFields
<1>2. /\ s.links = t.links /\ s.pieces = t.pieces /\ s.end_mode = e
      /\ s.state = t.state /\ s.left = t.left /\ s.validate = t.validate /\ s.hashed = t.hashed
      /\ Fields(s)
  BY <1>1 DEF Fields
<1> HIDE DEF s
<1>3. Kept(s, t) BY <1>2 DEF Kept
<1>4. \A a \in Piece : owners(s, Link, a) = owners(t, Link, a) BY <1>2 DEF owners
<1>5. Told(s) BY <1>2 DEF Told, TorrentInv, valid_pieces
<1>6. /\ \A a \in Piece : PieceInv(s.pieces[a], a) /\ s.pieces[a].peers = owners(s, Link, a)
      /\ \A l \in Link : /\ s.links[l].state = "none" => s.links[l] = NoLink
                         /\ s.links[l].state = "ready" => t.hashed = NoHasher
                         /\ ~is_open(t) => s.links[l] = NoLink
  BY <1>2, <1>4 DEF TorrentInv, LinksInv
<1>7. s.end_mode \in BOOLEAN BY <1>0, <1>2
<1>8. TorrentInv(s) BY <1>1, <1>2, <1>3, <1>5, <1>6, <1>7, KeptTorrent
<1>9. Safe(s, t) BY <1>2, <1>3, <1>8 DEF Safe, Reserved
<1>10. Safe(t, t) BY DEF Safe, Kept
<1> QED BY <1>2, <1>9, <1>10 DEF looked, s, e

\* Pieces and links that may take the place of those of torrent t.
PiecesFit(ps, ks, t) ==
  /\ ps = [a \in Piece |-> ps[a]]
  /\ \A a \in Piece : /\ PieceInv(ps[a], a) /\ ps[a].valid = t.pieces[a].valid
                      /\ ps[a].peers = Cardinality({m \in Link : a \in ks[m].has})
LinksFit(ks, t) ==
  /\ ks \in [Link -> LinkRecord]
  /\ \A l \in Link : /\ ks[l].state = "none" => ks[l] = NoLink
                     /\ ks[l].state = "ready" =>
                          /\ t.hashed = NoHasher
                          /\ valid_pieces(t) \subseteq ks[l].told \cup ks[l].haves \cup ks[l].has
                     /\ ~is_open(t) => ks[l] = NoLink
reshaped(t, ps, ks) == [t EXCEPT !.pieces = ps, !.links = ks]

\* A torrent whose pieces and links change together.
LEMMA Reshape ==
  ASSUME NEW t, TorrentInv(t), NEW ps, NEW ks, PiecesFit(ps, ks, t), LinksFit(ks, t)
  PROVE  LET s == reshaped(t, ps, ks)
         IN TorrentInv(s) /\ Kept(s, t) /\ s.pieces = ps /\ s.links = ks
<1> DEFINE s == reshaped(t, ps, ks)
<1>1. Fields(t) /\ t.end_mode \in BOOLEAN BY TorrentFields DEF TorrentInv
<1>2. s = [state |-> t.state, pieces |-> ps, left |-> t.left, end_mode |-> t.end_mode,
           validate |-> t.validate, hashed |-> t.hashed, links |-> ks]
  <2> DEFINE r == [t EXCEPT !.pieces = ps]
  <2>1. r = [state |-> t.state, pieces |-> ps, left |-> t.left, end_mode |-> t.end_mode,
             validate |-> t.validate, hashed |-> t.hashed, links |-> t.links]
    BY <1>1 DEF Fields
  <2>2. s = [r EXCEPT !.links = ks] BY DEF reshaped
  <2> HIDE DEF r, s
  <2> QED BY <2>1, <2>2
<1> HIDE DEF s
<1>3. /\ Fields(s) /\ s.pieces = ps /\ s.links = ks /\ s.end_mode \in BOOLEAN
      /\ s.state = t.state /\ s.left = t.left /\ s.validate = t.validate /\ s.hashed = t.hashed
  BY <1>1, <1>2 DEF Fields
<1>4. Kept(s, t) BY <1>3 DEF Kept, PiecesFit
<1>5. DOMAIN s.pieces = Piece /\ s.pieces = [a \in Piece |-> s.pieces[a]]
  <2>1. ps = [a \in Piece |-> ps[a]] BY DEF PiecesFit
  <2> QED BY <1>3, <2>1
<1>6. \A a \in Piece : owners(s, Link, a) = Cardinality({m \in Link : a \in ks[m].has})
  BY <1>3 DEF owners
<1>7. valid_pieces(s) = valid_pieces(t) BY <1>4 DEF Kept, valid_pieces, valid_among
<1>8. Told(s) BY <1>3, <1>7 DEF Told, LinksFit
<1>9. TorrentInv(s)
  <2>1. \A a \in Piece : PieceInv(s.pieces[a], a) /\ s.pieces[a].peers = owners(s, Link, a)
    BY <1>3, <1>6 DEF PiecesFit
  <2>2. \A l \in Link : /\ s.links[l].state = "none" => s.links[l] = NoLink
                        /\ s.links[l].state = "ready" => t.hashed = NoHasher
                        /\ ~is_open(t) => s.links[l] = NoLink
    BY <1>3 DEF LinksFit
  <2>3. s.links \in [Link -> LinkRecord] BY <1>3 DEF LinksFit
  <2> QED BY <1>3, <1>4, <1>5, <1>8, <2>1, <2>2, <2>3, KeptTorrent
<1> QED BY <1>3, <1>4, <1>9 DEF s

\* The torrent's parts, as a step needs them.
LEMMA Parts ==
  ASSUME NEW t, TorrentInv(t)
  PROVE  /\ Fields(t) /\ t.links \in [Link -> LinkRecord]
         /\ \A a \in Piece : PieceInv(t.pieces[a], a)
         /\ PiecesFit(t.pieces, t.links, t) /\ LinksFit(t.links, t)
<1>1. t \in TorrentRecord BY DEF TorrentInv
<1>2. t.pieces = [a \in Piece |-> t.pieces[a]] BY <1>1 DEF TorrentRecord
<1>3. Fields(t) /\ t.links \in [Link -> LinkRecord] BY <1>1, TorrentFields
<1>4. \A a \in Piece : /\ PieceInv(t.pieces[a], a)
                       /\ t.pieces[a].peers = Cardinality({m \in Link : a \in t.links[m].has})
  BY DEF TorrentInv, owners
<1>5. PiecesFit(t.pieces, t.links, t)
  <2> DEFINE ps == t.pieces
  <2>1. ps = [a \in Piece |-> ps[a]] BY <1>2
  <2>2. \A a \in Piece : PieceInv(ps[a], a) /\ ps[a].peers = Cardinality({m \in Link : a \in t.links[m].has})
    BY <1>4
  <2> QED BY <2>1, <2>2 DEF PiecesFit
<1>6. LinksFit(t.links, t) BY <1>3 DEF LinksFit, TorrentInv, LinksInv, Told
<1> QED BY <1>3, <1>4, <1>5, <1>6

LEMMA ReservedLinks ==
  ASSUME NEW t, TorrentInv(t), NEW a \in Piece, NEW b \in DOMAIN t.pieces[a].subs
  PROVE  b \in 1..SubPieces[a] /\ t.pieces[a].subs[b] \in SubPiece /\ t.pieces[a].subs[b].peers \subseteq Link
<1>1. PieceInv(t.pieces[a], a) BY DEF TorrentInv
<1>2. t.pieces[a].subs \in {NoSubs} \cup [1..SubPieces[a] -> SubPiece] BY <1>1, PieceFields DEF PieceInv
<1>3. b \in 1..SubPieces[a] /\ t.pieces[a].subs[b] \in SubPiece BY <1>2, NoSubsEmpty
<1> QED BY <1>3 DEF SubPiece

\* The timer takes back reservations; nothing else of the pieces changes.
LEMMA PiecesStep ==
  ASSUME NEW t, TorrentInv(t), NEW ps, ps = [a \in Piece |-> ps[a]],
         \A a \in Piece : PieceInv(ps[a], a) /\ SameBut(ps[a], t.pieces[a])
  PROVE  LET s == [t EXCEPT !.pieces = ps] IN Safe(s, t) /\ s.links = t.links
<1> DEFINE s == [t EXCEPT !.pieces = ps]
           r == reshaped(t, ps, t.links)
<1>1. Fields(t) /\ PiecesFit(t.pieces, t.links, t) /\ LinksFit(t.links, t) BY Parts
<1>2. PiecesFit(ps, t.links, t) BY <1>1 DEF SameBut, PiecesFit
<1>3. TorrentInv(r) /\ Kept(r, t) /\ r.pieces = ps /\ r.links = t.links
  BY <1>1, <1>2, Reshape
<1>4. r = s BY <1>1 DEF Fields, reshaped
<1> HIDE DEF r, s
<1>5. ASSUME Reserved(t) PROVE Reserved(s)
  <2> SUFFICES ASSUME NEW a \in Piece, NEW b \in DOMAIN ps[a].subs, NEW m \in ps[a].subs[b].peers
               PROVE  s.links[m].state = "ready" /\ s.links[m].asked[<<a, b>>] > 0
    BY <1>3, <1>4 DEF Reserved
  <2>1. b \in DOMAIN t.pieces[a].subs /\ m \in t.pieces[a].subs[b].peers BY DEF SameBut
  <2> QED BY <1>3, <1>4, <1>5, <2>1 DEF Reserved
<1> QED BY <1>3, <1>4, <1>5 DEF Safe, s

\* Cbt_peer_link::check_pieces and the interest renewed with it.
LEMMA CheckPieces ==
  ASSUME NEW t, TorrentInv(t), NEW l \in Link, t.links[l].state = "ready", NEW expired
  PROVE  Safe(check_pieces(t, l, expired), t) /\ check_pieces(t, l, expired).links[l].state = "ready"
<1> DEFINE old(a) == {b \in 1..SubPieces[a] : <<a, b>> \in expired}
           ps == [a \in Piece |-> check_peer(t.pieces[a], l, old(a))]
           checked == [t EXCEPT !.pieces = ps]
           useful == next_invalid_pieces(checked, l) # {}
           s == looked(checked)
           goal == s.links[l].goal \/ useful
<1>1. ASSUME NEW a \in Piece PROVE PieceInv(ps[a], a) /\ SameBut(ps[a], t.pieces[a])
  <2> HIDE DEF old
  <2>1. PieceInv(t.pieces[a], a) BY DEF TorrentInv
  <2> QED BY <2>1, CheckPeer
<1>2. ps = [a \in Piece |-> ps[a]] OBVIOUS
<1> HIDE DEF ps
<1>3. Safe(checked, t) /\ checked.links = t.links BY <1>1, <1>2, PiecesStep
<1>4. check_pieces(t, l, expired) =
        IF t.links[l].interested THEN checked ELSE [s EXCEPT !.links[l].goal = goal]
  BY DEF check_pieces, ps
<1> HIDE DEF checked, useful
<1>5. Safe(s, checked) /\ s.links = checked.links BY <1>3, Looked DEF Safe
<1>6. goal \in BOOLEAN OBVIOUS
<1> HIDE DEF s, goal
<1>7. TorrentInv(s) /\ s.links[l].state = "ready" /\ s.links \in [Link -> LinkRecord]
  BY <1>3, <1>5, Parts DEF Safe
<1>8. Safe([s EXCEPT !.links[l].goal = goal], s)
  <2>1. s.links[l].state # "none" BY <1>7
  <2>2. s.links[l] \in LinkRecord BY <1>7
  <2> DEFINE told == s.links[l].told \cup (s.links[l].haves \ s.links[l].has)
  <2>3. told \in SUBSET Piece BY <2>2 DEF LinkRecord
  <2> HIDE DEF told
  <2> QED BY <1>6, <1>7, <2>1, <2>3, LinkUpdates DEF told
<1>9. Safe([s EXCEPT !.links[l].goal = goal], t)
  BY <1>3, <1>5, <1>8, SafeTrans
<1>10. [s EXCEPT !.links[l].goal = goal].links[l].state = "ready"
  <2>1. Fields(s) BY <1>7, Parts
  <2>2. s.links[l] \in LinkRecord BY <1>7
  <2> QED BY <1>7, <2>1, <2>2 DEF Fields, LinkRecord
<1>11. checked.links[l].state = "ready" BY <1>3
<1> QED BY <1>3, <1>4, <1>9, <1>10, <1>11

LEMMA OnePiece ==
  ASSUME NEW t, TorrentInv(t), NEW a \in Piece, NEW q, PieceInv(q, a), q.valid = t.pieces[a].valid,
         q.peers = t.pieces[a].peers, NEW ks, \A m \in Link : ks[m].has = t.links[m].has
  PROVE  PiecesFit([t.pieces EXCEPT ![a] = q], ks, t)
<1> DEFINE ps == [t.pieces EXCEPT ![a] = q]
<1>1. PiecesFit(t.pieces, t.links, t) BY Parts
<1>2. DOMAIN t.pieces = Piece
  <2>1. t.pieces = [c \in Piece |-> t.pieces[c]] BY <1>1 DEF PiecesFit
  <2> QED BY <2>1
<1>3. ps = [c \in Piece |-> ps[c]] /\ \A c \in Piece : ps[c] = IF c = a THEN q ELSE t.pieces[c]
  BY <1>2
<1>4. \A c \in Piece : {m \in Link : c \in ks[m].has} = {m \in Link : c \in t.links[m].has}
  OBVIOUS
<1> HIDE DEF ps
<1>5. ASSUME NEW c \in Piece
      PROVE  /\ PieceInv(ps[c], c) /\ ps[c].valid = t.pieces[c].valid
             /\ ps[c].peers = Cardinality({m \in Link : c \in ks[m].has})
  <2>1. PieceInv(t.pieces[c], c) /\ t.pieces[c].peers = Cardinality({m \in Link : c \in t.links[m].has})
    BY <1>1 DEF PiecesFit
  <2>2. ps[c] = IF c = a THEN q ELSE t.pieces[c] BY <1>3
  <2> QED BY <1>4, <2>1, <2>2
<1>6. PiecesFit(ps, ks, t) BY <1>3, <1>5 DEF PiecesFit
<1> QED BY <1>6 DEF ps

LEMMA OneLink ==
  ASSUME NEW t, TorrentInv(t), NEW l \in Link, t.links[l].state = "ready", NEW k \in LinkRecord,
         k.state = "ready", valid_pieces(t) \subseteq k.told \cup k.haves \cup k.has
  PROVE  LinksFit([t.links EXCEPT ![l] = k], t)
<1> DEFINE ks == [t.links EXCEPT ![l] = k]
<1>1. LinksFit(t.links, t) BY Parts
<1>2. ks \in [Link -> LinkRecord] /\ \A m \in Link : ks[m] = IF m = l THEN k ELSE t.links[m]
  BY <1>1 DEF LinksFit
<1>3. is_open(t) /\ t.hashed = NoHasher BY OpenLink
<1> HIDE DEF ks
<1>4. ASSUME NEW m \in Link
      PROVE  /\ ks[m].state = "none" => ks[m] = NoLink
             /\ ks[m].state = "ready" =>
                  t.hashed = NoHasher /\ valid_pieces(t) \subseteq ks[m].told \cup ks[m].haves \cup ks[m].has
             /\ ~is_open(t) => ks[m] = NoLink
  <2>1. CASE m = l
    <3>1. ks[m] = k BY <1>2, <2>1
    <3> QED BY <1>3, <3>1
  <2>2. CASE m # l
    <3>1. ks[m] = t.links[m] BY <1>2, <2>2
    <3> QED BY <1>1, <3>1 DEF LinksFit
  <2> QED BY <2>1, <2>2
<1>5. LinksFit(ks, t) BY <1>2, <1>4 DEF LinksFit
<1> QED BY <1>5 DEF ks

\* Requests for free sub-pieces of a piece: each is reserved by the link that requests it.
LEMMA Ask ==
  ASSUME NEW t, TorrentInv(t), NEW l \in Link, t.links[l].state = "ready",
         NEW a \in next_invalid_pieces(t, l), NEW window
  PROVE  Safe(ask(t, l, a, window), t) /\ ask(t, l, a, window).links[l].state = "ready"
<1> DEFINE n == AtMost(c_max_requests_pending(t, window) - t.links[l].pending, t.pieces[a].unrequested)
           subs == open_subs(t.pieces[a], a)
           taken == first_free(subs, n)
           q == reserve(t.pieces[a], a, l, taken)
           asked == [c \in Chunk |-> IF c[1] = a /\ c[2] \in taken THEN t.links[l].asked[c] + 1
                                     ELSE t.links[l].asked[c]]
           pending == t.links[l].pending + Cardinality(taken)
           k == [t.links[l] EXCEPT !.asked = asked, !.pending = pending]
           ps == [t.pieces EXCEPT ![a] = q]
           ks == [t.links EXCEPT ![l] = k]
           s == ask(t, l, a, window)
<1>1. a \in Piece /\ ~t.pieces[a].valid BY DEF next_invalid_pieces, wanted
<1>2. Fields(t) /\ t.links \in [Link -> LinkRecord] /\ PieceInv(t.pieces[a], a) BY <1>1, Parts
<1>3. taken \in SUBSET requestable(subs) BY DEF first_free
<1>4. /\ subs \in [1..SubPieces[a] -> SubPiece]
      /\ t.pieces[a].subs # NoSubs => subs = t.pieces[a].subs
      /\ t.pieces[a].subs = NoSubs => \A b \in 1..SubPieces[a] : subs[b].peers = {}
  <2>1. t.pieces[a].subs \in {NoSubs} \cup [1..SubPieces[a] -> SubPiece]
    BY <1>2, PieceFields DEF PieceInv
  <2>2. \A b \in 1..SubPieces[a] : [valid |-> FALSE, peers |-> {}].peers = {} OBVIOUS
  <2> QED BY <1>1, <2>1, <2>2, OpenSubs
<1>5. s = reshaped(t, ps, ks)
  <2>1. s = [t EXCEPT !.pieces[a] = q, !.links[l].asked = asked, !.links[l].pending = pending]
    BY DEF ask
  <2> HIDE DEF q, asked, pending, s
  <2> QED BY <1>2, <2>1 DEF Fields, reshaped
<1> HIDE DEF s
<1>6. PieceInv(q, a) /\ q.valid = t.pieces[a].valid /\ q.peers = t.pieces[a].peers
  <2> HIDE DEF taken
  <2> QED BY <1>1, <1>2, <1>3, Reserve
<1>7. q.subs = [b \in DOMAIN subs |-> IF b \in taken THEN [valid |-> FALSE, peers |-> {l}] ELSE subs[b]]
  <2> DEFINE list == [b \in DOMAIN subs |-> IF b \in taken THEN [valid |-> FALSE, peers |-> {l}] ELSE subs[b]]
             p == t.pieces[a]
  <2>1. q = [p EXCEPT !.subs = list, !.unrequested = p.unrequested - Cardinality(taken)] BY DEF reserve
  <2>2. p \in PieceRecord(SubPieces[a]) BY <1>2 DEF PieceInv
  <2> HIDE DEF q, list, p, taken
  <2>3. q.subs = list BY <2>1, <2>2 DEF PieceRecord
  <2> QED BY <2>3 DEF list
<1>8. IsFiniteSet(taken)
  <2>1. taken \in SUBSET (1..SubPieces[a]) BY <1>3, <1>4 DEF requestable
  <2> HIDE DEF taken
  <2> QED BY <1>1, <2>1, FewSubs
<1>9. asked \in [Chunk -> Nat] /\ pending \in Int
  <2>1. t.links[l].asked \in [Chunk -> Nat] /\ t.links[l].pending \in Int
    BY <1>2 DEF LinkRecord
  <2>2. Cardinality(taken) \in Nat BY <1>8, FS_CardinalityType
  <2> HIDE DEF taken
  <2> QED BY <2>1, <2>2
<1>10. \A c \in Chunk : /\ asked[c] >= t.links[l].asked[c]
                        /\ c[1] = a /\ c[2] \in taken => asked[c] > 0
  <2>1. t.links[l].asked \in [Chunk -> Nat] BY <1>2 DEF LinkRecord
  <2> HIDE DEF taken
  <2> QED BY <2>1
<1> HIDE DEF q, asked, pending, taken, subs
<1>11. k \in LinkRecord
  <2>1. t.links[l] \in LinkRecord BY <1>2
  <2> QED BY <1>9, <2>1 DEF LinkRecord
<1>12. /\ k.state = "ready" /\ k.has = t.links[l].has /\ k.asked = asked
       /\ k.told = t.links[l].told /\ k.haves = t.links[l].haves
  <2>1. t.links[l] \in LinkRecord BY <1>2
  <2> QED BY <2>1 DEF LinkRecord
<1> HIDE DEF k
<1>13. \A m \in Link : ks[m].has = t.links[m].has BY <1>2, <1>12
<1>14. PiecesFit(ps, ks, t) BY <1>1, <1>6, <1>13, OnePiece
<1>15. LinksFit(ks, t)
  <2>1. valid_pieces(t) \subseteq k.told \cup k.haves \cup k.has BY <1>12 DEF TorrentInv, Told
  <2> QED BY <1>11, <1>12, <2>1, OneLink
<1>16. TorrentInv(s) /\ Kept(s, t) /\ s.pieces = ps /\ s.links = ks
  BY <1>5, <1>14, <1>15, Reshape
<1>17. \A m \in Link : ks[m] = IF m = l THEN k ELSE t.links[m] BY <1>2
<1>18. \A c \in Piece : ps[c] = IF c = a THEN q ELSE t.pieces[c] BY <1>14, Parts DEF PiecesFit
<1> HIDE DEF ps, ks
<1>19. ASSUME Reserved(t), NEW c \in Piece, NEW b \in DOMAIN s.pieces[c].subs,
              NEW m \in s.pieces[c].subs[b].peers
       PROVE  s.links[m].state = "ready" /\ s.links[m].asked[<<c, b>>] > 0
  <2>1. CASE c = a /\ b \in taken
    <3>1. m = l /\ b \in 1..SubPieces[a]
      <4>1. s.pieces[c] = q /\ b \in DOMAIN q.subs /\ m \in q.subs[b].peers BY <1>16, <1>18, <2>1
      <4>2. q.subs[b] = [valid |-> FALSE, peers |-> {l}] BY <1>7, <2>1, <4>1
      <4>3. m \in {l}
        <5> DEFINE r == q.subs[b]
        <5>1. r = [valid |-> FALSE, peers |-> {l}] BY <4>2
        <5>2. m \in r.peers BY <4>1
        <5> HIDE DEF r
        <5> QED BY <5>1, <5>2
      <4>4. b \in DOMAIN subs BY <1>3, <2>1 DEF requestable
      <4>5. DOMAIN subs = 1..SubPieces[a] BY <1>4
      <4> QED BY <4>3, <4>4, <4>5
    <3>2. <<c, b>> \in Chunk /\ <<c, b>>[1] = a /\ <<c, b>>[2] = b
      <4>1. SubPieces[a] \in Nat /\ SubPieces[1] \in Nat /\ SubPieces[a] <= SubPieces[1]
        <5>1. 1 \in Piece BY DownloadAssumption DEF Piece
        <5> QED BY <1>1, <5>1, Sizes
      <4> QED BY <1>1, <2>1, <3>1, <4>1 DEF Chunk
    <3> QED BY <1>10, <1>12, <1>16, <1>17, <2>1, <3>1, <3>2
  <2>2. CASE ~(c = a /\ b \in taken)
    <3>1. b \in DOMAIN t.pieces[c].subs /\ m \in t.pieces[c].subs[b].peers
      <4>1. CASE c = a
        <5>1. b \in 1..SubPieces[a] /\ m \in subs[b].peers
          <6>1. s.pieces[c] = q /\ b \in DOMAIN q.subs /\ m \in q.subs[b].peers BY <1>16, <1>18, <4>1
          <6>2. b \in DOMAIN subs /\ q.subs[b] = subs[b] BY <1>7, <2>2, <4>1, <6>1
          <6>3. DOMAIN subs = 1..SubPieces[a] BY <1>4
          <6> QED BY <6>1, <6>2, <6>3
        <5>2. subs = t.pieces[a].subs BY <1>4, <5>1
        <5> QED BY <1>4, <4>1, <5>1, <5>2
      <4>2. CASE c # a BY <1>16, <1>18, <4>2
      <4> QED BY <4>1, <4>2
    <3>2. t.links[m].state = "ready" /\ t.links[m].asked[<<c, b>>] > 0 BY <1>19, <3>1 DEF Reserved
    <3>3. m \in Link /\ b \in 1..SubPieces[c] BY <3>1, ReservedLinks
    <3>4. CASE m = l
      <4>1. <<c, b>> \in Chunk
        <5>1. SubPieces[c] \in Nat /\ SubPieces[1] \in Nat /\ SubPieces[c] <= SubPieces[1]
          <6>1. 1 \in Piece BY DownloadAssumption DEF Piece
          <6> QED BY <6>1, Sizes
        <5> QED BY <3>3, <5>1 DEF Chunk
      <4>2. asked[<<c, b>>] >= t.links[l].asked[<<c, b>>] BY <1>10, <4>1
      <4>3. asked[<<c, b>>] \in Nat /\ t.links[l].asked[<<c, b>>] \in Nat
        BY <1>2, <1>9, <4>1 DEF LinkRecord
      <4> QED BY <1>12, <1>16, <1>17, <3>2, <3>4, <4>2, <4>3
    <3>5. CASE m # l BY <1>16, <1>17, <3>2, <3>3, <3>5
    <3> QED BY <3>4, <3>5
  <2> QED BY <2>1, <2>2
<1>20. Reserved(t) => Reserved(s) BY <1>19 DEF Reserved
<1>21. s.links[l].state = "ready" BY <1>12, <1>16, <1>17
<1> QED BY <1>16, <1>20, <1>21 DEF Safe, s

\* Interest or the end of it, as the link is told.
LEMMA Interest ==
  ASSUME NEW t, TorrentInv(t), NEW l \in Link, t.links[l].state = "ready", NEW g \in BOOLEAN
  PROVE  /\ Safe([t EXCEPT !.links[l].goal = g], t)
         /\ Safe([t EXCEPT !.links[l].interested = g], t)
         /\ [t EXCEPT !.links[l].goal = g].links[l].state = "ready"
         /\ [t EXCEPT !.links[l].interested = g].links[l].state = "ready"
<1>1. Fields(t) /\ t.links \in [Link -> LinkRecord] BY Parts
<1>2. t.links[l] \in LinkRecord BY <1>1
<1> DEFINE told == t.links[l].told \cup (t.links[l].haves \ t.links[l].has)
<1>3. told \in SUBSET Piece BY <1>2 DEF LinkRecord
<1>4. t.links[l].state # "none" OBVIOUS
<1> HIDE DEF told
<1>5. Safe([t EXCEPT !.links[l].goal = g], t) /\ Safe([t EXCEPT !.links[l].interested = g], t)
  BY <1>3, <1>4, LinkUpdates DEF told
<1>6. /\ [t EXCEPT !.links[l].goal = g].links[l].state = "ready"
      /\ [t EXCEPT !.links[l].interested = g].links[l].state = "ready"
  BY <1>1, <1>2 DEF Fields, LinkRecord
<1> QED BY <1>5, <1>6

\* One round of requests.
LEMMA AskRound ==
  ASSUME NEW t, TorrentInv(t), NEW l \in Link, t.links[l].state = "ready", NEW window,
         NEW s \in ask_round(t, l, window)
  PROVE  Safe(s, t) /\ s.links[l].state = "ready"
<1> DEFINE r == looked(t)
<1>1. Safe(r, t) /\ r.links = t.links /\ r.pieces = t.pieces BY Looked
<1>2. TorrentInv(r) /\ r.left = t.left BY <1>1 DEF Safe, Kept
<1>3. next_invalid_pieces(r, l) = next_invalid_pieces(t, l)
  BY <1>1, <1>2 DEF next_invalid_pieces, wanted
<1>4. Safe(t, t) BY DEF Safe, Kept
<1>5. \/ s = t
      \/ s = [r EXCEPT !.links[l].goal = FALSE]
      \/ \E a \in next_invalid_pieces(t, l) : s = ask(r, l, a, window)
  BY DEF ask_round
<1> HIDE DEF r
<1>6. CASE s = t BY <1>4, <1>6
<1>7. CASE s = [r EXCEPT !.links[l].goal = FALSE]
  <2> DEFINE e == FALSE
  <2>1. e \in BOOLEAN /\ s = [r EXCEPT !.links[l].goal = e] BY <1>7
  <2> HIDE DEF e
  <2>2. TorrentInv(r) /\ r.links[l].state = "ready" BY <1>1, <1>2
  <2>3. Safe([r EXCEPT !.links[l].goal = e], r) /\ [r EXCEPT !.links[l].goal = e].links[l].state = "ready"
    BY <2>1, <2>2, Interest
  <2> QED BY <1>1, <2>1, <2>3, SafeTrans
<1>8. ASSUME NEW a \in next_invalid_pieces(t, l), s = ask(r, l, a, window)
      PROVE  Safe(s, t) /\ s.links[l].state = "ready"
  <2>1. Safe(s, r) /\ s.links[l].state = "ready" BY <1>1, <1>2, <1>3, <1>8, Ask
  <2> QED BY <1>1, <2>1, SafeTrans
<1> QED BY <1>5, <1>6, <1>7, <1>8

\* What the rounds of ask_all may make of a torrent.
rounds(t, l, window, after, k) ==
  after = [n \in 0..k |-> IF n = 0 THEN {t}
                          ELSE UNION {ask_round(s, l, window) : s \in after[n - 1]}]

LEMMA RoundsExist ==
  ASSUME NEW t, NEW l, NEW window
  PROVE  \E after : rounds(t, l, window, after, Rounds) /\ ask_all(t, l, window) = after[Rounds]
<1> DEFINE R(s) == ask_round(s, l, window)
           P(g, k) == g = [n \in 0..k |-> IF n = 0 THEN {t} ELSE UNION {R(s) : s \in g[n - 1]}]
           S == {k \in Nat : \E g : P(g, k)}
<1> HIDE DEF R
<1>1. 0 \in S
  <2> DEFINE g == [n \in 0..0 |-> {t}]
  <2>1. P(g, 0) OBVIOUS
  <2> QED BY <2>1
<1>2. ASSUME NEW n \in Nat, n \in S PROVE n + 1 \in S
  <2>1. PICK g : P(g, n) BY <1>2
  <2> DEFINE h == [k \in 0..(n + 1) |-> IF k = n + 1 THEN UNION {R(s) : s \in g[n]} ELSE g[k]]
  <2>2. ASSUME NEW k \in 0..(n + 1)
        PROVE  h[k] = IF k = 0 THEN {t} ELSE UNION {R(s) : s \in h[k - 1]}
    <3>1. CASE k = 0 BY <2>1, <3>1
    <3>2. CASE k # 0 /\ k # n + 1
      <4>1. k \in 0..n /\ k - 1 \in 0..n BY <3>2
      <4>2. h[k] = g[k] /\ h[k - 1] = g[k - 1] BY <4>1
      <4>3. g[k] = UNION {R(s) : s \in g[k - 1]} BY <2>1, <3>2, <4>1
      <4> QED BY <3>2, <4>2, <4>3
    <3>3. CASE k = n + 1
      <4>1. h[k] = UNION {R(s) : s \in g[n]} BY <3>3
      <4>2. h[k - 1] = g[n] BY <3>3
      <4> QED BY <3>3, <4>1, <4>2
    <3> QED BY <3>1, <3>2, <3>3
  <2>3. P(h, n + 1) BY <2>2
  <2>4. n + 1 \in Nat OBVIOUS
  <2> HIDE DEF h
  <2> QED BY <2>3, <2>4
<1>3. Rounds \in Nat
  <2>1. Cardinality(Chunk) \in Nat BY ChunkFinite DEF Size
  <2> QED BY <2>1 DEF Rounds
<1>4. Rounds \in S BY <1>1, <1>2, <1>3, Induct
<1>5. \E g : P(g, Rounds) BY <1>4
<1> DEFINE after == CHOOSE g : P(g, Rounds)
<1>6. P(after, Rounds) BY <1>5
<1>7. ask_all(t, l, window) = after[Rounds] BY DEF ask_all, R
<1>8. rounds(t, l, window, after, Rounds) BY <1>6 DEF rounds, R
<1> QED BY <1>7, <1>8

LEMMA AskAll ==
  ASSUME NEW t, TorrentInv(t), NEW l \in Link, t.links[l].state = "ready", NEW window,
         NEW s \in ask_all(t, l, window)
  PROVE  Safe(s, t) /\ s.links[l].state = "ready"
<1>1. PICK after : rounds(t, l, window, after, Rounds) /\ ask_all(t, l, window) = after[Rounds]
  BY RoundsExist
<1> DEFINE Good(n) == \A r \in after[n] : Safe(r, t) /\ r.links[l].state = "ready"
           S == {n \in Nat : n \in 0..Rounds => Good(n)}
<1>2. Rounds \in Nat
  <2>1. Cardinality(Chunk) \in Nat BY ChunkFinite DEF Size
  <2> QED BY <2>1 DEF Rounds
<1>3. 0 \in S
  <2>1. Safe(t, t) BY DEF Safe, Kept
  <2>2. after[0] = {t} BY <1>1, <1>2 DEF rounds
  <2> QED BY <2>1, <2>2
<1>4. ASSUME NEW n \in Nat, n \in S, n + 1 \in 0..Rounds PROVE Good(n + 1)
  <2>1. n \in 0..Rounds /\ Good(n) BY <1>2, <1>4
  <2>2. after[n + 1] = UNION {ask_round(r, l, window) : r \in after[n]}
    <3>1. n + 1 # 0 /\ (n + 1) - 1 = n OBVIOUS
    <3> QED BY <1>1, <1>4, <3>1 DEF rounds
  <2>3. ASSUME NEW q \in after[n + 1] PROVE Safe(q, t) /\ q.links[l].state = "ready"
    <3>1. PICK r \in after[n] : q \in ask_round(r, l, window) BY <2>2
    <3>2. Safe(r, t) /\ r.links[l].state = "ready" BY <2>1
    <3>3. TorrentInv(r) BY <3>2 DEF Safe
    <3>4. Safe(q, r) /\ q.links[l].state = "ready" BY <3>1, <3>2, <3>3, AskRound
    <3> QED BY <3>2, <3>4, SafeTrans
  <2> QED BY <2>3
<1>5. \A n \in Nat : n \in S => n + 1 \in S BY <1>4
<1>6. Nat \subseteq S
  <2> HIDE DEF S
  <2> QED BY <1>3, <1>5, Induct
<1>7. Good(Rounds) BY <1>2, <1>6
<1> QED BY <1>1, <1>7

-----------------------------------------------------------------------------
(* Links that close.                                                       *)

LEMMA MorePeers ==
  ASSUME NEW a \in Piece, NEW p, PieceInv(p, a), NEW n \in Int, p.peers + n \in Nat
  PROVE  LET q == more_peers(p, n)
         IN /\ PieceInv(q, a) /\ q.valid = p.valid /\ q.subs = p.subs /\ q.peers = p.peers + n
<1> DEFINE q == more_peers(p, n)
           m == p.peers + n
<1>1. /\ p = [valid |-> p.valid, subs |-> p.subs, left |-> p.left,
              unrequested |-> p.unrequested, peers |-> p.peers]
      /\ p.valid \in BOOLEAN /\ p.subs \in {NoSubs} \cup [1..SubPieces[a] -> SubPiece]
      /\ p.left \in 0..SubPieces[a] /\ p.unrequested \in 0..SubPieces[a]
  BY PieceFields DEF PieceInv
<1>2. q = [p EXCEPT !.peers = m] BY DEF more_peers
<1>3. m \in Nat OBVIOUS
<1> HIDE DEF q, m
<1>4. q = [valid |-> p.valid, subs |-> p.subs, left |-> p.left, unrequested |-> p.unrequested, peers |-> m]
  BY <1>1, <1>2
<1>5. q \in PieceRecord(SubPieces[a]) BY <1>1, <1>3, <1>4, MakePiece
<1>6. /\ q.valid = p.valid /\ q.subs = p.subs /\ q.left = p.left /\ q.unrequested = p.unrequested
      /\ q.peers = m
  BY <1>4
<1>7. open_subs(q, a) = open_subs(p, a) BY <1>6 DEF open_subs
<1>8. PieceCounts(q, a) BY <1>6, <1>7 DEF PieceInv, PieceCounts
<1>9. SubsInv(q.subs) BY <1>6 DEF PieceInv
<1> QED BY <1>5, <1>6, <1>8, <1>9 DEF PieceInv, q, m

\* Every link in ls closes: what it had reserved is free again.
LEMMA CloseLinks ==
  ASSUME NEW t, TorrentInv(t), NEW ls \in SUBSET Link
  PROVE  /\ Safe(close_links(t, ls), t) /\ close_links(t, ls).links = without(t, ls)
         /\ \A a \in Piece : close_links(t, ls).pieces[a].peers = t.pieces[a].peers - owners(t, ls, a)
<1> DEFINE erased(a) == erase_peers(t.pieces[a], requests(t, ls, a))
           ps == [a \in Piece |-> more_peers(erased(a), -owners(t, ls, a))]
           ks == without(t, ls)
           s == close_links(t, ls)
<1>1. Fields(t) /\ PiecesFit(t.pieces, t.links, t) /\ LinksFit(t.links, t) BY Parts
<1>2. DOMAIN t.pieces = Piece
  <2>1. t.pieces = [a \in Piece |-> t.pieces[a]] BY <1>1 DEF PiecesFit
  <2> QED BY <2>1
<1>3. s = reshaped(t, ps, ks)
  <2>1. s = [t EXCEPT !.links = ks, !.pieces = ps] BY <1>2 DEF close_links
  <2> HIDE DEF s, ks, ps
  <2> QED BY <1>1, <2>1 DEF Fields, reshaped
<1> HIDE DEF s
<1>4. \A m \in Link : ks[m] = IF m \in ls THEN NoLink ELSE t.links[m] BY DEF without
<1>5. LinksFit(ks, t)
  <2>1. ks \in [Link -> LinkRecord] BY <1>1, NoLinkType DEF without, LinksFit
  <2>2. ASSUME NEW m \in Link
        PROVE  /\ ks[m].state = "none" => ks[m] = NoLink
               /\ ks[m].state = "ready" =>
                    t.hashed = NoHasher /\ valid_pieces(t) \subseteq ks[m].told \cup ks[m].haves \cup ks[m].has
               /\ ~is_open(t) => ks[m] = NoLink
    <3>1. CASE m \in ls
      <4>1. ks[m] = NoLink BY <1>4, <3>1
      <4> QED BY <4>1, NoLinkType
    <3>2. CASE m \notin ls
      <4>1. ks[m] = t.links[m] BY <1>4, <3>2
      <4> QED BY <1>1, <4>1 DEF LinksFit
    <3> QED BY <3>1, <3>2
  <2> HIDE DEF ks
  <2> QED BY <2>1, <2>2 DEF LinksFit
<1> HIDE DEF ks
<1>6. ASSUME NEW a \in Piece
      PROVE  /\ PieceInv(ps[a], a) /\ ps[a].valid = t.pieces[a].valid
             /\ ps[a].peers = Cardinality({m \in Link : a \in ks[m].has})
             /\ ps[a].peers = t.pieces[a].peers - owners(t, ls, a)
             /\ ps[a].subs = erased(a).subs
             /\ SameBut(erased(a), t.pieces[a])
             /\ \A b \in DOMAIN t.pieces[a].subs : \A m \in erased(a).subs[b].peers :
                  <<m, b>> \notin requests(t, ls, a)
  <2> DEFINE all == {m \in Link : a \in t.links[m].has}
             part == {m \in ls : a \in t.links[m].has}
             rest == {m \in Link : a \in ks[m].has}
             e == erased(a)
  <2>1. PieceInv(t.pieces[a], a) /\ t.pieces[a].peers = Cardinality(all) BY <1>1 DEF PiecesFit
  <2>2. requests(t, ls, a) \in SUBSET (Link \X (1..SubPieces[a])) BY DEF requests
  <2>3. /\ PieceInv(e, a) /\ SameBut(e, t.pieces[a])
        /\ \A b \in DOMAIN t.pieces[a].subs : \A m \in e.subs[b].peers : <<m, b>> \notin requests(t, ls, a)
    BY <2>1, <2>2, ErasePeers
  <2>4. ps[a] = more_peers(e, -owners(t, ls, a)) OBVIOUS
  <2>5. rest = all \ part
    <3>1. ASSUME NEW m \in Link PROVE a \in ks[m].has <=> (a \in t.links[m].has /\ m \notin ls)
      <4>1. CASE m \in ls
        <5>1. ks[m] = NoLink BY <1>4, <4>1
        <5> QED BY <4>1, <5>1, NoLinkType
      <4>2. CASE m \notin ls BY <1>4, <4>2
      <4> QED BY <4>1, <4>2
    <3> QED BY <3>1
  <2>6. part \subseteq all /\ all \subseteq Link /\ IsFiniteSet(Link) BY DownloadAssumption
  <2>7. owners(t, ls, a) = Cardinality(part) BY DEF owners
  <2> HIDE DEF all, part, rest, e, erased
  <2>8. IsFiniteSet(all) BY <2>6, FS_Subset
  <2>9. /\ Cardinality(rest) = Cardinality(all) - Cardinality(part)
        /\ Cardinality(rest) \in Nat /\ Cardinality(all) \in Nat /\ Cardinality(part) \in Nat
    <3>1. all \cap part = part BY <2>6
    <3>2. Cardinality(all \ part) = Cardinality(all) - Cardinality(all \cap part) BY <2>8, FS_Difference
    <3>3. IsFiniteSet(part) /\ IsFiniteSet(rest) BY <2>5, <2>6, <2>8, FS_Subset
    <3> QED BY <2>5, <2>8, <3>1, <3>2, <3>3, FS_CardinalityType
  <2>10. e.peers = t.pieces[a].peers BY <2>3 DEF SameBut
  <2>11. -owners(t, ls, a) \in Int /\ e.peers + (-owners(t, ls, a)) = Cardinality(rest)
    BY <2>1, <2>7, <2>9, <2>10
  <2> DEFINE n == -owners(t, ls, a)
             q == more_peers(e, n)
  <2>12. n \in Int /\ e.peers + n = Cardinality(rest) /\ e.peers + n \in Nat BY <2>9, <2>11
  <2> HIDE DEF n
  <2>13. PieceInv(q, a) /\ q.valid = e.valid /\ q.subs = e.subs /\ q.peers = e.peers + n
    BY <2>3, <2>12, MorePeers
  <2>14. ps[a] = q BY <2>4 DEF n
  <2>15. e.valid = t.pieces[a].valid BY <2>3 DEF SameBut
  <2>16. Cardinality(rest) = t.pieces[a].peers - owners(t, ls, a) BY <2>1, <2>7, <2>9
  <2> HIDE DEF q, ps
  <2>17. PieceInv(ps[a], a) /\ ps[a].valid = t.pieces[a].valid /\ ps[a].peers = Cardinality(rest)
         /\ ps[a].peers = t.pieces[a].peers - owners(t, ls, a) /\ ps[a].subs = e.subs
    BY <2>12, <2>13, <2>14, <2>15, <2>16
  <2> QED BY <2>3, <2>17 DEF rest, e
<1>7. ps = [a \in Piece |-> ps[a]] OBVIOUS
<1> HIDE DEF ps
<1>8. PiecesFit(ps, ks, t) BY <1>6, <1>7 DEF PiecesFit
<1>9. TorrentInv(s) /\ Kept(s, t) /\ s.pieces = ps /\ s.links = ks
  BY <1>3, <1>5, <1>8, Reshape
<1>10. ASSUME Reserved(t), NEW a \in Piece, NEW b \in DOMAIN s.pieces[a].subs,
              NEW m \in s.pieces[a].subs[b].peers
       PROVE  s.links[m].state = "ready" /\ s.links[m].asked[<<a, b>>] > 0
  <2>1. b \in DOMAIN t.pieces[a].subs /\ m \in t.pieces[a].subs[b].peers /\ <<m, b>> \notin requests(t, ls, a)
    BY <1>6, <1>9 DEF SameBut
  <2>2. t.links[m].state = "ready" /\ t.links[m].asked[<<a, b>>] > 0 BY <1>10, <2>1 DEF Reserved
  <2>3. m \in Link /\ b \in 1..SubPieces[a] BY <2>1, ReservedLinks
  <2>4. m \notin ls
    <3>1. m \in ls => <<m, b>> \in requests(t, ls, a) BY <2>2, <2>3 DEF requests
    <3> QED BY <2>1, <3>1
  <2> QED BY <1>4, <1>9, <2>2, <2>3, <2>4
<1>11. Reserved(t) => Reserved(s) BY <1>10 DEF Reserved
<1> QED BY <1>6, <1>9, <1>11 DEF Safe, s, ks

\* The end of a link's turn.
LEMMA Finish ==
  ASSUME NEW t, TorrentInv(t), NEW l \in Link, t.links[l].state = "ready", NEW window,
         NEW asked \in ask_all(write_interested(t, l), l, window)
  PROVE  Safe(sent(asked, l), t)
<1> DEFINE g == t.links[l].goal
           r == write_interested(t, l)
<1>1. g \in BOOLEAN
  <2>1. t.links[l] \in LinkRecord BY Parts
  <2> QED BY <2>1 DEF LinkRecord
<1>2. r = [t EXCEPT !.links[l].interested = g] BY DEF write_interested
<1> HIDE DEF g, r
<1>3. Safe(r, t) /\ r.links[l].state = "ready" BY <1>1, <1>2, Interest
<1>4. Safe(asked, r) BY <1>3, AskAll DEF Safe, r
<1>5. Safe(sent(asked, l), asked)
  <2>1. TorrentInv(asked) BY <1>4 DEF Safe
  <2>2. {l} \in SUBSET Link OBVIOUS
  <2>3. Safe(close_link(asked, l), asked) BY <2>1, <2>2, CloseLinks DEF close_link
  <2>4. Safe(asked, asked) BY <2>1 DEF Safe, Kept
  <2> QED BY <2>3, <2>4 DEF sent
<1> QED BY <1>3, <1>4, <1>5, SafeTrans

-----------------------------------------------------------------------------
(* Steps that change what is valid, left or hashed.                        *)

\* The sub-pieces of one piece.
LEMMA PieceChunks ==
  ASSUME NEW a \in Piece
  PROVE  LET S == {c \in Chunk : c[1] = a}
         IN /\ IsFiniteSet(S) /\ Cardinality(S) = SubPieces[a]
            /\ \A b \in 1..SubPieces[a] : <<a, b>> \in S
            /\ \A c \in S : c[2] \in 1..SubPieces[a] /\ c = <<a, c[2]>>
<1> DEFINE S == {c \in Chunk : c[1] = a}
           f == [b \in 1..SubPieces[a] |-> <<a, b>>]
<1>1. /\ SubPieces[a] \in Nat /\ SubPieces[1] \in Nat /\ SubPieces[a] <= SubPieces[1]
      /\ IsFiniteSet(1..SubPieces[a]) /\ Cardinality(1..SubPieces[a]) = SubPieces[a]
  <2>1. 1 \in Piece BY DownloadAssumption DEF Piece
  <2> QED BY <2>1, Sizes
<1>2. \A b \in 1..SubPieces[a] : <<a, b>> \in S BY <1>1 DEF Chunk
<1>3. \A c \in S : c[2] \in 1..SubPieces[a] /\ c = <<a, c[2]>> BY <1>1 DEF Chunk
<1> HIDE DEF S
<1>4. f \in Bijection(1..SubPieces[a], S)
  <2>1. f \in [1..SubPieces[a] -> S] BY <1>2
  <2>2. \A b, d \in 1..SubPieces[a] : f[b] = f[d] => b = d OBVIOUS
  <2>3. \A c \in S : \E b \in 1..SubPieces[a] : f[b] = c BY <1>3
  <2> HIDE DEF f
  <2> QED BY <2>1, <2>2, <2>3 DEF Bijection, Injection, Surjection, IsInjective
<1>5. ExistsBijection(1..SubPieces[a], S) BY <1>4 DEF ExistsBijection
<1>6. IsFiniteSet(S) /\ Cardinality(S) = SubPieces[a] BY <1>1, <1>5, FS_Bijection
<1> QED BY <1>2, <1>3, <1>6 DEF S

\* A torrent made of these parts keeps the invariant.
made(st, ps, left, e, v, h, ks) ==
  [state |-> st, pieces |-> ps, left |-> left, end_mode |-> e, validate |-> v, hashed |-> h, links |-> ks]
opened(st) == st \in {"hashing", "running", "paused"}
PiecesMake(ps, ks) ==
  /\ ps = [a \in Piece |-> ps[a]]
  /\ \A a \in Piece : PieceInv(ps[a], a) /\ ps[a].peers = Cardinality({m \in Link : a \in ks[m].has})
LinksMake(ks, ps, h, st) ==
  /\ ks \in [Link -> LinkRecord]
  /\ \A l \in Link : /\ ks[l].state = "none" => ks[l] = NoLink
                     /\ ks[l].state = "ready" =>
                          /\ h = NoHasher
                          /\ valid_among(ps) \subseteq ks[l].told \cup ks[l].haves \cup ks[l].has
                     /\ ~opened(st) => ks[l] = NoLink
StateMake(st, ps, left, v, h) ==
  /\ st \in State /\ left \in -1..Size /\ v \in BOOLEAN /\ h \in {NoHasher} \cup 0..Pieces
  /\ ~opened(st) => h = NoHasher
  /\ opened(st) => (v <=> h # NoHasher)
  /\ opened(st) /\ h = NoHasher => left = invalid_size(ps)

LEMMA Make ==
  ASSUME NEW st, NEW ps, NEW left, NEW e \in BOOLEAN, NEW v, NEW h, NEW ks,
         PiecesMake(ps, ks), LinksMake(ks, ps, h, st), StateMake(st, ps, left, v, h)
  PROVE  TorrentInv(made(st, ps, left, e, v, h, ks))
<1> DEFINE s == made(st, ps, left, e, v, h, ks)
<1>1. /\ Fields(s) /\ s.state = st /\ s.pieces = ps /\ s.left = left /\ s.end_mode = e
      /\ s.validate = v /\ s.hashed = h /\ s.links = ks
  BY DEF made, Fields
<1> HIDE DEF s
<1>2. DOMAIN s.pieces = Piece /\ s.pieces = [a \in Piece |-> s.pieces[a]]
  <2>1. ps = [a \in Piece |-> ps[a]] BY DEF PiecesMake
  <2> QED BY <1>1, <2>1
<1>3. \A a \in Piece : PieceInv(s.pieces[a], a) BY <1>1 DEF PiecesMake
<1>4. s \in TorrentRecord
  <2>1. /\ s.state \in State /\ s.left \in -1..Size /\ s.end_mode \in BOOLEAN /\ s.validate \in BOOLEAN
        /\ s.hashed \in {NoHasher} \cup 0..Pieces
    BY <1>1 DEF StateMake
  <2>2. s.links \in [Link -> LinkRecord] BY <1>1 DEF LinksMake
  <2> QED BY <1>1, <1>2, <1>3, <2>1, <2>2, MakeTorrent
<1>5. is_open(s) <=> opened(st) BY <1>1 DEF is_open, opened
<1>6. \A a \in Piece : s.pieces[a].peers = owners(s, Link, a) BY <1>1 DEF PiecesMake, owners
<1>7. LinksInv(s)
  <2>1. \A l \in Link : /\ s.links[l].state = "none" => s.links[l] = NoLink
                        /\ s.links[l].state = "ready" => s.hashed = NoHasher
                        /\ ~is_open(s) => s.links[l] = NoLink
    BY <1>1, <1>5 DEF LinksMake
  <2>2. /\ ~is_open(s) => s.hashed = NoHasher
        /\ is_open(s) => (s.validate <=> s.hashed # NoHasher)
    BY <1>1, <1>5 DEF StateMake
  <2> QED BY <2>1, <2>2 DEF LinksInv
<1>8. Told(s) BY <1>1 DEF Told, LinksMake, valid_pieces
<1>9. is_open(s) /\ s.hashed = NoHasher => s.left = invalid_size(s.pieces)
  BY <1>1, <1>5 DEF StateMake
<1>10. TorrentInv(s) BY <1>3, <1>4, <1>6, <1>7, <1>8, <1>9 DEF TorrentInv
<1> QED BY <1>10 DEF s

\* The parts of a torrent that keeps the invariant.
LEMMA Made ==
  ASSUME NEW t, TorrentInv(t)
  PROVE  /\ t = made(t.state, t.pieces, t.left, t.end_mode, t.validate, t.hashed, t.links)
         /\ t.end_mode \in BOOLEAN /\ PiecesMake(t.pieces, t.links)
         /\ LinksMake(t.links, t.pieces, t.hashed, t.state)
         /\ StateMake(t.state, t.pieces, t.left, t.validate, t.hashed)
<1>1. /\ Fields(t) /\ t.state \in State /\ t.left \in -1..Size /\ t.end_mode \in BOOLEAN
      /\ t.validate \in BOOLEAN /\ t.hashed \in {NoHasher} \cup 0..Pieces
  BY TorrentFields DEF TorrentInv
<1>2. PiecesFit(t.pieces, t.links, t) /\ LinksFit(t.links, t) BY Parts
<1>3. is_open(t) <=> opened(t.state) BY DEF is_open, opened
<1>4. t = made(t.state, t.pieces, t.left, t.end_mode, t.validate, t.hashed, t.links)
  BY <1>1 DEF Fields, made
<1>5. PiecesMake(t.pieces, t.links)
  <2> DEFINE ps == t.pieces
  <2>1. ps = [a \in Piece |-> ps[a]] BY <1>2 DEF PiecesFit
  <2>2. \A a \in Piece : PieceInv(ps[a], a) /\ ps[a].peers = Cardinality({m \in Link : a \in t.links[m].has})
    BY <1>2 DEF PiecesFit
  <2> QED BY <2>1, <2>2 DEF PiecesMake
<1>6. LinksMake(t.links, t.pieces, t.hashed, t.state)
  BY <1>2, <1>3 DEF LinksFit, LinksMake, valid_pieces
<1>7. StateMake(t.state, t.pieces, t.left, t.validate, t.hashed)
  BY <1>1, <1>3 DEF StateMake, TorrentInv, LinksInv
<1> QED BY <1>1, <1>4, <1>5, <1>6, <1>7

LEMMA SameInvalid ==
  ASSUME NEW ps, NEW qs, \A c \in Piece : qs[c].valid = ps[c].valid
  PROVE  invalid_size(qs) = invalid_size(ps) /\ valid_among(qs) = valid_among(ps)
<1>1. \A c \in Chunk : c[1] \in Piece BY DEF Chunk
<1>2. {c \in Chunk : ~qs[c[1]].valid} = {c \in Chunk : ~ps[c[1]].valid} BY <1>1
<1> QED BY <1>2 DEF invalid_size, valid_among

LEMMA FewerInvalid ==
  ASSUME NEW ps, NEW qs, NEW a \in Piece, ~ps[a].valid, qs[a].valid,
         \A c \in Piece : c # a => qs[c].valid = ps[c].valid
  PROVE  /\ invalid_size(qs) = invalid_size(ps) - SubPieces[a] /\ invalid_size(qs) \in 0..Size
         /\ valid_among(qs) = valid_among(ps) \cup {a}
<1> DEFINE P == {c \in Chunk : ~ps[c[1]].valid}
           Q == {c \in Chunk : ~qs[c[1]].valid}
           S == {c \in Chunk : c[1] = a}
<1>1. \A c \in Chunk : c[1] \in Piece BY DEF Chunk
<1>2. Q = P \ S /\ P \cap S = S /\ Q \subseteq Chunk /\ P \subseteq Chunk BY <1>1
<1>3. Cardinality(S) = SubPieces[a] BY PieceChunks
<1>4. invalid_size(ps) = Cardinality(P) /\ invalid_size(qs) = Cardinality(Q) BY DEF invalid_size
<1>5. valid_among(qs) = valid_among(ps) \cup {a} BY DEF valid_among
<1> HIDE DEF P, Q, S
<1>6. IsFiniteSet(P) BY <1>2, ChunkFinite, FS_Subset
<1>7. Cardinality(Q) = Cardinality(P) - Cardinality(S)
  <2>1. Cardinality(P \ S) = Cardinality(P) - Cardinality(P \cap S) BY <1>6, FS_Difference
  <2> QED BY <1>2, <2>1
<1>8. Cardinality(Q) \in 0..Size
  <2>1. IsFiniteSet(Q) /\ Cardinality(Q) <= Cardinality(Chunk) BY <1>2, ChunkFinite, FS_Subset
  <2> QED BY <2>1, ChunkFinite, FS_CardinalityType DEF Size
<1> QED BY <1>3, <1>4, <1>5, <1>7, <1>8

\* The peer of link l has more pieces.
LEMMA RemoteHas ==
  ASSUME NEW t, TorrentInv(t), NEW l \in Link, t.links[l].state = "ready", NEW new \in SUBSET Piece,
         new \cap t.links[l].has = {}, NEW goal \in BOOLEAN, NEW s,
         s = [t EXCEPT !.pieces = [a \in Piece |-> IF a \in new THEN more_peers(t.pieces[a], 1)
                                                   ELSE t.pieces[a]],
                       !.links[l].has = t.links[l].has \cup new, !.links[l].goal = goal]
  PROVE  Safe(s, t)
<1> DEFINE ps == [a \in Piece |-> IF a \in new THEN more_peers(t.pieces[a], 1) ELSE t.pieces[a]]
           has == t.links[l].has \cup new
           k == [t.links[l] EXCEPT !.has = has, !.goal = goal]
           ks == [t.links EXCEPT ![l] = k]
<1>1. Fields(t) /\ PiecesFit(t.pieces, t.links, t) /\ LinksFit(t.links, t) BY Parts
<1>2. t.links[l] \in LinkRecord /\ t.links \in [Link -> LinkRecord] BY <1>1 DEF LinksFit
<1>3. s = reshaped(t, ps, ks)
  <2> DEFINE js == [t.links EXCEPT ![l].has = has, ![l].goal = goal]
  <2>1. s = [t EXCEPT !.pieces = ps, !.links[l].has = has, !.links[l].goal = goal] OBVIOUS
  <2> HIDE DEF has, ps, k, ks
  <2>2. s = [t EXCEPT !.pieces = ps, !.links = js] BY <1>1, <2>1 DEF Fields
  <2>3. js = ks
    <3>1. DOMAIN js = DOMAIN ks BY DEF ks
    <3>2. \A m \in Link : js[m] = ks[m] BY <1>2 DEF ks, k
    <3> QED BY <1>2, <3>1, <3>2 DEF ks
  <2> QED BY <2>2, <2>3 DEF reshaped
<1>4. k \in LinkRecord /\ k.has = has /\ k.state = "ready" /\ k.asked = t.links[l].asked
      /\ k.told = t.links[l].told /\ k.haves = t.links[l].haves
  <2>1. has \in SUBSET Piece BY <1>2 DEF LinkRecord
  <2> HIDE DEF has
  <2> QED BY <1>2, <2>1 DEF LinkRecord
<1> HIDE DEF k
<1>5. \A m \in Link : ks[m] = IF m = l THEN k ELSE t.links[m] BY <1>2
<1> HIDE DEF ks
<1>6. LinksFit(ks, t)
  <2>1. valid_pieces(t) \subseteq k.told \cup k.haves \cup k.has BY <1>1, <1>4 DEF LinksFit
  <2>2. LinksFit([t.links EXCEPT ![l] = k], t) BY <1>4, <2>1, OneLink
  <2> QED BY <2>2 DEF ks
<1>7. ASSUME NEW a \in Piece
      PROVE  /\ PieceInv(ps[a], a) /\ ps[a].valid = t.pieces[a].valid /\ ps[a].subs = t.pieces[a].subs
             /\ ps[a].peers = Cardinality({m \in Link : a \in ks[m].has})
  <2> DEFINE all == {m \in Link : a \in t.links[m].has}
             more == {m \in Link : a \in ks[m].has}
             p == t.pieces[a]
  <2>1. PieceInv(p, a) /\ p.peers = Cardinality(all) BY <1>1 DEF PiecesFit
  <2>2. p.peers + 1 \in Nat
    <3>1. p.peers \in Nat BY <2>1, PieceFields DEF PieceInv
    <3> QED BY <3>1
  <2>3. CASE a \in new
    <3>1. more = all \cup {l} /\ l \notin all BY <1>4, <1>5, <2>3
    <3>2. IsFiniteSet(all)
      <4>1. all \subseteq Link OBVIOUS
      <4> HIDE DEF all
      <4> QED BY <4>1, DownloadAssumption, FS_Subset
    <3>3. ps[a] = more_peers(p, 1) BY <2>3
    <3> HIDE DEF all, more, p, ps
    <3>4. Cardinality(more) = p.peers + 1 BY <2>1, <3>1, <3>2, FS_AddElement
    <3>5. PieceInv(more_peers(p, 1), a) /\ more_peers(p, 1).valid = p.valid
          /\ more_peers(p, 1).subs = p.subs /\ more_peers(p, 1).peers = p.peers + 1
      BY <2>1, <2>2, MorePeers
    <3> QED BY <3>3, <3>4, <3>5 DEF more, p
  <2>4. CASE a \notin new
    <3>1. more = all BY <1>4, <1>5, <2>4
    <3>2. ps[a] = p BY <2>4
    <3> QED BY <2>1, <3>1, <3>2
  <2> QED BY <2>3, <2>4
<1>8. ps = [a \in Piece |-> ps[a]] OBVIOUS
<1> HIDE DEF ps
<1>9. PiecesFit(ps, ks, t) BY <1>7, <1>8 DEF PiecesFit
<1>10. TorrentInv(s) /\ Kept(s, t) /\ s.pieces = ps /\ s.links = ks
  <2> DEFINE r == reshaped(t, ps, ks)
  <2>1. TorrentInv(r) /\ Kept(r, t) /\ r.pieces = ps /\ r.links = ks BY <1>6, <1>9, Reshape
  <2>2. s = r BY <1>3
  <2> HIDE DEF r
  <2> QED BY <2>1, <2>2
<1>11. \A m \in Link : ks[m].asked = t.links[m].asked /\ ks[m].state = t.links[m].state
  BY <1>4, <1>5
<1>12. ASSUME Reserved(t), NEW a \in Piece, NEW b \in DOMAIN s.pieces[a].subs,
              NEW m \in s.pieces[a].subs[b].peers
       PROVE  s.links[m].state = "ready" /\ s.links[m].asked[<<a, b>>] > 0
  <2>1. b \in DOMAIN t.pieces[a].subs /\ m \in t.pieces[a].subs[b].peers BY <1>7, <1>10
  <2>2. t.links[m].state = "ready" /\ t.links[m].asked[<<a, b>>] > 0 BY <1>12, <2>1 DEF Reserved
  <2>3. m \in Link BY <2>1, ReservedLinks
  <2> QED BY <1>10, <1>11, <2>2, <2>3
<1> QED BY <1>10, <1>12 DEF Safe, Reserved

\* What a written sub-piece makes of a torrent.
Written(s, t, c, content) ==
  /\ TorrentInv(s) /\ is_open(s) /\ s.hashed = NoHasher /\ s.validate = t.validate
  /\ c[1] \notin valid_pieces(t)
  /\ \/ valid_pieces(s) = valid_pieces(t)
     \/ valid_pieces(s) = valid_pieces(t) \cup {c[1]} /\ good(content, c[1])
  /\ \A m \in Link : s.links[m].state = t.links[m].state /\ s.links[m].asked = t.links[m].asked
  /\ \A a \in Piece : \A b \in DOMAIN s.pieces[a].subs :
       /\ b \in DOMAIN t.pieces[a].subs
       /\ s.pieces[a].subs[b] = t.pieces[a].subs[b] \/ s.pieces[a].subs[b].peers = {}
       /\ a = c[1] /\ b = c[2] => s.pieces[a].subs[b].peers = {}

LEMMA WriteData ==
  ASSUME NEW t, TorrentInv(t), is_open(t), t.hashed = NoHasher, NEW c \in Chunk,
         accepts(t.pieces[c[1]], c[2]), NEW content, NEW wrote
  PROVE  Written(write_data(t, c, content, wrote), t, c, content)
<1> DEFINE a == c[1]
           q == piece_write(t.pieces[a], c[2])
           v == hash_ok(content, c)
           j == piece_valid(q, a, v)
           st == IF wrote THEN t.state ELSE "paused"
           ps == [t.pieces EXCEPT ![a] = q]
           js == [t.pieces EXCEPT ![a] = j]
           ks == [m \in Link |-> queue_have(t.links[m], a)]
           n == t.left - SubPieces[a]
           s == write_data(t, c, content, wrote)
           written == [t EXCEPT !.state = st, !.pieces[a] = q]
           judged == [written EXCEPT !.pieces[a] = j]
           counted == [judged EXCEPT !.left = n, !.links = ks]
           x == made(st, ps, t.left, t.end_mode, t.validate, t.hashed, t.links)
           y == made(st, js, t.left, t.end_mode, t.validate, t.hashed, t.links)
           z == made(st, js, n, t.end_mode, t.validate, t.hashed, ks)
<1>1. /\ a \in Piece /\ PieceInv(t.pieces[a], a) /\ Fields(t) /\ t.end_mode \in BOOLEAN
      /\ PiecesMake(t.pieces, t.links) /\ LinksMake(t.links, t.pieces, t.hashed, t.state)
      /\ StateMake(t.state, t.pieces, t.left, t.validate, t.hashed) /\ v \in BOOLEAN
  <2>1. a \in Piece BY DEF Chunk
  <2>2. v \in BOOLEAN BY DEF hash_ok, good
  <2> QED BY <2>1, <2>2, Parts, Made
<1>2. DOMAIN t.pieces = Piece
  <2>1. t.pieces = [d \in Piece |-> t.pieces[d]] BY <1>1 DEF PiecesMake
  <2> QED BY <2>1
<1>3. /\ s = IF q.left > 0 THEN written ELSE IF ~v THEN judged ELSE counted
      /\ v <=> good(content, a)
  <2>1. s = IF q.left > 0 THEN written ELSE IF ~v THEN judged
            ELSE [judged EXCEPT !.left = judged.left - SubPieces[a],
                                !.links = [m \in Link |-> queue_have(judged.links[m], a)]]
    BY DEF write_data
  <2>2. judged.left = t.left /\ judged.links = t.links BY <1>1 DEF Fields
  <2> HIDE DEF judged, written
  <2>3. v <=> good(content, a) BY DEF hash_ok
  <2> QED BY <2>1, <2>2, <2>3
<1> HIDE DEF s, q, v
<1> HIDE DEF j, st, a
<1>4. written = x
  <2> DEFINE r == [t EXCEPT !.state = st]
  <2>1. r = made(st, t.pieces, t.left, t.end_mode, t.validate, t.hashed, t.links)
    BY <1>1 DEF Fields, made
  <2>2. written = [r EXCEPT !.pieces[a] = q] OBVIOUS
  <2> HIDE DEF r, written
  <2>3. written = [r EXCEPT !.pieces = ps] BY <2>1, <2>2 DEF made
  <2> HIDE DEF ps
  <2> QED BY <2>1, <2>3 DEF made
<1>5. judged = y
  <2>1. judged = [x EXCEPT !.pieces[a] = j] BY <1>4
  <2>2. [ps EXCEPT ![a] = j] = js BY <1>1, <1>2
  <2> HIDE DEF ps, js
  <2> QED BY <2>1, <2>2 DEF made
<1>6. counted = z
  <2> DEFINE r == [judged EXCEPT !.left = n]
  <2>1. counted = [r EXCEPT !.links = ks] OBVIOUS
  <2> HIDE DEF judged, n, ks, js, counted
  <2>2. r = made(st, js, n, t.end_mode, t.validate, t.hashed, t.links) BY <1>5 DEF made
  <2> HIDE DEF r
  <2> QED BY <2>1, <2>2 DEF made
<1> HIDE DEF written, judged, counted
<1>7. /\ q.peers = t.pieces[a].peers /\ q.valid = FALSE /\ t.pieces[a].valid = FALSE
      /\ q.left > 0 => PieceInv(q, a)
      /\ ~(q.left > 0) => /\ PieceInv(j, a) /\ j.valid = v /\ j.peers = t.pieces[a].peers
                          /\ j.subs = NoSubs
      /\ \A b \in DOMAIN q.subs : /\ q.subs[b] = t.pieces[a].subs[b] \/ q.subs[b].peers = {}
                                  /\ b = c[2] => q.subs[b].peers = {}
      /\ DOMAIN q.subs \subseteq DOMAIN t.pieces[a].subs
  <2> DEFINE p == t.pieces[a]
             b == c[2]
             w == piece_write(p, b)
  <2>1. accepts(p, b) BY DEF a
  <2>2. PieceInv(p, a) BY <1>1
  <2>3. q = w BY DEF q, a
  <2> HIDE DEF p, b
  <2>4. /\ w.peers = p.peers /\ w.valid = FALSE /\ p.valid = FALSE
        /\ w.left > 0 => PieceInv(w, a)
        /\ ~(w.left > 0) => \A u \in BOOLEAN :
             /\ PieceInv(piece_valid(w, a, u), a)
             /\ piece_valid(w, a, u).valid = u /\ piece_valid(w, a, u).peers = p.peers
             /\ piece_valid(w, a, u).subs = NoSubs
        /\ \A d \in DOMAIN w.subs : /\ w.subs[d] = p.subs[d] \/ w.subs[d].peers = {}
                                    /\ d = b => w.subs[d].peers = {}
        /\ DOMAIN w.subs \subseteq DOMAIN p.subs
    BY <1>1, <2>1, <2>2, Write
  <2> HIDE DEF w
  <2>5. ~(q.left > 0) => /\ PieceInv(j, a) /\ j.valid = v /\ j.peers = p.peers /\ j.subs = NoSubs
    BY <1>1, <2>3, <2>4 DEF j
  <2> QED BY <2>3, <2>4, <2>5 DEF p, b
<1>8. /\ \A d \in Piece : ps[d] = IF d = a THEN q ELSE t.pieces[d]
      /\ \A d \in Piece : js[d] = IF d = a THEN j ELSE t.pieces[d]
      /\ ps = [d \in Piece |-> ps[d]] /\ js = [d \in Piece |-> js[d]]
  BY <1>2
<1> HIDE DEF ps, js
<1>9. opened(t.state) /\ opened(st) /\ st \in State /\ t.validate = FALSE
  <2>1. opened(t.state) /\ t.state \in State BY <1>1 DEF opened, is_open, StateMake
  <2>2. t.validate = FALSE BY <1>1, <2>1 DEF StateMake
  <2> QED BY <2>1, <2>2 DEF opened, st, State
<1>10. a \notin valid_pieces(t) BY <1>7 DEF valid_pieces, valid_among
<1>11. ASSUME q.left > 0 PROVE Written(s, t, c, content)
  <2>1. \A d \in Piece : ps[d].valid = t.pieces[d].valid BY <1>7, <1>8
  <2>2. invalid_size(ps) = invalid_size(t.pieces) /\ valid_among(ps) = valid_among(t.pieces)
    BY <2>1, SameInvalid
  <2>3. PiecesMake(ps, t.links) BY <1>1, <1>7, <1>8, <1>11 DEF PiecesMake
  <2>4. LinksMake(t.links, ps, t.hashed, st) BY <1>1, <1>9, <2>2 DEF LinksMake
  <2>5. StateMake(st, ps, t.left, t.validate, t.hashed) BY <1>1, <1>9, <2>2 DEF StateMake
  <2>6. TorrentInv(x) BY <1>1, <2>3, <2>4, <2>5, Make
  <2>7. /\ s.pieces = ps /\ s.links = t.links /\ s.state = st /\ s.hashed = t.hashed
        /\ s.validate = t.validate /\ TorrentInv(s)
    <3>1. s = x BY <1>3, <1>4, <1>11
    <3> QED BY <2>6, <3>1 DEF made
  <2>8. valid_pieces(s) = valid_pieces(t) BY <2>2, <2>7 DEF valid_pieces
  <2>9. \A d \in Piece : \A b \in DOMAIN s.pieces[d].subs :
       /\ b \in DOMAIN t.pieces[d].subs
       /\ s.pieces[d].subs[b] = t.pieces[d].subs[b] \/ s.pieces[d].subs[b].peers = {}
       /\ d = a /\ b = c[2] => s.pieces[d].subs[b].peers = {}
    BY <1>7, <1>8, <2>7
  <2>10. is_open(s) BY <1>9, <2>7 DEF is_open, opened
  <2> QED BY <1>10, <2>7, <2>8, <2>9, <2>10 DEF Written, a
<1>12. ASSUME ~(q.left > 0) /\ ~v PROVE Written(s, t, c, content)
  <2>1. \A d \in Piece : js[d].valid = t.pieces[d].valid BY <1>1, <1>7, <1>8, <1>12
  <2>2. invalid_size(js) = invalid_size(t.pieces) /\ valid_among(js) = valid_among(t.pieces)
    BY <2>1, SameInvalid
  <2>3. PiecesMake(js, t.links) BY <1>1, <1>7, <1>8, <1>12 DEF PiecesMake
  <2>4. LinksMake(t.links, js, t.hashed, st) BY <1>1, <1>9, <2>2 DEF LinksMake
  <2>5. StateMake(st, js, t.left, t.validate, t.hashed) BY <1>1, <1>9, <2>2 DEF StateMake
  <2>6. TorrentInv(y) BY <1>1, <2>3, <2>4, <2>5, Make
  <2>7. /\ s.pieces = js /\ s.links = t.links /\ s.state = st /\ s.hashed = t.hashed
        /\ s.validate = t.validate /\ TorrentInv(s)
    <3>1. s = y BY <1>3, <1>5, <1>12
    <3> QED BY <2>6, <3>1 DEF made
  <2>8. valid_pieces(s) = valid_pieces(t) BY <2>2, <2>7 DEF valid_pieces
  <2>9. \A d \in Piece : \A b \in DOMAIN s.pieces[d].subs :
       /\ b \in DOMAIN t.pieces[d].subs
       /\ s.pieces[d].subs[b] = t.pieces[d].subs[b] \/ s.pieces[d].subs[b].peers = {}
       /\ d = a /\ b = c[2] => s.pieces[d].subs[b].peers = {}
    BY <1>7, <1>8, <1>12, <2>7, NoSubsEmpty
  <2>10. is_open(s) BY <1>9, <2>7 DEF is_open, opened
  <2> QED BY <1>10, <2>7, <2>8, <2>9, <2>10 DEF Written, a
<1>13. ASSUME ~(q.left > 0) /\ v PROVE Written(s, t, c, content)
  <2>1. /\ ~t.pieces[a].valid /\ js[a].valid
        /\ \A d \in Piece : d # a => js[d].valid = t.pieces[d].valid
    BY <1>1, <1>7, <1>8, <1>13
  <2>2. /\ invalid_size(js) = invalid_size(t.pieces) - SubPieces[a] /\ invalid_size(js) \in 0..Size
        /\ valid_among(js) = valid_among(t.pieces) \cup {a}
    BY <1>1, <2>1, FewerInvalid
  <2>3. n = invalid_size(js) BY <1>1, <1>9, <2>2 DEF StateMake
  <2>4. ASSUME NEW m \in Link
        PROVE  /\ ks[m] \in LinkRecord /\ ks[m].has = t.links[m].has
               /\ ks[m].state = t.links[m].state /\ ks[m].asked = t.links[m].asked
               /\ ks[m].told = t.links[m].told
               /\ t.links[m].state = "none" => ks[m] = t.links[m]
               /\ t.links[m].state = "ready" => ks[m].haves = t.links[m].haves \cup {a}
    <3> DEFINE haves == t.links[m].haves \cup {a}
    <3>1. t.links[m] \in LinkRecord BY <1>1 DEF LinksMake
    <3>2. haves \in SUBSET Piece BY <1>1, <3>1 DEF LinkRecord
    <3>3. ks[m] = IF t.links[m].state = "none" THEN t.links[m] ELSE [t.links[m] EXCEPT !.haves = haves]
      BY DEF queue_have
    <3> HIDE DEF haves, ks
    <3>4. CASE t.links[m].state = "none" BY <3>1, <3>3, <3>4
    <3>5. CASE t.links[m].state # "none"
      <4>1. ks[m] = [t.links[m] EXCEPT !.haves = haves] BY <3>3, <3>5
      <4>2. /\ ks[m].has = t.links[m].has
            /\ ks[m].state = t.links[m].state /\ ks[m].asked = t.links[m].asked
            /\ ks[m].told = t.links[m].told /\ ks[m].haves = haves
        BY <3>1, <4>1 DEF LinkRecord
      <4>3. ks[m] \in LinkRecord BY <3>1, <3>2, <4>1 DEF LinkRecord
      <4> QED BY <3>5, <4>2, <4>3 DEF haves
    <3> QED BY <3>4, <3>5
  <2>5. ks = [m \in Link |-> ks[m]] OBVIOUS
  <2> HIDE DEF ks, n
  <2>6. PiecesMake(js, ks)
    <3>1. ASSUME NEW d \in Piece PROVE PieceInv(js[d], d) /\ js[d].peers = Cardinality({m \in Link : d \in ks[m].has})
      <4>1. {m \in Link : d \in ks[m].has} = {m \in Link : d \in t.links[m].has} BY <2>4
      <4> QED BY <1>1, <1>7, <1>8, <1>13, <4>1, ZenonT(120) DEF PiecesMake
    <3> QED BY <1>8, <3>1 DEF PiecesMake
  <2>7. LinksMake(ks, js, t.hashed, st)
    <3>1. ks \in [Link -> LinkRecord] BY <2>4, <2>5
    <3>2. ASSUME NEW m \in Link
          PROVE  /\ ks[m].state = "none" => ks[m] = NoLink
                 /\ ks[m].state = "ready" =>
                      valid_among(js) \subseteq ks[m].told \cup ks[m].haves \cup ks[m].has
      BY <1>1, <2>2, <2>4 DEF LinksMake
    <3> QED BY <1>9, <3>1, <3>2 DEF LinksMake
  <2>8. StateMake(st, js, n, t.validate, t.hashed)
    <3>1. n \in -1..Size BY <2>2, <2>3, ChunkFinite
    <3> QED BY <1>1, <1>9, <2>3, <3>1 DEF StateMake
  <2>9. TorrentInv(z) BY <1>1, <2>6, <2>7, <2>8, Make
  <2>10. /\ s.pieces = js /\ s.links = ks /\ s.state = st /\ s.hashed = t.hashed
         /\ s.validate = t.validate /\ TorrentInv(s)
    <3>1. s = z BY <1>3, <1>6, <1>13
    <3> QED BY <2>9, <3>1 DEF made
  <2>11. valid_pieces(s) = valid_pieces(t) \cup {a} /\ good(content, a)
    BY <1>3, <1>13, <2>2, <2>10 DEF valid_pieces
  <2>12. \A d \in Piece : \A b \in DOMAIN s.pieces[d].subs :
       /\ b \in DOMAIN t.pieces[d].subs
       /\ s.pieces[d].subs[b] = t.pieces[d].subs[b] \/ s.pieces[d].subs[b].peers = {}
       /\ d = a /\ b = c[2] => s.pieces[d].subs[b].peers = {}
    BY <1>7, <1>8, <1>13, <2>10, NoSubsEmpty
  <2>13. is_open(s) BY <1>9, <2>10 DEF is_open, opened
  <2> QED BY <1>10, <2>4, <2>10, <2>11, <2>12, <2>13 DEF Written, a
<1> QED BY <1>11, <1>12, <1>13 DEF s

-----------------------------------------------------------------------------
(* The steps of the specification.                                         *)

\* Nothing is given back to the budget.
Budgeted == budget' \in [Kind -> Nat] /\ \A k \in Kind : budget'[k] <= budget[k]

LEMMA Spend ==
  ASSUME Inv, NEW kind \in Kind, spend(kind)
  PROVE  Budgeted /\ budget'[kind] < Budget[kind]
<1>1. budget \in [Kind -> Nat] /\ \A k \in Kind : budget[k] <= Budget[k] BY DEF Inv
<1>2. budget[kind] > 0 /\ budget' = [budget EXCEPT ![kind] = budget[kind] - 1] BY DEF spend
<1>3. Budget \in [Kind -> Nat] BY DownloadAssumption
<1>4. budget' \in [Kind -> Nat] /\ \A k \in Kind : budget'[k] <= budget[k] BY <1>1, <1>2
<1>5. budget'[kind] < Budget[kind]
  <2>1. budget'[kind] = budget[kind] - 1 BY <1>1, <1>2
  <2>2. budget[kind] \in Nat /\ Budget[kind] \in Nat /\ budget[kind] <= Budget[kind] BY <1>1, <1>3
  <2> QED BY <2>1, <2>2
<1> QED BY <1>4, <1>5 DEF Budgeted

LEMMA NoSpend == Inv /\ UNCHANGED budget => Budgeted
<1> SUFFICES ASSUME Inv, UNCHANGED budget PROVE Budgeted
  OBVIOUS
<1>1. budget' \in [Kind -> Nat] /\ budget' = budget BY DEF Inv
<1>2. \A k \in Kind : budget'[k] <= budget[k] BY <1>1
<1> QED BY <1>1, <1>2 DEF Budgeted

\* What is still untouched after a step was so before it.
LEMMA Untouched ==
  ASSUME Inv, Budgeted
  PROVE  /\ \A k \in Kind : budget'[k] <= Budget[k]
         /\ \A k \in Kind : budget'[k] = Budget[k] => budget[k] = Budget[k]
         /\ (Intact' => Intact) /\ (Sure' => Sure)
<1>1. /\ \A k \in Kind : budget[k] \in Nat /\ budget'[k] \in Nat /\ Budget[k] \in Nat
      /\ \A k \in Kind : budget[k] <= Budget[k] /\ budget'[k] <= budget[k]
  BY DownloadAssumption DEF Inv, Budgeted
<1>2. /\ \A k \in Kind : budget'[k] <= Budget[k]
      /\ \A k \in Kind : budget'[k] = Budget[k] => budget[k] = Budget[k]
  BY <1>1
<1>3. "lose" \in Kind /\ "crash" \in Kind BY DEF Kind
<1> QED BY <1>2, <1>3 DEF Intact, Sure

\* Most steps leave the data and what is called valid alone.
Same(s, t) ==
  /\ TorrentInv(s) /\ (Reserved(t) => Reserved(s)) /\ (is_open(s) <=> is_open(t))
  /\ s.left = t.left /\ s.validate = t.validate /\ s.hashed = t.hashed
  /\ \A a \in Piece : s.pieces[a].valid = t.pieces[a].valid

LEMMA Steady ==
  ASSUME Inv, up, Same(torrent', torrent), Budgeted, UNCHANGED <<disk, saved, up>>, turn' \in SUBSET Link
  PROVE  Inv'
<1>1. TorrentInv(torrent') /\ (Reserved(torrent) => Reserved(torrent')) BY DEF Same
<1>2. /\ \A k \in Kind : budget'[k] <= Budget[k]
      /\ \A k \in Kind : budget'[k] = Budget[k] => budget[k] = Budget[k]
      /\ (Intact' => Intact) /\ (Sure' => Sure)
  BY Untouched
<1>3. /\ valid_pieces(torrent') = valid_pieces(torrent) /\ (is_open(torrent') <=> is_open(torrent))
      /\ torrent'.validate = torrent.validate /\ torrent'.hashed = torrent.hashed
      /\ torrent'.left = torrent.left
  BY DEF Same, valid_pieces, valid_among
<1>4. HashInv'
  <2>1. \A c \in Chunk : c[1] \in Piece BY DEF Chunk
  <2>2. {c \in Chunk : c[1] <= torrent.hashed /\ ~torrent'.pieces[c[1]].valid}
          = {c \in Chunk : c[1] <= torrent.hashed /\ ~torrent.pieces[c[1]].valid}
    BY <2>1 DEF Same
  <2>3. \A a \in Piece : good(disk', a) = good(disk, a) OBVIOUS
  <2> QED BY <1>3, <2>2, <2>3 DEF HashInv, Inv, Same
<1>5. DataInv'
  <2>1. (Gone' <=> Gone) /\ \A x : (\A a \in x : good(disk', a)) <=> (\A a \in x : good(disk, a))
    BY DEF Gone
  <2>2. DataInv BY DEF Inv
  <2> QED BY <1>2, <1>3, <2>1, <2>2 DEF DataInv, AllGood
<1>6. SavedInv' BY DEF SavedInv, Inv
<1>7. budget'["odd"] = Budget["odd"] => Reserved(torrent')
  <2>1. "odd" \in Kind BY DEF Kind
  <2> QED BY <1>1, <1>2, <2>1 DEF Inv
<1>8. disk' \in [Chunk -> {"none", "good", "bad"}] /\ up' \in BOOLEAN /\ up' BY DEF Inv
<1> QED BY <1>1, <1>2, <1>4, <1>5, <1>6, <1>7, <1>8 DEF Inv, Budgeted

LEMMA Quiet ==
  ASSUME Inv, up, Safe(torrent', torrent), Budgeted, UNCHANGED <<disk, saved, up>>, turn' \in SUBSET Link
  PROVE  Inv'
<1>1. Same(torrent', torrent) BY DEF Safe, Kept, Same, is_open
<1> QED BY <1>1, Steady

\* A link's turn, but for the data it may bring.
LEMMA QuietTurn ==
  ASSUME Inv, NEW l \in Link,
         \/ read_handshake(l) \/ read_choke(l) \/ read_unchoke(l) \/ drop(l) \/ finish_turn(l)
         \/ \E new \in SUBSET Piece \ {{}} : remote_has(l, new)
         \/ \E expired \in SUBSET expirable(torrent, l) : timer_turn(l, expired)
  PROVE  Inv'
<1> DEFINE told == torrent.links[l].told \cup (torrent.links[l].haves \ torrent.links[l].has)
           goal == torrent.links[l].goal
<1>1. TorrentInv(torrent) BY DEF Inv
<1>2. /\ torrent.links[l] \in LinkRecord /\ told \in SUBSET Piece /\ goal \in BOOLEAN
  <2>1. torrent.links[l] \in LinkRecord BY <1>1, Parts
  <2> QED BY <2>1 DEF LinkRecord
<1>3. UNCHANGED budget => Budgeted BY NoSpend
<1>4. turn' = {} \/ turn' = {l} => turn' \in SUBSET Link OBVIOUS
<1> HIDE DEF told, goal
<1>5. ASSUME read_handshake(l) PROVE Inv'
  <2>1. Safe(torrent', torrent) BY <1>1, <1>5, Handshake DEF read_handshake, at_turn
  <2> QED BY <1>3, <1>4, <1>5, <2>1, Quiet DEF read_handshake, at_turn, in_turn
<1>6. ASSUME read_choke(l) PROVE Inv'
  <2>1. torrent.links[l].state # "none" BY <1>6 DEF read_choke, ready
  <2>2. Safe([torrent EXCEPT !.links[l].choked = TRUE, !.links[l].pending = 0], torrent)
    BY <1>1, <1>2, <2>1, LinkUpdates DEF told
  <2>3. Safe(torrent', torrent) BY <1>6, <2>2 DEF read_choke
  <2>4. Budgeted
    <3>1. "choke" \in Kind BY DEF Kind
    <3> QED BY <1>6, <3>1, Spend DEF read_choke
  <2> QED BY <1>4, <1>6, <2>3, <2>4, Quiet DEF read_choke, ready, at_turn, in_turn
<1>7. ASSUME read_unchoke(l) PROVE Inv'
  <2>1. torrent.links[l].state # "none" BY <1>7 DEF read_unchoke, ready
  <2>2. Safe([torrent EXCEPT !.links[l].choked = FALSE], torrent)
    BY <1>1, <1>2, <2>1, LinkUpdates DEF told
  <2>3. Safe(torrent', torrent) BY <1>7, <2>2 DEF read_unchoke
  <2> QED BY <1>3, <1>4, <1>7, <2>3, Quiet DEF read_unchoke, ready, at_turn, in_turn
<1>8. ASSUME drop(l) PROVE Inv'
  <2>1. {l} \in SUBSET Link OBVIOUS
  <2>2. Safe(torrent', torrent) BY <1>1, <1>8, <2>1, CloseLinks DEF drop, close_link
  <2>3. Budgeted
    <3>1. "drop" \in Kind BY DEF Kind
    <3> QED BY <1>8, <3>1, Spend DEF drop
  <2> QED BY <1>4, <1>8, <2>2, <2>3, Quiet DEF drop, at_turn
<1>9. ASSUME NEW t, Safe(t, torrent), t.links[l].state = "ready", up, finish(l, t), turn' = {},
             UNCHANGED <<disk, saved, up, budget>>
      PROVE  Inv'
  <2>1. PICK window \in 1..Window : \E asked \in ask_all(write_interested(t, l), l, window) :
           torrent' = sent(asked, l)
    BY <1>9 DEF finish
  <2>2. PICK asked \in ask_all(write_interested(t, l), l, window) : torrent' = sent(asked, l)
    BY <2>1
  <2>3. TorrentInv(t) BY <1>9 DEF Safe
  <2>4. Safe(torrent', t) BY <1>9, <2>2, <2>3, Finish
  <2>5. Safe(torrent', torrent) BY <1>9, <2>4, SafeTrans
  <2> QED BY <1>3, <1>4, <1>9, <2>5, Quiet
<1>10. ASSUME finish_turn(l) PROVE Inv'
  <2>1. Safe(torrent, torrent) BY <1>1 DEF Safe, Kept
  <2> QED BY <1>9, <1>10, <2>1 DEF finish_turn, ready, at_turn
<1>11. ASSUME NEW expired \in SUBSET expirable(torrent, l), timer_turn(l, expired) PROVE Inv'
  <2> DEFINE t == check_pieces(torrent, l, expired)
  <2>1. torrent.links[l].state = "ready" BY <1>11 DEF timer_turn, ready
  <2>2. Safe(t, torrent) /\ t.links[l].state = "ready" BY <1>1, <2>1, CheckPieces
  <2>3. /\ up /\ finish(l, t) /\ turn' = {} /\ UNCHANGED <<disk, saved, up, budget>>
    BY <1>11 DEF timer_turn, ready, at_turn
  <2> HIDE DEF t
  <2> QED BY <1>9, <2>2, <2>3
<1>12. ASSUME NEW new \in SUBSET Piece \ {{}}, remote_has(l, new) PROVE Inv'
  <2> DEFINE wants == ~torrent.links[l].interested /\ ~(new \subseteq valid_pieces(torrent))
             g == torrent.links[l].goal \/ wants
  <2>1. /\ torrent.links[l].state = "ready" /\ new \cap torrent.links[l].has = {} /\ new \in SUBSET Piece
    BY <1>12 DEF remote_has, ready
  <2>2. g \in BOOLEAN OBVIOUS
  <2>3. DOMAIN torrent.pieces = Piece /\ Fields(torrent) /\ torrent.links \in [Link -> LinkRecord]
    BY <1>1, Parts, TorrentFields DEF TorrentInv
  <2>4. torrent' = [torrent EXCEPT !.pieces = [a \in Piece |-> IF a \in new THEN more_peers(torrent.pieces[a], 1)
                                                               ELSE torrent.pieces[a]],
                                   !.links[l].has = torrent.links[l].has \cup new, !.links[l].goal = g]
    BY <1>12, <2>3 DEF remote_has
  <2> HIDE DEF g
  <2>5. Safe(torrent', torrent) BY <1>1, <2>1, <2>2, <2>4, RemoteHas
  <2> QED BY <1>3, <1>4, <1>12, <2>5, Quiet DEF remote_has, ready, at_turn, in_turn
<1> QED BY <1>5, <1>6, <1>7, <1>8, <1>10, <1>11, <1>12

\* A link that is made, and the haves it is told.
LEMMA QuietBetween ==
  ASSUME Inv, NEW l \in Link, connect(l) \/ write_haves(l)
  PROVE  Inv'
<1>1. TorrentInv(torrent) /\ turn \in SUBSET Link /\ UNCHANGED budget /\ up
  BY DEF Inv, connect, write_haves, idle
<1>2. Budgeted BY <1>1, NoSpend
<1>3. torrent.links[l] \in LinkRecord BY <1>1, Parts
<1>4. ASSUME connect(l) PROVE Safe(torrent', torrent)
  <2>1. torrent.links[l].state = "none" /\ is_open(torrent) BY <1>4 DEF connect, is_open
  <2> QED BY <1>1, <1>4, <2>1, Connect DEF connect
<1>5. ASSUME write_haves(l) PROVE Safe(torrent', torrent)
  <2> DEFINE k == torrent.links[l]
             told == IF k.state = "ready" THEN k.told \cup (k.haves \ k.has) ELSE k.told
  <2>1. torrent' = [torrent EXCEPT !.links[l].haves = {}, !.links[l].told = told]
    BY <1>5 DEF write_haves
  <2>2. told \in SUBSET Piece /\ (k.state = "ready" => told = k.told \cup (k.haves \ k.has))
    BY <1>3 DEF LinkRecord
  <2>3. k.state # "none"
    <3>1. k.haves # {} BY <1>5 DEF write_haves
    <3>2. k.state = "none" => k = NoLink BY <1>1 DEF TorrentInv, LinksInv
    <3> QED BY <3>1, <3>2, NoLinkType
  <2> HIDE DEF told
  <2>4. TRUE \in BOOLEAN OBVIOUS
  <2>5. Safe([torrent EXCEPT !.links[l].haves = {}, !.links[l].told = told], torrent)
    BY <1>1, <2>2, <2>3, <2>4, LinkUpdates
  <2> QED BY <2>1, <2>5
<1> QED BY <1>1, <1>2, <1>4, <1>5, Quiet DEF connect, write_haves, elsewhere

\* The answer to a request, before the data it brings are written.
LEMMA Answered ==
  ASSUME Inv, NEW l \in Link, NEW c \in Chunk, ready(l), torrent.links[l].asked[c] > 0
  PROVE  LET r == answered(l, c)
         IN /\ TorrentInv(r) /\ Kept(r, torrent) /\ r.pieces = torrent.pieces
            /\ \A m \in Link : r.links[m].state = torrent.links[m].state
            /\ \A m \in Link : \A d \in Chunk : d # c => r.links[m].asked[d] = torrent.links[m].asked[d]
<1> DEFINE t == torrent
           asked == [t.links[l].asked EXCEPT ![c] = t.links[l].asked[c] - 1]
           pending == t.links[l].pending - 1
           k == [t.links[l] EXCEPT !.asked = asked, !.pending = pending]
           r == answered(l, c)
<1>1. TorrentInv(t) /\ t.links[l].state = "ready" /\ t.links[l].asked[c] > 0 BY DEF Inv, ready
<1> HIDE DEF t
<1>2. Fields(t) /\ t.links \in [Link -> LinkRecord] /\ is_open(t) /\ t.hashed = NoHasher
  BY <1>1, Parts, OpenLink
<1>3. t.links[l] \in LinkRecord /\ t.links[l].asked \in [Chunk -> Nat] /\ t.links[l].pending \in Int
  <2>1. t.links[l] \in LinkRecord BY <1>2
  <2> QED BY <2>1 DEF LinkRecord
<1>4. asked \in [Chunk -> Nat] /\ pending \in Int /\ \A d \in Chunk : d # c => asked[d] = t.links[l].asked[d]
  BY <1>1, <1>3
<1>5. r = [t EXCEPT !.links[l] = k]
  <2>1. r = [t EXCEPT !.links[l].asked = asked, !.links[l].pending = pending]
    <3>1. r = [t EXCEPT !.links[l].asked[c] = t.links[l].asked[c] - 1, !.links[l].pending = pending]
      BY <1>2, <1>3 DEF answered, Fields, LinkRecord, t
    <3> QED BY <1>2, <1>3, <3>1 DEF Fields, LinkRecord
  <2> HIDE DEF asked, pending, r
  <2> QED BY <1>2, <1>3, <2>1 DEF Fields, LinkRecord
<1> HIDE DEF asked, pending, r
<1>6. k \in LinkRecord /\ k.has = t.links[l].has /\ k.state = "ready" /\ k.asked = asked
      /\ k.told = t.links[l].told /\ k.haves = t.links[l].haves
  <2>1. k \in LinkRecord BY <1>3, <1>4 DEF LinkRecord
  <2> QED BY <1>1, <1>3, <2>1 DEF LinkRecord
<1> HIDE DEF k
<1>7. valid_pieces(t) \subseteq k.told \cup k.haves \cup k.has BY <1>1, <1>6 DEF TorrentInv, Told
<1>8. TorrentInv(r) /\ Kept(r, t) /\ r.pieces = t.pieces /\ r.links = [t.links EXCEPT ![l] = k]
  <2> DEFINE s == [t EXCEPT !.links[l] = k]
  <2>1. TorrentInv(s) /\ Kept(s, t) /\ s.pieces = t.pieces /\ s.links = [t.links EXCEPT ![l] = k]
    BY <1>1, <1>2, <1>6, <1>7, LinkStep
  <2>2. r = s BY <1>5
  <2> HIDE DEF s
  <2> QED BY <2>1, <2>2
<1>9. \A m \in Link : r.links[m] = IF m = l THEN k ELSE t.links[m] BY <1>2, <1>8
<1>10. /\ \A m \in Link : r.links[m].state = t.links[m].state
       /\ \A m \in Link : \A d \in Chunk : d # c => r.links[m].asked[d] = t.links[m].asked[d]
  BY <1>1, <1>4, <1>6, <1>9
<1> QED BY <1>8, <1>10 DEF t, r

\* The reservations of an answered request: that sub-piece is reserved no more.
LEMMA FetchReserved ==
  ASSUME NEW t, TorrentInv(t), Reserved(t), NEW c \in Chunk, NEW s, TorrentInv(s),
         \A m \in Link : s.links[m].state = t.links[m].state,
         \A m \in Link : \A d \in Chunk : d # c => s.links[m].asked[d] = t.links[m].asked[d],
         \A a \in Piece : \A b \in DOMAIN s.pieces[a].subs :
           /\ b \in DOMAIN t.pieces[a].subs
           /\ s.pieces[a].subs[b] = t.pieces[a].subs[b] \/ s.pieces[a].subs[b].peers = {}
           /\ a = c[1] /\ b = c[2] => s.pieces[a].subs[b].peers = {}
  PROVE  Reserved(s)
<1> SUFFICES ASSUME NEW a \in Piece, NEW b \in DOMAIN s.pieces[a].subs,
                    NEW m \in s.pieces[a].subs[b].peers
             PROVE  s.links[m].state = "ready" /\ s.links[m].asked[<<a, b>>] > 0
  BY DEF Reserved
<1>1. b \in DOMAIN t.pieces[a].subs /\ m \in t.pieces[a].subs[b].peers /\ ~(a = c[1] /\ b = c[2])
  OBVIOUS
<1>2. t.links[m].state = "ready" /\ t.links[m].asked[<<a, b>>] > 0 BY <1>1 DEF Reserved
<1>3. m \in Link /\ b \in 1..SubPieces[a] BY <1>1, ReservedLinks
<1>4. <<a, b>> \in Chunk /\ <<a, b>> # c
  <2>1. <<a, b>> \in Chunk BY <1>3, PieceChunks
  <2>2. <<a, b>> # c BY <1>1
  <2> QED BY <2>1, <2>2
<1> QED BY <1>2, <1>3, <1>4

\* An answered request keeps the invariant, whatever the disk and the peer made of it.
LEMMA Fetched ==
  ASSUME Inv, NEW l \in Link, NEW c \in Chunk, ready(l), torrent.links[l].asked[c] > 0,
         accepts(torrent.pieces[c[1]], c[2]), NEW wrote,
         torrent' = write_data(answered(l, c), c, disk', wrote),
         disk' \in [Chunk -> {"none", "good", "bad"}],
         \A d \in Chunk : d # c => disk'[d] = disk[d],
         Budgeted, in_turn(l)
  PROVE  Inv'
<1> DEFINE r == answered(l, c)
<1>1. /\ TorrentInv(torrent) /\ SavedInv /\ DataInv /\ up
      /\ budget["odd"] = Budget["odd"] => Reserved(torrent)
  BY DEF Inv, ready, at_turn
<1>2. /\ TorrentInv(r) /\ Kept(r, torrent) /\ r.pieces = torrent.pieces
      /\ \A m \in Link : r.links[m].state = torrent.links[m].state
      /\ \A m \in Link : \A d \in Chunk : d # c => r.links[m].asked[d] = torrent.links[m].asked[d]
  BY Answered
<1>3. is_open(torrent) /\ torrent.hashed = NoHasher /\ ~torrent.validate
  BY <1>1, OpenLink DEF ready
<1>4. /\ is_open(r) /\ r.hashed = NoHasher /\ valid_pieces(r) = valid_pieces(torrent)
      /\ r.validate = torrent.validate
  BY <1>2, <1>3 DEF Kept, is_open, valid_pieces
<1> HIDE DEF r
<1>5. Written(torrent', r, c, disk')
  <2>1. accepts(r.pieces[c[1]], c[2]) BY <1>2
  <2> QED BY <1>2, <1>4, <2>1, WriteData DEF r
<1>6. /\ TorrentInv(torrent') /\ is_open(torrent') /\ torrent'.hashed = NoHasher /\ ~torrent'.validate
      /\ c[1] \notin valid_pieces(torrent)
      /\ \/ valid_pieces(torrent') = valid_pieces(torrent)
         \/ valid_pieces(torrent') = valid_pieces(torrent) \cup {c[1]} /\ good(disk', c[1])
      /\ \A m \in Link : /\ torrent'.links[m].state = r.links[m].state
                         /\ torrent'.links[m].asked = r.links[m].asked
      /\ \A a \in Piece : \A b \in DOMAIN torrent'.pieces[a].subs :
           /\ b \in DOMAIN torrent.pieces[a].subs
           /\ \/ torrent'.pieces[a].subs[b] = torrent.pieces[a].subs[b]
              \/ torrent'.pieces[a].subs[b].peers = {}
           /\ a = c[1] /\ b = c[2] => torrent'.pieces[a].subs[b].peers = {}
  BY <1>2, <1>3, <1>4, <1>5 DEF Written
<1>7. /\ \A k \in Kind : budget'[k] <= Budget[k]
      /\ \A k \in Kind : budget'[k] = Budget[k] => budget[k] = Budget[k]
      /\ (Intact' => Intact) /\ (Sure' => Sure)
  BY Untouched
<1>8. Reserved(torrent) => Reserved(torrent')
  <2>1. /\ \A m \in Link : torrent'.links[m].state = torrent.links[m].state
        /\ \A m \in Link : \A d \in Chunk : d # c => torrent'.links[m].asked[d] = torrent.links[m].asked[d]
    BY <1>2, <1>6
  <2> DEFINE t == torrent
             s == torrent'
  <2>2. /\ TorrentInv(t) /\ TorrentInv(s)
        /\ \A m \in Link : s.links[m].state = t.links[m].state
        /\ \A m \in Link : \A d \in Chunk : d # c => s.links[m].asked[d] = t.links[m].asked[d]
        /\ \A a \in Piece : \A b \in DOMAIN s.pieces[a].subs :
             /\ b \in DOMAIN t.pieces[a].subs
             /\ s.pieces[a].subs[b] = t.pieces[a].subs[b] \/ s.pieces[a].subs[b].peers = {}
             /\ a = c[1] /\ b = c[2] => s.pieces[a].subs[b].peers = {}
    BY <1>1, <1>6, <2>1
  <2> HIDE DEF s, t
  <2>3. Reserved(t) => Reserved(s) BY <2>2, FetchReserved, SMTT(30)
  <2> QED BY <2>3 DEF s, t
<1>9. up' = up /\ saved' = saved /\ turn' \in SUBSET Link BY DEF in_turn
<1>10. ASSUME NEW a \in Piece, a # c[1], good(disk, a) PROVE good(disk', a)
  <2>1. \A b \in 1..SubPieces[a] : <<a, b>> \in Chunk BY PieceChunks
  <2>2. \A b \in 1..SubPieces[a] : <<a, b>> # c BY <1>10
  <2> QED BY <1>10, <2>1, <2>2 DEF good
<1>11. valid_pieces(torrent) \subseteq Piece BY DEF valid_pieces, valid_among
<1>12. DataInv'
  <2>1. ASSUME Sure' PROVE AllGood(valid_pieces(torrent))
    BY <1>1, <1>3, <1>7, <2>1 DEF DataInv
  <2>2. ASSUME Sure' PROVE AllGood(valid_pieces(torrent))'
    <3>1. \A a \in valid_pieces(torrent) : good(disk', a)
      BY <1>6, <1>10, <1>11, <2>1, <2>2 DEF AllGood
    <3> QED BY <1>6, <3>1 DEF AllGood
  <2>3. ASSUME Intact', ~saved.validate
        PROVE  AllGood(saved.valid)' /\ saved.valid \subseteq valid_pieces(torrent')
    <3>1. AllGood(saved.valid) /\ saved.valid \subseteq valid_pieces(torrent)
      BY <1>1, <1>7, <2>3 DEF DataInv
    <3>2. \A a \in saved.valid : good(disk', a) BY <1>6, <1>10, <1>11, <3>1 DEF AllGood
    <3> QED BY <1>6, <1>9, <3>1, <3>2 DEF AllGood
  <2> QED BY <1>1, <1>6, <1>9, <2>2, <2>3 DEF DataInv
<1>13. HashInv' BY <1>6 DEF HashInv
<1>14. SavedInv' BY <1>1, <1>9 DEF SavedInv
<1>15. budget'["odd"] = Budget["odd"] => Reserved(torrent')
  <2>1. "odd" \in Kind BY DEF Kind
  <2> QED BY <1>1, <1>7, <1>8, <2>1
<1> QED BY <1>1, <1>6, <1>7, <1>9, <1>12, <1>13, <1>14, <1>15 DEF Inv, Budgeted

\* An answer that brings nothing.
LEMMA Unfetched ==
  ASSUME Inv, NEW l \in Link, NEW c \in Chunk, ready(l), torrent.links[l].asked[c] > 0,
         torrent' = answered(l, c), UNCHANGED disk, Budgeted, in_turn(l),
         accepts(torrent.pieces[c[1]], c[2]) => budget'["odd"] < Budget["odd"]
  PROVE  Inv'
<1>1. /\ TorrentInv(torrent) /\ SavedInv /\ DataInv /\ HashInv /\ up
      /\ budget["odd"] = Budget["odd"] => Reserved(torrent)
      /\ disk \in [Chunk -> {"none", "good", "bad"}]
  BY DEF Inv, ready, at_turn
<1>2. /\ TorrentInv(torrent') /\ Kept(torrent', torrent) /\ torrent'.pieces = torrent.pieces
      /\ \A m \in Link : torrent'.links[m].state = torrent.links[m].state
      /\ \A m \in Link : \A d \in Chunk : d # c => torrent'.links[m].asked[d] = torrent.links[m].asked[d]
  BY Answered
<1>3. is_open(torrent) /\ torrent.hashed = NoHasher /\ ~torrent.validate
  BY <1>1, OpenLink DEF ready
<1>4. /\ is_open(torrent') /\ torrent'.hashed = NoHasher /\ valid_pieces(torrent') = valid_pieces(torrent)
      /\ ~torrent'.validate
  BY <1>2, <1>3 DEF Kept, is_open, valid_pieces
<1>5. /\ \A k \in Kind : budget'[k] <= Budget[k]
      /\ \A k \in Kind : budget'[k] = Budget[k] => budget[k] = Budget[k]
      /\ (Intact' => Intact) /\ (Sure' => Sure)
  BY Untouched
<1>6. budget'["odd"] = Budget["odd"] => Reserved(torrent')
  <2> SUFFICES ASSUME budget'["odd"] = Budget["odd"] PROVE Reserved(torrent')
    OBVIOUS
  <2>1. "odd" \in Kind /\ Budget["odd"] \in Nat BY DownloadAssumption DEF Kind
  <2>2. Reserved(torrent) /\ ~accepts(torrent.pieces[c[1]], c[2])
    <3>1. ~(budget'["odd"] < Budget["odd"]) BY <2>1
    <3> QED BY <1>1, <1>5, <2>1, <3>1
  <2>3. c[1] \in Piece BY DEF Chunk
  <2>4. ASSUME c[2] \in DOMAIN torrent.pieces[c[1]].subs PROVE torrent.pieces[c[1]].subs[c[2]].peers = {}
    <3> DEFINE p == torrent.pieces[c[1]]
    <3>1. PieceInv(p, c[1]) BY <1>1, <2>3, Parts
    <3>2. CASE p.valid
      <4>1. p.subs = NoSubs BY <3>1, <3>2 DEF PieceInv, PieceCounts
      <4> QED BY <2>4, <4>1, NoSubsEmpty
    <3>3. CASE ~p.valid
      <4>1. p.subs[c[2]].valid BY <2>2, <2>4, <3>3 DEF accepts
      <4> QED BY <2>4, <3>1, <4>1 DEF PieceInv, SubsInv
    <3> QED BY <3>2, <3>3
  <2>5. \A a \in Piece : \A b \in DOMAIN torrent'.pieces[a].subs :
           /\ b \in DOMAIN torrent.pieces[a].subs
           /\ \/ torrent'.pieces[a].subs[b] = torrent.pieces[a].subs[b]
              \/ torrent'.pieces[a].subs[b].peers = {}
           /\ a = c[1] /\ b = c[2] => torrent'.pieces[a].subs[b].peers = {}
    BY <1>2, <2>4
  <2> QED BY <1>1, <1>2, <2>2, <2>5, FetchReserved
<1>7. up' = up /\ saved' = saved /\ turn' \in SUBSET Link BY DEF in_turn
<1>8. DataInv' BY <1>1, <1>3, <1>4, <1>5, <1>7 DEF DataInv, AllGood, Gone
<1>9. HashInv' BY <1>4 DEF HashInv
<1>10. SavedInv' BY <1>1, <1>7 DEF SavedInv
<1> QED BY <1>1, <1>2, <1>5, <1>6, <1>7, <1>8, <1>9, <1>10 DEF Inv, Budgeted

LEMMA ReadPiece ==
  ASSUME Inv, NEW l \in Link, NEW c \in Chunk, read_piece(l, c)
  PROVE  Inv'
<1>1. /\ ready(l) /\ torrent.links[l].asked[c] > 0 /\ in_turn(l)
      /\ disk \in [Chunk -> {"none", "good", "bad"}]
  BY DEF read_piece, Inv
<1>2. /\ UNCHANGED budget => Budgeted
      /\ spend("bad") => Budgeted
      /\ spend("write") => Budgeted
      /\ spend("odd") => Budgeted /\ budget'["odd"] < Budget["odd"]
  <2>1. "bad" \in Kind /\ "write" \in Kind /\ "odd" \in Kind BY DEF Kind
  <2> QED BY <2>1, Spend, NoSpend
<1> DEFINE fits == accepts(torrent.pieces[c[1]], c[2])
<1>3. \/ ~fits /\ torrent' = answered(l, c) /\ UNCHANGED <<disk, budget>>
      \/ /\ fits /\ disk' = [disk EXCEPT ![c] = "good"]
         /\ torrent' = write_data(answered(l, c), c, disk', TRUE) /\ UNCHANGED budget
      \/ /\ fits /\ spend("bad") /\ disk' = [disk EXCEPT ![c] = "bad"]
         /\ torrent' = write_data(answered(l, c), c, disk', TRUE)
      \/ /\ fits /\ spend("write") /\ disk' = disk
         /\ torrent' = write_data(answered(l, c), c, disk', FALSE)
      \/ spend("odd") /\ torrent' = answered(l, c) /\ UNCHANGED disk
  BY DEF read_piece
<1>4. CASE ~fits /\ torrent' = answered(l, c) /\ UNCHANGED <<disk, budget>>
  BY <1>1, <1>2, <1>4, Unfetched
<1>5. CASE /\ fits /\ disk' = [disk EXCEPT ![c] = "good"]
           /\ torrent' = write_data(answered(l, c), c, disk', TRUE) /\ UNCHANGED budget
  <2>1. disk' \in [Chunk -> {"none", "good", "bad"}] /\ \A d \in Chunk : d # c => disk'[d] = disk[d]
    BY <1>1, <1>5
  <2> QED BY <1>1, <1>2, <1>5, <2>1, Fetched
<1>6. CASE /\ fits /\ spend("bad") /\ disk' = [disk EXCEPT ![c] = "bad"]
           /\ torrent' = write_data(answered(l, c), c, disk', TRUE)
  <2>1. disk' \in [Chunk -> {"none", "good", "bad"}] /\ \A d \in Chunk : d # c => disk'[d] = disk[d]
    BY <1>1, <1>6
  <2> QED BY <1>1, <1>2, <1>6, <2>1, Fetched
<1>7. CASE /\ fits /\ spend("write") /\ disk' = disk
           /\ torrent' = write_data(answered(l, c), c, disk', FALSE)
  <2>1. disk' \in [Chunk -> {"none", "good", "bad"}] /\ \A d \in Chunk : d # c => disk'[d] = disk[d]
    BY <1>1, <1>7
  <2> QED BY <1>1, <1>2, <1>7, <2>1, Fetched
<1>8. CASE spend("odd") /\ torrent' = answered(l, c) /\ UNCHANGED disk
  BY <1>1, <1>2, <1>8, Unfetched
<1> QED BY <1>3, <1>4, <1>5, <1>6, <1>7, <1>8

\* Cbt_hasher::run: the next piece is hashed.
LEMMA HashPiece ==
  ASSUME Inv, hash_piece
  PROVE  Inv'
<1> DEFINE t == torrent
           a == t.hashed + 1
           v == good(disk, a)
           p == piece_valid(t.pieces[a], a, v)
           ps == [t.pieces EXCEPT ![a] = p]
           n == IF v THEN t.left ELSE t.left + SubPieces[a]
           s == made(t.state, ps, n, t.end_mode, t.validate, a, t.links)
           Old == {c \in Chunk : c[1] <= t.hashed /\ ~t.pieces[c[1]].valid}
           New == {c \in Chunk : c[1] <= a /\ ~ps[c[1]].valid}
           This == {c \in Chunk : c[1] = a}
<1>1. /\ TorrentInv(t) /\ SavedInv /\ DataInv /\ HashInv /\ up /\ turn \in SUBSET Link
      /\ budget["odd"] = Budget["odd"] => Reserved(t)
      /\ disk \in [Chunk -> {"none", "good", "bad"}]
      /\ t.hashed \in 0..(Pieces - 1) /\ UNCHANGED <<disk, saved, up, turn, budget>>
  BY DEF Inv, hash_piece, idle, elsewhere
<1>2. a \in Piece /\ a \in Int /\ t.hashed \in Int /\ t.hashed # NoHasher /\ a # NoHasher
  BY <1>1, DownloadAssumption DEF Piece, NoHasher
<1>3. /\ t.left = Cardinality(Old)
      /\ \A d \in Piece : d <= t.hashed /\ t.pieces[d].valid => good(disk, d)
  BY <1>1, <1>2 DEF HashInv
<1>4. torrent' = [t EXCEPT !.pieces[a] = p, !.left = n, !.hashed = a]
  BY <1>1 DEF hash_piece
<1> HIDE DEF t
<1>5. /\ Fields(t) /\ t.end_mode \in BOOLEAN
      /\ PiecesMake(t.pieces, t.links) /\ LinksMake(t.links, t.pieces, t.hashed, t.state)
      /\ StateMake(t.state, t.pieces, t.left, t.validate, t.hashed) /\ PieceInv(t.pieces[a], a)
      /\ v \in BOOLEAN
  <2>1. v \in BOOLEAN BY DEF good
  <2> QED BY <1>1, <1>2, <2>1, Parts, Made
<1>6. DOMAIN t.pieces = Piece
  <2>1. t.pieces = [d \in Piece |-> t.pieces[d]] BY <1>5 DEF PiecesMake
  <2> QED BY <2>1
<1>7. PieceInv(p, a) /\ p.valid = v /\ p.peers = t.pieces[a].peers /\ p.subs \in {t.pieces[a].subs, NoSubs}
  <2> HIDE DEF v
  <2> QED BY <1>2, <1>5, PieceValid
<1> HIDE DEF p, v, a
<1>8. /\ \A d \in Piece : ps[d] = IF d = a THEN p ELSE t.pieces[d]
      /\ ps = [d \in Piece |-> ps[d]]
  BY <1>6
<1>9. torrent' = s
  <2> DEFINE r == [t EXCEPT !.pieces = ps]
             q == [r EXCEPT !.left = n]
  <2>1. torrent' = [t EXCEPT !.pieces = ps, !.left = n, !.hashed = a] BY <1>4, <1>5 DEF Fields
  <2> HIDE DEF ps, n
  <2>2. r = made(t.state, ps, t.left, t.end_mode, t.validate, t.hashed, t.links)
    BY <1>5 DEF Fields, made
  <2>3. torrent' = [q EXCEPT !.hashed = a] BY <2>1
  <2> HIDE DEF r
  <2>4. q = made(t.state, ps, n, t.end_mode, t.validate, t.hashed, t.links) BY <2>2 DEF made
  <2> HIDE DEF q
  <2> QED BY <2>3, <2>4 DEF made
<1> HIDE DEF ps
<1>10. n = Cardinality(New) /\ n \in -1..Size
  <2>1. \A c \in Chunk : c[1] \in Piece /\ c[1] \in Int BY DEF Chunk, Piece
  <2>2. \A c \in Chunk : c[1] <= a <=> (c[1] <= t.hashed \/ c[1] = a) BY <1>2, <2>1 DEF a
  <2>3. \A c \in Chunk : c[1] <= t.hashed => c[1] # a BY <1>2, <2>1 DEF a
  <2>4. Old \subseteq Chunk /\ New \subseteq Chunk /\ This \subseteq Chunk OBVIOUS
  <2>5. IsFiniteSet(Old) /\ IsFiniteSet(New) /\ IsFiniteSet(This) /\ Cardinality(New) <= Size
    <3> HIDE DEF Old, New, This
    <3> QED BY <2>4, ChunkFinite, FS_Subset DEF Size
  <2>6. Cardinality(New) \in Nat /\ Cardinality(Old) \in Nat /\ Size \in Nat
    <3> HIDE DEF Old, New, This
    <3> QED BY <2>5, ChunkFinite, FS_CardinalityType
  <2>7. CASE v
    <3>1. New = Old BY <1>7, <1>8, <2>1, <2>2, <2>3, <2>7
    <3> HIDE DEF Old, New
    <3> QED BY <1>3, <2>5, <2>6, <2>7, <3>1
  <2>8. CASE ~v
    <3>1. New = Old \cup This /\ Old \cap This = {}
      BY <1>7, <1>8, <2>1, <2>2, <2>3, <2>8
    <3>2. Cardinality(This) = SubPieces[a] BY <1>2, PieceChunks
    <3> HIDE DEF Old, New, This
    <3>3. Cardinality(Old \cup This) = Cardinality(Old) + Cardinality(This) - Cardinality(Old \cap This)
      BY <2>5, FS_Union
    <3>4. Cardinality(Old \cap This) = 0 BY <3>1, FS_EmptySet
    <3> QED BY <1>3, <2>5, <2>6, <2>8, <3>1, <3>2, <3>3, <3>4, Sizes, <1>2
  <2> QED BY <2>7, <2>8
<1> HIDE DEF n, New, Old, This
<1>11. opened(t.state) /\ t.validate
  BY <1>2, <1>5 DEF StateMake
<1>12. TorrentInv(s)
  <2>1. PiecesMake(ps, t.links) BY <1>5, <1>7, <1>8 DEF PiecesMake
  <2>2. LinksMake(t.links, ps, a, t.state)
    <3>1. \A l \in Link : t.links[l].state # "ready" BY <1>2, <1>5 DEF LinksMake
    <3> QED BY <1>5, <3>1 DEF LinksMake
  <2>3. StateMake(t.state, ps, n, t.validate, a)
    <3>1. a \in {NoHasher} \cup 0..Pieces BY <1>2, DownloadAssumption DEF Piece
    <3> QED BY <1>2, <1>5, <1>10, <1>11, <3>1 DEF StateMake
  <2> QED BY <1>5, <2>1, <2>2, <2>3, Make
<1>13. /\ torrent'.pieces = ps /\ torrent'.left = n /\ torrent'.hashed = a /\ torrent'.validate
       /\ torrent'.links = t.links /\ TorrentInv(torrent')
  BY <1>9, <1>11, <1>12 DEF made
<1>14. HashInv'
  <2>1. torrent'.left = Cardinality({c \in Chunk : c[1] <= a /\ ~torrent'.pieces[c[1]].valid})
    BY <1>10, <1>13 DEF New
  <2>2. ASSUME NEW d \in Piece, d <= a, torrent'.pieces[d].valid PROVE good(disk', d)
    <3>1. CASE d = a BY <1>1, <1>7, <1>8, <1>13, <2>2, <3>1 DEF v
    <3>2. CASE d # a
      <4>1. d <= t.hashed BY <1>2, <2>2, <3>2 DEF a, Piece
      <4> QED BY <1>1, <1>3, <1>8, <1>13, <2>2, <3>2, <4>1
    <3> QED BY <3>1, <3>2
  <2> QED BY <1>13, <2>1, <2>2 DEF HashInv
<1>15. DataInv'
  <2>1. ~(Intact /\ ~saved.validate) BY <1>1, <1>11 DEF DataInv, t
  <2>2. ~(Intact' /\ ~saved'.validate) BY <1>1, <2>1 DEF Intact
  <2> QED BY <1>1, <1>13, <2>2 DEF DataInv
<1>16. Reserved(t) => Reserved(torrent')
  <2> SUFFICES ASSUME Reserved(t), NEW d \in Piece, NEW b \in DOMAIN torrent'.pieces[d].subs,
                      NEW m \in torrent'.pieces[d].subs[b].peers
               PROVE  torrent'.links[m].state = "ready" /\ torrent'.links[m].asked[<<d, b>>] > 0
    BY DEF Reserved
  <2>1. b \in DOMAIN t.pieces[d].subs /\ m \in t.pieces[d].subs[b].peers
    BY <1>7, <1>8, <1>13, NoSubsEmpty
  <2> QED BY <1>13, <2>1 DEF Reserved
<1>17. SavedInv' BY <1>1 DEF SavedInv
<1> QED BY <1>1, <1>13, <1>14, <1>15, <1>16, <1>17 DEF Inv, t

\* The end of Cbt_file::hash.
LEMMA HashDone ==
  ASSUME Inv, hash_done
  PROVE  Inv'
<1> DEFINE t == torrent
           s == made("running", t.pieces, t.left, t.end_mode, FALSE, NoHasher, t.links)
<1>1. /\ TorrentInv(t) /\ SavedInv /\ DataInv /\ HashInv /\ up /\ turn \in SUBSET Link
      /\ budget["odd"] = Budget["odd"] => Reserved(t)
      /\ disk \in [Chunk -> {"none", "good", "bad"}]
      /\ t.hashed = Pieces /\ UNCHANGED <<disk, saved, up, turn, budget>>
  BY DEF Inv, hash_done, idle, elsewhere
<1>2. t.hashed # NoHasher /\ Pieces \in Nat BY <1>1, DownloadAssumption DEF NoHasher
<1>3. /\ t.left = Cardinality({c \in Chunk : c[1] <= t.hashed /\ ~t.pieces[c[1]].valid})
      /\ \A d \in Piece : d <= t.hashed /\ t.pieces[d].valid => good(disk, d)
  BY <1>1, <1>2 DEF HashInv
<1>4. torrent' = [t EXCEPT !.hashed = NoHasher, !.validate = FALSE, !.state = "running"]
  BY DEF hash_done
<1> HIDE DEF t
<1>5. /\ Fields(t) /\ t.end_mode \in BOOLEAN
      /\ PiecesMake(t.pieces, t.links) /\ LinksMake(t.links, t.pieces, t.hashed, t.state)
      /\ StateMake(t.state, t.pieces, t.left, t.validate, t.hashed)
  BY <1>1, Parts, Made
<1>6. torrent' = s BY <1>4, <1>5 DEF Fields, made
<1>7. opened(t.state) /\ t.validate BY <1>2, <1>5 DEF StateMake
<1>8. t.left = invalid_size(t.pieces)
  <2>1. \A c \in Chunk : c[1] <= t.hashed BY <1>1, <1>2 DEF Chunk, Piece
  <2>2. {c \in Chunk : c[1] <= t.hashed /\ ~t.pieces[c[1]].valid} = {c \in Chunk : ~t.pieces[c[1]].valid}
    BY <2>1
  <2> QED BY <1>3, <2>2 DEF invalid_size
<1>9. TorrentInv(s)
  <2>1. LinksMake(t.links, t.pieces, NoHasher, "running")
    <3>1. \A l \in Link : t.links[l].state # "ready" BY <1>2, <1>5 DEF LinksMake
    <3> QED BY <1>5, <3>1 DEF LinksMake, opened
  <2>2. StateMake("running", t.pieces, t.left, FALSE, NoHasher)
    BY <1>5, <1>8 DEF StateMake, opened, State
  <2> QED BY <1>5, <2>1, <2>2, Make
<1>10. /\ torrent'.pieces = t.pieces /\ torrent'.hashed = NoHasher /\ torrent'.links = t.links
       /\ TorrentInv(torrent')
  BY <1>6, <1>9 DEF made
<1>11. HashInv' BY <1>10 DEF HashInv
<1>12. DataInv'
  <2>1. ~(Intact /\ ~saved.validate) BY <1>1, <1>7 DEF DataInv, t
  <2>2. ~(Intact' /\ ~saved'.validate) BY <1>1, <2>1 DEF Intact
  <2>3. AllGood(valid_pieces(torrent))'
    <3>1. \A d \in Piece : d <= t.hashed BY <1>1, <1>2 DEF Piece
    <3> QED BY <1>1, <1>3, <1>10, <3>1 DEF AllGood, valid_pieces, valid_among
  <2> QED BY <1>1, <2>2, <2>3 DEF DataInv
<1>13. Reserved(t) => Reserved(torrent') BY <1>10 DEF Reserved
<1>14. SavedInv' BY <1>1 DEF SavedInv
<1> QED BY <1>1, <1>10, <1>11, <1>12, <1>13, <1>14 DEF Inv, t

-----------------------------------------------------------------------------
(* Opening and closing.                                                    *)

\* The torrent s is t once it has been closed.
Shut(s, t) ==
  /\ TorrentInv(s) /\ ~is_open(s) /\ s.validate = t.validate /\ valid_pieces(s) = valid_pieces(t)
  /\ Reserved(t) => Reserved(s)

LEMMA SameReserved ==
  ASSUME NEW s, NEW t, s.pieces = t.pieces, s.links = t.links, Reserved(t)
  PROVE  Reserved(s)
BY DEF Reserved

LEMMA ShutState ==
  ASSUME NEW t, NEW c, Shut(c, t), NEW v \in {"queued", "stopped"}
  PROVE  Shut([c EXCEPT !.state = v], t)
<1> DEFINE s == made(v, c.pieces, c.left, c.end_mode, c.validate, c.hashed, c.links)
<1>1. TorrentInv(c) /\ ~is_open(c) BY DEF Shut
<1>2. /\ Fields(c) /\ c.end_mode \in BOOLEAN /\ PiecesMake(c.pieces, c.links)
      /\ LinksMake(c.links, c.pieces, c.hashed, c.state)
      /\ StateMake(c.state, c.pieces, c.left, c.validate, c.hashed)
  BY <1>1, Parts, Made
<1>3. ~opened(c.state) /\ ~opened(v) /\ v \in State BY <1>1 DEF opened, is_open, State
<1>4. [c EXCEPT !.state = v] = s BY <1>2 DEF Fields, made
<1>5. TorrentInv(s)
  <2>1. LinksMake(c.links, c.pieces, c.hashed, v) BY <1>2, <1>3 DEF LinksMake
  <2>2. StateMake(v, c.pieces, c.left, c.validate, c.hashed) BY <1>2, <1>3 DEF StateMake
  <2> QED BY <1>2, <2>1, <2>2, Make
<1>6. s.state = v /\ s.validate = c.validate /\ s.pieces = c.pieces /\ s.links = c.links
  BY DEF made
<1> HIDE DEF s
<1>7. ~is_open(s) BY <1>3, <1>6 DEF is_open, opened
<1>8. valid_pieces(s) = valid_pieces(c) BY <1>6 DEF valid_pieces
<1>9. Reserved(c) => Reserved(s) BY <1>6, SameReserved
<1>10. Shut(s, t) BY <1>5, <1>6, <1>7, <1>8, <1>9 DEF Shut
<1> QED BY <1>4, <1>10

\* Cbt_file::close.
LEMMA Close ==
  ASSUME NEW t, TorrentInv(t)
  PROVE  Shut(close(t), t)
<1>1. CASE ~is_open(t) BY <1>1 DEF close, Shut
<1>2. CASE is_open(t)
  <2> DEFINE c == close_links(t, Link)
             v == t.hashed # NoHasher
             s == made("stopped", c.pieces, c.left, c.end_mode, v, NoHasher, c.links)
  <2>1. Safe(c, t) /\ c.links = without(t, Link) BY CloseLinks
  <2>2. TorrentInv(c) /\ Kept(c, t) /\ (Reserved(t) => Reserved(c)) BY <2>1 DEF Safe
  <2>3. close(t) = [c EXCEPT !.state = "stopped", !.validate = v, !.hashed = NoHasher]
    BY <1>2 DEF close
  <2>4. v = t.validate
    <3>1. t.validate <=> t.hashed # NoHasher BY <1>2 DEF TorrentInv, LinksInv
    <3>2. t.validate \in BOOLEAN BY TorrentFields DEF TorrentInv
    <3> QED BY <3>1, <3>2
  <2> HIDE DEF c, v
  <2>5. /\ Fields(c) /\ c.end_mode \in BOOLEAN /\ PiecesMake(c.pieces, c.links)
        /\ LinksMake(c.links, c.pieces, c.hashed, c.state)
        /\ StateMake(c.state, c.pieces, c.left, c.validate, c.hashed)
    BY <2>2, Parts, Made
  <2>6. close(t) = s BY <2>3, <2>5 DEF Fields, made
  <2>7. \A l \in Link : c.links[l] = NoLink BY <2>1 DEF without
  <2>8. TorrentInv(s)
    <3>1. LinksMake(c.links, c.pieces, NoHasher, "stopped") BY <2>5, <2>7, NoLinkType DEF LinksMake
    <3>2. v \in BOOLEAN BY DEF v
    <3>3. StateMake("stopped", c.pieces, c.left, v, NoHasher)
      BY <2>5, <3>2 DEF StateMake, State, opened
    <3> QED BY <2>5, <3>1, <3>3, Make
  <2>9. s.state = "stopped" /\ s.validate = v /\ s.pieces = c.pieces /\ s.links = c.links
    BY DEF made
  <2> HIDE DEF s
  <2>10. ~is_open(s) BY <2>9 DEF is_open
  <2>11. valid_pieces(s) = valid_pieces(t) BY <2>2, <2>9 DEF valid_pieces, valid_among, Kept
  <2>12. Reserved(c) => Reserved(s) BY <2>9, SameReserved
  <2>13. Shut(s, t) BY <2>2, <2>4, <2>8, <2>9, <2>10, <2>11, <2>12 DEF Shut
  <2> QED BY <2>6, <2>13
<1> QED BY <1>1, <1>2

\* A step after which the torrent is closed.
LEMMA ShutStep ==
  ASSUME Inv, TorrentInv(torrent'), ~is_open(torrent'), up' = TRUE, Budgeted, UNCHANGED <<disk, saved, turn>>,
         budget'["odd"] = Budget["odd"] => Reserved(torrent'),
         Sure /\ ~torrent'.validate => (Gone /\ ~Intact) \/ AllGood(valid_pieces(torrent')),
         Intact /\ ~saved.validate =>
           AllGood(saved.valid) /\ saved.valid \subseteq valid_pieces(torrent') /\ ~torrent'.validate
  PROVE  Inv'
<1>1. /\ \A k \in Kind : budget'[k] <= Budget[k]
      /\ (Intact' => Intact) /\ (Sure' => Sure)
  BY Untouched
<1>2. /\ SavedInv /\ disk \in [Chunk -> {"none", "good", "bad"}] /\ turn \in SUBSET Link
      /\ budget \in [Kind -> Nat] /\ up' \in BOOLEAN
  BY DEF Inv
<1>3. HashInv' BY DEF HashInv, TorrentInv, LinksInv
<1>4. DataInv'
  <2>1. Gone' = Gone BY DEF Gone
  <2>2. \A x : (\A a \in x : good(disk', a)) <=> (\A a \in x : good(disk, a)) OBVIOUS
  <2> QED BY <1>1, <2>1, <2>2 DEF DataInv, AllGood
<1>5. SavedInv' BY <1>2 DEF SavedInv
<1> QED BY <1>1, <1>2, <1>3, <1>4, <1>5 DEF Inv, Budgeted

\* The torrent o is t once it has been opened.
Opened(o, t) ==
  /\ TorrentInv(o) /\ is_open(o) /\ o.validate = t.validate
  /\ valid_pieces(o) = IF Gone THEN {} ELSE valid_pieces(t)
  /\ Reserved(t) => Reserved(o)
  /\ o.hashed = NoHasher \/ (o.hashed = 0 /\ o.left = 0)

\* Cbt_file::open.
LEMMA Open ==
  ASSUME NEW t, TorrentInv(t), ~is_open(t)
  PROVE  Opened(open(t), t)
<1> DEFINE ps == found(t.pieces)
           n == invalid_size(ps)
           hashing == made("hashing", ps, 0, t.end_mode, t.validate, 0, t.links)
           running == made("running", ps, n, t.end_mode, t.validate, t.hashed, t.links)
           o == open(t)
<1>1. /\ Fields(t) /\ t.end_mode \in BOOLEAN /\ PiecesMake(t.pieces, t.links)
      /\ LinksMake(t.links, t.pieces, t.hashed, t.state)
      /\ StateMake(t.state, t.pieces, t.left, t.validate, t.hashed)
  BY Parts, Made
<1>2. ~opened(t.state) /\ t.hashed = NoHasher /\ \A l \in Link : t.links[l] = NoLink
  BY <1>1 DEF opened, is_open, StateMake, LinksMake
<1>3. o = IF t.validate THEN [t EXCEPT !.pieces = ps, !.left = 0, !.hashed = 0, !.state = "hashing"]
          ELSE [t EXCEPT !.pieces = ps, !.left = n, !.state = "running"]
  BY DEF open
<1>4. ps = IF Gone THEN [a \in Piece |-> piece_valid(t.pieces[a], a, FALSE)] ELSE t.pieces
  BY DEF found, Gone
<1> HIDE DEF ps, n, o
<1>5. o = IF t.validate THEN hashing ELSE running
  <2>1. CASE t.validate
    <3> DEFINE a == [t EXCEPT !.pieces = ps]
               b == [a EXCEPT !.left = 0]
               c == [b EXCEPT !.hashed = 0]
    <3>1. o = [c EXCEPT !.state = "hashing"] BY <1>3, <2>1
    <3>2. a = made(t.state, ps, t.left, t.end_mode, t.validate, t.hashed, t.links)
      BY <1>1 DEF Fields, made
    <3> HIDE DEF a
    <3>3. b = made(t.state, ps, 0, t.end_mode, t.validate, t.hashed, t.links) BY <3>2 DEF made
    <3> HIDE DEF b
    <3>4. c = made(t.state, ps, 0, t.end_mode, t.validate, 0, t.links) BY <3>3 DEF made
    <3> HIDE DEF c
    <3>5. o = hashing BY <3>1, <3>4 DEF made
    <3> HIDE DEF hashing, running
    <3> QED BY <2>1, <3>5
  <2>2. CASE ~t.validate
    <3> DEFINE a == [t EXCEPT !.pieces = ps]
               b == [a EXCEPT !.left = n]
    <3>1. o = [b EXCEPT !.state = "running"] BY <1>3, <2>2
    <3>2. a = made(t.state, ps, t.left, t.end_mode, t.validate, t.hashed, t.links)
      BY <1>1 DEF Fields, made
    <3> HIDE DEF a
    <3>3. b = made(t.state, ps, n, t.end_mode, t.validate, t.hashed, t.links) BY <3>2 DEF made
    <3> HIDE DEF b
    <3> QED BY <2>2, <3>1, <3>3 DEF made
  <2> QED BY <2>1, <2>2
<1>6. /\ ps = [a \in Piece |-> ps[a]]
      /\ \A a \in Piece : /\ PieceInv(ps[a], a) /\ ps[a].peers = t.pieces[a].peers
                          /\ ps[a].subs \in {t.pieces[a].subs, NoSubs}
                          /\ ps[a].valid <=> (~Gone /\ t.pieces[a].valid)
  <2>1. CASE Gone
    <3> DEFINE no == FALSE
    <3>1. no \in BOOLEAN /\ ps = [a \in Piece |-> piece_valid(t.pieces[a], a, no)] BY <1>4, <2>1
    <3>2. no = FALSE OBVIOUS
    <3> HIDE DEF no
    <3>3. \A a \in Piece : PieceInv(t.pieces[a], a) BY <1>1 DEF PiecesMake
    <3>4. ASSUME NEW a \in Piece
          PROVE  /\ PieceInv(ps[a], a) /\ ps[a].peers = t.pieces[a].peers
                 /\ ps[a].subs \in {t.pieces[a].subs, NoSubs} /\ ps[a].valid = no
      <4>1. ps[a] = piece_valid(t.pieces[a], a, no) BY <3>1
      <4> QED BY <3>1, <3>3, <4>1, PieceValid
    <3> QED BY <2>1, <3>1, <3>2, <3>4
  <2>2. CASE ~Gone
    <3>1. ps = t.pieces BY <1>4, <2>2
    <3>2. t.pieces = [a \in Piece |-> t.pieces[a]] /\ \A a \in Piece : PieceInv(t.pieces[a], a)
      BY <1>1 DEF PiecesMake
    <3> HIDE DEF Gone
    <3> QED BY <2>2, <3>1, <3>2
  <2> QED BY <2>1, <2>2
<1>7. PiecesMake(ps, t.links) BY <1>1, <1>6 DEF PiecesMake
<1>8. valid_among(ps) = IF Gone THEN {} ELSE valid_pieces(t)
  BY <1>6 DEF valid_among, valid_pieces
<1>9. /\ o.pieces = ps /\ o.links = t.links /\ o.validate = t.validate /\ o.state \in {"hashing", "running"}
      /\ o.hashed = NoHasher \/ (o.hashed = 0 /\ o.left = 0)
  <2>1. /\ hashing.pieces = ps /\ hashing.links = t.links /\ hashing.validate = t.validate
        /\ hashing.state = "hashing" /\ hashing.hashed = 0 /\ hashing.left = 0
    BY DEF made
  <2>2. /\ running.pieces = ps /\ running.links = t.links /\ running.validate = t.validate
        /\ running.state = "running" /\ running.hashed = t.hashed
    BY DEF made
  <2> HIDE DEF hashing, running
  <2>3. CASE t.validate
    <3>1. o = hashing BY <1>5, <2>3
    <3> QED BY <2>1, <3>1
  <2>4. CASE ~t.validate
    <3>1. o = running BY <1>5, <2>4
    <3>2. t.hashed = NoHasher BY <1>2
    <3>3. /\ o.pieces = ps /\ o.links = t.links /\ o.validate = t.validate
          /\ o.state = "running" /\ o.hashed = t.hashed
      BY <2>2, <3>1
    <3> QED BY <3>2, <3>3
  <2> QED BY <2>3, <2>4
<1>10. n \in 0..Size
  <2> DEFINE S == {c \in Chunk : ~ps[c[1]].valid}
  <2>1. S \subseteq Chunk /\ n = Cardinality(S) BY DEF n, invalid_size
  <2> HIDE DEF S
  <2>2. IsFiniteSet(S) /\ Cardinality(S) <= Size BY <2>1, ChunkFinite, FS_Subset DEF Size
  <2> QED BY <2>1, <2>2, ChunkFinite, FS_CardinalityType
<1>11. TorrentInv(o)
  <2>1. \A st, h : LinksMake(t.links, ps, h, st) BY <1>1, <1>2, NoLinkType DEF LinksMake
  <2>2. CASE t.validate
    <3>1. StateMake("hashing", ps, 0, t.validate, 0)
      BY <1>1, <2>2, ChunkFinite, DownloadAssumption DEF StateMake, opened, State, NoHasher
    <3>2. TorrentInv(hashing) BY <1>1, <1>7, <2>1, <3>1, Make
    <3> QED BY <1>5, <2>2, <3>2
  <2>3. CASE ~t.validate
    <3>1. n \in -1..Size BY <1>10, ChunkFinite
    <3>2. StateMake("running", ps, n, t.validate, t.hashed)
      BY <1>1, <1>2, <2>3, <3>1 DEF StateMake, opened, State, n
    <3>3. TorrentInv(running) BY <1>1, <1>7, <2>1, <3>2, Make
    <3> QED BY <1>5, <2>3, <3>3
  <2> QED BY <2>2, <2>3
<1>12. is_open(o) BY <1>9 DEF is_open
<1>13. valid_pieces(o) = IF Gone THEN {} ELSE valid_pieces(t) BY <1>8, <1>9 DEF valid_pieces
<1>14. ASSUME Reserved(t) PROVE Reserved(o)
  <2> SUFFICES ASSUME NEW a \in Piece, NEW b \in DOMAIN o.pieces[a].subs, NEW m \in o.pieces[a].subs[b].peers
               PROVE  o.links[m].state = "ready" /\ o.links[m].asked[<<a, b>>] > 0
    BY DEF Reserved
  <2>1. b \in DOMAIN t.pieces[a].subs /\ m \in t.pieces[a].subs[b].peers BY <1>6, <1>9, NoSubsEmpty
  <2> QED BY <1>9, <1>14, <2>1 DEF Reserved
<1> QED BY <1>9, <1>11, <1>12, <1>13, <1>14 DEF Opened, o

\* A step that opens the torrent t.
LEMMA OpenStep ==
  ASSUME Inv, NEW t, Opened(torrent', t), up' = TRUE, Budgeted, UNCHANGED <<disk, saved, turn>>,
         budget'["odd"] = Budget["odd"] => Reserved(t),
         Sure /\ ~t.validate => Gone \/ AllGood(valid_pieces(t)),
         Intact /\ ~saved.validate =>
           AllGood(saved.valid) /\ saved.valid \subseteq valid_pieces(t) /\ ~t.validate
  PROVE  Inv'
<1>1. /\ \A k \in Kind : budget'[k] <= Budget[k]
      /\ (Intact' => Intact) /\ (Sure' => Sure)
  BY Untouched
<1>2. /\ SavedInv /\ disk \in [Chunk -> {"none", "good", "bad"}] /\ turn \in SUBSET Link
      /\ budget \in [Kind -> Nat]
  BY DEF Inv
<1>3. /\ TorrentInv(torrent') /\ is_open(torrent') /\ torrent'.validate = t.validate
      /\ valid_pieces(torrent') = IF Gone THEN {} ELSE valid_pieces(t)
      /\ Reserved(t) => Reserved(torrent')
      /\ torrent'.hashed = NoHasher \/ (torrent'.hashed = 0 /\ torrent'.left = 0)
  BY DEF Opened
<1>4. HashInv'
  <2> SUFFICES ASSUME torrent'.hashed = 0, torrent'.left = 0
               PROVE  /\ torrent'.left = Cardinality({c \in Chunk : c[1] <= torrent'.hashed
                                                                   /\ ~torrent'.pieces[c[1]].valid})
                      /\ \A a \in Piece : ~(a <= torrent'.hashed)
    BY <1>3 DEF HashInv
  <2>1. \A a \in Piece : ~(a <= 0) BY DEF Piece
  <2>2. {c \in Chunk : c[1] <= torrent'.hashed /\ ~torrent'.pieces[c[1]].valid} = {}
    BY <2>1 DEF Chunk
  <2> QED BY <2>1, <2>2, FS_EmptySet
<1>5. DataInv'
  <2>1. (Gone' <=> Gone) /\ \A x : (\A a \in x : good(disk', a)) <=> (\A a \in x : good(disk, a))
    BY DEF Gone
  <2>2. ASSUME Sure', ~t.validate PROVE \A a \in valid_pieces(torrent') : good(disk', a)
    BY <1>1, <1>3, <2>1, <2>2 DEF AllGood
  <2>3. ASSUME Intact', ~saved.validate
        PROVE  /\ \A a \in saved.valid : good(disk', a)
               /\ saved.valid \subseteq valid_pieces(torrent') /\ ~t.validate
    <3>1. AllGood(saved.valid) /\ saved.valid \subseteq valid_pieces(t) /\ ~t.validate BY <1>1, <2>3
    <3>2. Gone => saved.valid = {}
      <4>1. saved.valid \subseteq Piece BY <1>2 DEF SavedInv
      <4>2. ASSUME Gone, NEW a \in saved.valid PROVE FALSE
        <5>1. a \in Piece /\ good(disk, a) BY <3>1, <4>1, <4>2 DEF AllGood
        <5>2. 1 \in 1..SubPieces[a] BY <5>1, DownloadAssumption
        <5>3. <<a, 1>> \in Chunk BY <5>1, <5>2, PieceChunks
        <5> QED BY <4>2, <5>1, <5>2, <5>3 DEF Gone, good
      <4> QED BY <4>2
    <3> QED BY <1>3, <2>1, <3>1, <3>2 DEF AllGood
  <2> HIDE DEF AllGood
  <2> QED BY <1>3, <2>2, <2>3 DEF DataInv, AllGood
<1>6. SavedInv' BY <1>2 DEF SavedInv
<1> QED BY <1>1, <1>2, <1>3, <1>4, <1>5, <1>6 DEF Inv, Budgeted

\* Cbt_file::state, on the user's command, and what the server does to a queued torrent.
LEMMA SetState ==
  ASSUME Inv, NEW v \in {"running", "paused", "stopped", "queued"}, up, torrent' = set_state(v), Budgeted,
         UNCHANGED <<disk, saved, up, turn>>
  PROVE  Inv'
<1> DEFINE t == torrent
<1>1. /\ TorrentInv(t) /\ DataInv /\ up' = TRUE /\ turn \in SUBSET Link
      /\ budget["odd"] = Budget["odd"] => Reserved(t)
  BY DEF Inv
<1>2. \A k \in Kind : budget'[k] = Budget[k] => budget[k] = Budget[k] BY Untouched
<1>3. budget'["odd"] = Budget["odd"] => Reserved(t)
  <2>1. "odd" \in Kind BY DEF Kind
  <2> QED BY <1>1, <1>2, <2>1
<1>4. CASE v \in {"queued", "stopped"}
  <2> DEFINE c == close(t)
             s == [c EXCEPT !.state = v]
  <2>1. Shut(c, t) BY <1>1, Close
  <2> HIDE DEF c
  <2>2. Shut(s, t) BY <1>4, <2>1, ShutState
  <2>3. torrent' = s BY <1>4 DEF set_state, c
  <2> HIDE DEF s, t
  <2>4. /\ TorrentInv(torrent') /\ ~is_open(torrent') /\ torrent'.validate = t.validate
        /\ valid_pieces(torrent') = valid_pieces(t) /\ (Reserved(t) => Reserved(torrent'))
    BY <2>2, <2>3 DEF Shut
  <2>5. /\ Sure /\ ~torrent'.validate => (Gone /\ ~Intact) \/ AllGood(valid_pieces(torrent'))
        /\ Intact /\ ~saved.validate =>
             AllGood(saved.valid) /\ saved.valid \subseteq valid_pieces(torrent') /\ ~torrent'.validate
    BY <1>1, <2>4 DEF DataInv, t
  <2> QED BY <1>1, <1>3, <2>4, <2>5, ShutStep
<1>5. CASE v \in {"running", "paused"} /\ is_open(t)
  <2> DEFINE s == made(v, t.pieces, t.left, t.end_mode, t.validate, t.hashed, t.links)
  <2>1. torrent' = [t EXCEPT !.state = v] BY <1>5 DEF set_state
  <2> HIDE DEF t
  <2>2. /\ Fields(t) /\ t.end_mode \in BOOLEAN /\ PiecesMake(t.pieces, t.links)
        /\ LinksMake(t.links, t.pieces, t.hashed, t.state)
        /\ StateMake(t.state, t.pieces, t.left, t.validate, t.hashed)
    BY <1>1, Parts, Made
  <2>3. opened(t.state) /\ opened(v) /\ v \in State BY <1>5 DEF opened, is_open, State
  <2>4. torrent' = s BY <2>1, <2>2 DEF Fields, made
  <2>5. TorrentInv(s)
    <3>1. LinksMake(t.links, t.pieces, t.hashed, v) BY <2>2, <2>3 DEF LinksMake
    <3>2. StateMake(v, t.pieces, t.left, t.validate, t.hashed) BY <2>2, <2>3 DEF StateMake
    <3> QED BY <2>2, <3>1, <3>2, Make
  <2>6. /\ s.state = v /\ s.validate = t.validate /\ s.pieces = t.pieces /\ s.links = t.links
        /\ s.left = t.left /\ s.hashed = t.hashed
    BY DEF made
  <2> HIDE DEF s
  <2>7. Reserved(t) => Reserved(s) BY <2>6, SameReserved
  <2>8. is_open(s) BY <2>3, <2>6 DEF is_open, opened
  <2>9. Same(torrent', torrent) BY <1>5, <2>4, <2>5, <2>6, <2>7, <2>8 DEF Same, t
  <2> QED BY <1>1, <2>9, Steady
<1>6. CASE v \in {"running", "paused"} /\ ~is_open(t)
  <2>1. torrent' = open(t) BY <1>6 DEF set_state
  <2>2. Opened(torrent', t) BY <1>1, <1>6, <2>1, Open
  <2>3. /\ Sure /\ ~t.validate => Gone \/ AllGood(valid_pieces(t))
        /\ Intact /\ ~saved.validate =>
             AllGood(saved.valid) /\ saved.valid \subseteq valid_pieces(t) /\ ~t.validate
    BY <1>1 DEF DataInv
  <2> HIDE DEF t
  <2> QED BY <1>1, <1>3, <2>2, <2>3, OpenStep
<1> QED BY <1>4, <1>5, <1>6

LEMMA Commands ==
  ASSUME Inv, \/ update_states \/ seeding_ratio_reached
              \/ \E v \in {"running", "paused", "stopped", "queued"} : state(v)
  PROVE  Inv'
<1>1. "command" \in Kind BY DEF Kind
<1>2. ASSUME update_states PROVE Inv'
  <2>1. UNCHANGED <<disk, saved, up, turn>> /\ Budgeted /\ up
    BY <1>2, NoSpend DEF update_states, elsewhere, idle
  <2>2. torrent' = set_state("running")
    <3>1. ~is_open(torrent) BY <1>2 DEF update_states, is_open
    <3> QED BY <1>2, <3>1 DEF update_states, set_state
  <2> QED BY <2>1, <2>2, SetState
<1>3. ASSUME seeding_ratio_reached PROVE Inv'
  <2>1. UNCHANGED <<disk, saved, up, turn>> /\ Budgeted /\ up
    BY <1>1, <1>3, Spend DEF seeding_ratio_reached, elsewhere, idle
  <2>2. torrent' = close(torrent) /\ is_open(torrent) BY <1>3 DEF seeding_ratio_reached, is_open
  <2>3. close(torrent) = set_state("stopped")
    <3> DEFINE c == close(torrent)
    <3>1. c.state = "stopped" /\ TorrentInv(c)
      <4>1. TorrentInv(torrent) BY DEF Inv
      <4>2. Shut(c, torrent) BY <4>1, Close
      <4>3. TorrentInv(c) BY <4>2 DEF Shut
      <4> DEFINE d == close_links(torrent, Link)
                 u == torrent.hashed # NoHasher
      <4>4. c = [d EXCEPT !.state = "stopped", !.validate = u, !.hashed = NoHasher]
        BY <2>2 DEF close
      <4>5. Fields(d)
        <5>1. Safe(d, torrent) BY <4>1, CloseLinks
        <5>2. TorrentInv(d) BY <5>1 DEF Safe
        <5> HIDE DEF d
        <5> QED BY <5>2, Parts
      <4> HIDE DEF d, u, c
      <4>6. c.state = "stopped" BY <4>4, <4>5 DEF Fields
      <4> QED BY <4>3, <4>6
    <3>2. Fields(c) BY <3>1, Parts
    <3> HIDE DEF c
    <3>3. [c EXCEPT !.state = "stopped"] = c BY <3>1, <3>2 DEF Fields
    <3> QED BY <3>3 DEF set_state, c
  <2> QED BY <2>1, <2>2, <2>3, SetState
<1>4. ASSUME NEW v \in {"running", "paused", "stopped", "queued"}, state(v) PROVE Inv'
  <2>1. UNCHANGED <<disk, saved, up, turn>> /\ Budgeted /\ up /\ torrent' = set_state(v)
    BY <1>1, <1>4, Spend DEF state, elsewhere, idle
  <2> QED BY <2>1, SetState
<1> QED BY <1>2, <1>3, <1>4

-----------------------------------------------------------------------------
(* The saved state: saving, stopping, crashing and starting again.         *)

\* Nothing is known, nothing is linked.
LEMMA NewTorrent ==
  /\ TorrentInv(new_torrent) /\ ~is_open(new_torrent) /\ Reserved(new_torrent)
  /\ new_torrent.hashed = NoHasher
<1> DEFINE ps == [a \in Piece |-> new_piece(a)]
           ks == [l \in Link |-> NoLink]
<1>1. new_torrent = made("queued", ps, -1, FALSE, TRUE, NoHasher, ks) BY DEF new_torrent, made
<1>2. PiecesMake(ps, ks)
  <2>1. ASSUME NEW a \in Piece
        PROVE  PieceInv(ps[a], a) /\ ps[a].peers = Cardinality({m \in Link : a \in ks[m].has})
    <3>1. {m \in Link : a \in ks[m].has} = {} BY NoLinkType
    <3>2. ps[a] = new_piece(a) OBVIOUS
    <3> HIDE DEF ps, ks
    <3> QED BY <3>1, <3>2, NewPiece, FS_EmptySet
  <2>2. ps = [a \in Piece |-> ps[a]] OBVIOUS
  <2> HIDE DEF ps, ks
  <2> QED BY <2>1, <2>2 DEF PiecesMake
<1>3. LinksMake(ks, ps, NoHasher, "queued") BY NoLinkType DEF LinksMake
<1>4. StateMake("queued", ps, -1, TRUE, NoHasher)
  BY ChunkFinite DEF StateMake, State, opened
<1> DEFINE no == FALSE
<1>5. no \in BOOLEAN OBVIOUS
<1>6. TorrentInv(made("queued", ps, -1, no, TRUE, NoHasher, ks))
  <2> HIDE DEF ps, ks, no
  <2> QED BY <1>2, <1>3, <1>4, <1>5, Make
<1>7. \A a \in Piece : ps[a].subs = NoSubs BY DEF new_piece
<1>8. new_torrent.pieces = ps /\ new_torrent.state = "queued" /\ new_torrent.hashed = NoHasher
  BY DEF new_torrent
<1>9. Reserved(new_torrent) BY <1>7, <1>8, NoSubsEmpty DEF Reserved
<1>10. ~is_open(new_torrent) BY <1>8 DEF is_open
<1> QED BY <1>1, <1>6, <1>8, <1>9, <1>10

\* The process is gone.
LEMMA DownStep ==
  ASSUME Inv, torrent' = new_torrent, up' = FALSE, Budgeted, UNCHANGED disk, turn' \in SUBSET Link,
         SavedInv', Sure' /\ ~saved'.validate => Gone \/ AllGood(saved'.valid),
         Intact' /\ ~saved'.validate => AllGood(saved'.valid)
  PROVE  Inv'
<1>1. /\ disk \in [Chunk -> {"none", "good", "bad"}] /\ \A k \in Kind : budget'[k] <= Budget[k]
  BY Untouched DEF Inv
<1>2. TorrentInv(torrent') /\ Reserved(torrent') /\ torrent'.hashed = NoHasher BY NewTorrent
<1>3. HashInv' BY <1>2 DEF HashInv
<1>4. DataInv'
  <2>1. (Gone' <=> Gone) /\ \A x : (\A a \in x : good(disk', a)) <=> (\A a \in x : good(disk, a))
    BY DEF Gone
  <2> QED BY <2>1 DEF DataInv, AllGood
<1> QED BY <1>1, <1>2, <1>3, <1>4 DEF Inv, Budgeted

\* What is saved of a torrent can be loaded again.
LEMMA SavedState ==
  ASSUME TorrentInv(torrent), NEW i \in BOOLEAN, saved' = saved_state(i)
  PROVE  /\ SavedInv' /\ saved'.valid = valid_pieces(torrent)
         /\ saved'.validate = ((i /\ torrent.left # 0) \/ torrent.validate)
<1> DEFINE t == torrent
           v == (i /\ t.left # 0) \/ t.validate
           subs == [a \in Piece |-> [b \in DOMAIN t.pieces[a].subs |-> t.pieces[a].subs[b].valid]]
<1>1. t.state \in State /\ t.validate \in BOOLEAN /\ \A a \in Piece : PieceInv(t.pieces[a], a)
  BY Parts, TorrentFields DEF TorrentInv
<1>2. saved' = [state |-> t.state, validate |-> v, valid |-> valid_pieces(t), subs |-> subs]
  BY DEF saved_state
<1>3. v \in BOOLEAN /\ valid_pieces(t) \in SUBSET Piece BY DEF valid_pieces, valid_among
<1> HIDE DEF t
<1>4. ASSUME NEW a \in Piece
      PROVE  /\ subs[a] \in {NoSubs} \cup [1..SubPieces[a] -> BOOLEAN]
             /\ a \in valid_pieces(t) => subs[a] = NoSubs
             /\ subs[a] # NoSubs => \E b \in 1..SubPieces[a] : ~subs[a][b]
  <2> DEFINE p == t.pieces[a]
             s == p.subs
             f == [b \in DOMAIN s |-> s[b].valid]
  <2>1. PieceInv(p, a) BY <1>1
  <2>2. subs[a] = f OBVIOUS
  <2>3. a \in valid_pieces(t) => s = NoSubs BY <2>1 DEF valid_pieces, valid_among, PieceInv, PieceCounts
  <2>4. CASE s = NoSubs
    <3>1. f = NoSubs BY <2>4 DEF NoSubs
    <3> HIDE DEF subs, f
    <3> QED BY <2>2, <3>1
  <2>5. CASE s # NoSubs
    <3>1. /\ s \in [1..SubPieces[a] -> SubPiece] /\ DOMAIN s = 1..SubPieces[a]
          /\ p.left = Cardinality({b \in 1..SubPieces[a] : ~s[b].valid}) /\ p.left > 0
      BY <2>1, <2>5, Listed
    <3>2. f \in [1..SubPieces[a] -> BOOLEAN] BY <3>1 DEF SubPiece
    <3>3. PICK b \in 1..SubPieces[a] : ~s[b].valid
      <4>1. {b \in 1..SubPieces[a] : ~s[b].valid} # {}
        <5>1. Cardinality({b \in 1..SubPieces[a] : ~s[b].valid}) # 0 BY <3>1
        <5> QED BY <5>1, FS_EmptySet
      <4> QED BY <4>1
    <3>4. ~f[b] BY <3>1, <3>3
    <3> HIDE DEF subs, f, s
    <3> QED BY <2>2, <2>3, <2>5, <3>2, <3>4
  <2> QED BY <2>4, <2>5
<1> HIDE DEF v, subs
<1>5. /\ saved'.state = t.state /\ saved'.validate = v /\ saved'.valid = valid_pieces(t)
      /\ saved'.subs = subs
  BY <1>2
<1>6. saved' \in [state: State, validate: BOOLEAN, valid: SUBSET Piece, subs: {saved'.subs}]
  <2>1. saved'.subs \in {saved'.subs} OBVIOUS
  <2> QED BY <1>1, <1>2, <1>3, <1>5, <2>1
<1>7. SavedInv' BY <1>4, <1>5, <1>6 DEF SavedInv
<1> QED BY <1>5, <1>7 DEF t, v

LEMMA Save ==
  ASSUME Inv, save
  PROVE  Inv'
<1>1. /\ saved' = saved_state(TRUE) /\ UNCHANGED <<torrent, disk, up, turn>> /\ up /\ spend("save")
  BY DEF save, idle
<1>2. Budgeted
  <2>1. "save" \in Kind BY DEF Kind
  <2> QED BY <1>1, <2>1, Spend
<1>3. /\ TorrentInv(torrent) /\ DataInv /\ HashInv /\ disk \in [Chunk -> {"none", "good", "bad"}]
      /\ up \in BOOLEAN /\ turn \in SUBSET Link
      /\ budget["odd"] = Budget["odd"] => Reserved(torrent)
  BY DEF Inv
<1>4. /\ \A k \in Kind : budget'[k] <= Budget[k]
      /\ \A k \in Kind : budget'[k] = Budget[k] => budget[k] = Budget[k]
      /\ (Intact' => Intact) /\ (Sure' => Sure)
  BY <1>2, Untouched
<1>5. /\ SavedInv' /\ saved'.valid = valid_pieces(torrent)
      /\ torrent.validate => saved'.validate
  <2> DEFINE i == TRUE
  <2>1. i \in BOOLEAN /\ saved' = saved_state(i) BY <1>1
  <2> HIDE DEF i
  <2>2. /\ SavedInv' /\ saved'.valid = valid_pieces(torrent)
        /\ saved'.validate = ((i /\ torrent.left # 0) \/ torrent.validate)
    BY <1>3, <2>1, SavedState
  <2>3. torrent.validate \in BOOLEAN BY <1>3, TorrentFields DEF TorrentInv
  <2> QED BY <2>2, <2>3
<1>6. DataInv'
  <2>1. (Gone' <=> Gone) /\ \A x : (\A a \in x : good(disk', a)) <=> (\A a \in x : good(disk, a))
    BY <1>1 DEF Gone
  <2>2. ASSUME Intact', ~saved'.validate
        PROVE  (\A a \in saved'.valid : good(disk', a)) /\ ~torrent'.validate
    <3>1. ~torrent.validate /\ Intact /\ Sure BY <1>4, <1>5, <2>2 DEF Sure
    <3>2. AllGood(valid_pieces(torrent)) BY <1>1, <1>3, <3>1 DEF DataInv
    <3> QED BY <1>1, <1>5, <2>1, <3>1, <3>2 DEF AllGood
  <2>3. Sure' /\ ~torrent'.validate =>
          (\A a \in valid_pieces(torrent') : good(disk', a)) \/ (Gone' /\ ~Intact' /\ ~is_open(torrent'))
    <3>1. Sure' /\ ~torrent'.validate => Sure /\ up /\ ~torrent.validate BY <1>1, <1>4
    <3>2. Sure /\ up /\ ~torrent.validate =>
            AllGood(valid_pieces(torrent)) \/ (Gone /\ ~Intact /\ ~is_open(torrent))
      BY <1>3 DEF DataInv
    <3>3. valid_pieces(torrent') = valid_pieces(torrent) /\ is_open(torrent') = is_open(torrent) BY <1>1
    <3>4. Intact' => Intact BY <1>4
    <3> QED BY <2>1, <3>1, <3>2, <3>3, <3>4 DEF AllGood
  <2> QED BY <1>1, <1>5, <2>2, <2>3 DEF DataInv, AllGood
<1>7. HashInv' BY <1>1, <1>3 DEF HashInv
<1>8. budget'["odd"] = Budget["odd"] => Reserved(torrent')
  <2>1. "odd" \in Kind BY DEF Kind
  <2> QED BY <1>1, <1>3, <1>4, <2>1
<1> QED BY <1>1, <1>2, <1>3, <1>4, <1>5, <1>6, <1>7, <1>8 DEF Inv, Budgeted

LEMMA Stop ==
  ASSUME Inv, stop
  PROVE  Inv'
<1>1. /\ saved' = saved_state(FALSE) /\ up' = FALSE /\ torrent' = new_torrent
      /\ UNCHANGED <<disk, turn>> /\ up /\ spend("command")
  BY DEF stop, idle
<1>2. Budgeted
  <2>1. "command" \in Kind BY DEF Kind
  <2> QED BY <1>1, <2>1, Spend
<1>3. TorrentInv(torrent) /\ DataInv /\ turn \in SUBSET Link BY DEF Inv
<1>4. (Intact' => Intact) /\ (Sure' => Sure) BY <1>2, Untouched
<1>5. SavedInv' /\ saved'.valid = valid_pieces(torrent) /\ (torrent.validate => saved'.validate)
  <2> DEFINE i == FALSE
  <2>1. i \in BOOLEAN /\ saved' = saved_state(i) BY <1>1
  <2> HIDE DEF i
  <2>2. /\ SavedInv' /\ saved'.valid = valid_pieces(torrent)
        /\ saved'.validate = ((i /\ torrent.left # 0) \/ torrent.validate)
    BY <1>3, <2>1, SavedState
  <2>3. torrent.validate \in BOOLEAN BY <1>3, TorrentFields DEF TorrentInv
  <2> QED BY <2>2, <2>3
<1>6. Sure' /\ ~saved'.validate => Gone \/ AllGood(saved'.valid)
  BY <1>1, <1>3, <1>4, <1>5 DEF DataInv
<1>7. Intact' /\ ~saved'.validate => AllGood(saved'.valid)
  BY <1>1, <1>3, <1>4, <1>5 DEF DataInv, Sure
<1> QED BY <1>1, <1>2, <1>3, <1>5, <1>6, <1>7, DownStep

LEMMA Crash ==
  ASSUME Inv, crash
  PROVE  Inv'
<1>1. /\ up' = FALSE /\ torrent' = new_torrent /\ turn' = {} /\ UNCHANGED <<disk, saved>> /\ up
      /\ spend("crash")
  BY DEF crash
<1>2. "crash" \in Kind BY DEF Kind
<1>3. Budgeted /\ budget'["crash"] < Budget["crash"] BY <1>1, <1>2, Spend
<1>4. SavedInv' BY <1>1 DEF Inv, SavedInv
<1>5. (Intact' => Intact) /\ (Sure' => Intact')
  <2>1. budget'["crash"] \in Nat /\ Budget["crash"] \in Nat BY <1>2, <1>3, DownloadAssumption DEF Budgeted
  <2>2. budget'["crash"] # Budget["crash"] BY <1>3, <2>1
  <2> QED BY <1>3, <2>2, Untouched DEF Sure
<1>6. /\ Sure' /\ ~saved'.validate => Gone \/ AllGood(saved'.valid)
      /\ Intact' /\ ~saved'.validate => AllGood(saved'.valid)
  BY <1>1, <1>5 DEF Inv, DataInv
<1>7. {} \in SUBSET Link OBVIOUS
<1> QED BY <1>1, <1>3, <1>4, <1>6, <1>7, DownStep

LEMMA LoseFile ==
  ASSUME Inv, lose_file
  PROVE  Inv'
<1>1. /\ ~up \/ ~is_open(torrent)
      /\ disk' = [c \in Chunk |-> "none"]
      /\ UNCHANGED <<torrent, saved, up, turn>> /\ spend("lose")
  BY DEF lose_file
<1>2. "lose" \in Kind BY DEF Kind
<1>3. Budgeted /\ budget'["lose"] < Budget["lose"] BY <1>1, <1>2, Spend
<1>4. /\ TorrentInv(torrent) /\ SavedInv /\ DataInv /\ up \in BOOLEAN /\ turn \in SUBSET Link
      /\ budget["odd"] = Budget["odd"] => Reserved(torrent)
      /\ ~up => torrent = new_torrent
  BY DEF Inv
<1>5. ~is_open(torrent) /\ torrent.hashed = NoHasher
  <2>1. ~is_open(torrent) BY <1>1, <1>4, NewTorrent
  <2> QED BY <1>4, <2>1 DEF TorrentInv, LinksInv
<1>6. Gone' /\ ~Intact' /\ disk' \in [Chunk -> {"none", "good", "bad"}]
  <2>1. budget'["lose"] \in Nat /\ Budget["lose"] \in Nat BY <1>2, <1>3, DownloadAssumption DEF Budgeted
  <2>2. budget'["lose"] # Budget["lose"] BY <1>3, <2>1
  <2> QED BY <1>1, <2>2 DEF Gone, Intact
<1>7. DataInv' BY <1>1, <1>5, <1>6 DEF DataInv
<1>8. HashInv' BY <1>1, <1>5 DEF HashInv
<1>9. SavedInv' BY <1>1, <1>4 DEF SavedInv
<1>10. /\ \A k \in Kind : budget'[k] <= Budget[k]
       /\ budget'["odd"] = Budget["odd"] => Reserved(torrent')
  <2>1. "odd" \in Kind BY DEF Kind
  <2> QED BY <1>1, <1>3, <1>4, <2>1, Untouched
<1> QED BY <1>1, <1>3, <1>4, <1>6, <1>7, <1>8, <1>9, <1>10 DEF Inv, Budgeted

\* Cbt_piece::load_state.
LEMMA LoadPiece ==
  ASSUME SavedInv, NEW a \in Piece
  PROVE  LET p == load_piece(a)
         IN /\ PieceInv(p, a) /\ p.valid = (a \in saved.valid) /\ p.peers = 0
            /\ \A b \in DOMAIN p.subs : p.subs[b].peers = {}
<1> DEFINE f == saved.subs[a]
           v == a \in saved.valid
           here == {b \in DOMAIN f : f[b]}
           s == [b \in DOMAIN f |-> [valid |-> f[b], peers |-> {}]]
           n == SubPieces[a] - Cardinality(here)
           p == load_piece(a)
<1>1. /\ f \in {NoSubs} \cup [1..SubPieces[a] -> BOOLEAN] /\ (v => f = NoSubs)
      /\ f # NoSubs => \E b \in 1..SubPieces[a] : ~f[b]
  BY DEF SavedInv
<1>2. v \in BOOLEAN OBVIOUS
<1>3. p = [valid |-> v, subs |-> s, left |-> n, unrequested |-> n, peers |-> 0]
  BY DEF load_piece
<1>4. SubPieces[a] \in Nat /\ SubPieces[a] \in 0..SubPieces[a] BY Sizes
<1> HIDE DEF f, v
<1>5. \A b \in DOMAIN s : s[b].peers = {} OBVIOUS
<1>6. CASE f = NoSubs
  <2>1. here = {} /\ s = NoSubs BY <1>6 DEF NoSubs
  <2> HIDE DEF here, s, p
  <2>2. n = SubPieces[a] BY <1>4, <2>1, FS_EmptySet
  <2> HIDE DEF n
  <2>3. p \in PieceRecord(SubPieces[a]) BY <1>2, <1>3, <1>4, <2>1, <2>2, MakePiece
  <2>4. p.valid = v /\ p.subs = NoSubs /\ p.left = n /\ p.unrequested = n /\ p.peers = 0
    BY <1>3, <2>1
  <2>5. PieceInv(p, a)
    <3>1. CASE p.valid BY <2>3, <2>4, <3>1, ValidPiece
    <3>2. CASE ~p.valid BY <2>2, <2>3, <2>4, <3>2, FreshPiece
    <3> QED BY <3>1, <3>2
  <2> QED BY <1>3, <1>5, <2>4, <2>5, NoSubsEmpty DEF p, v
<1>7. CASE f # NoSubs
  <2>1. /\ f \in [1..SubPieces[a] -> BOOLEAN] /\ v = FALSE /\ DOMAIN f = 1..SubPieces[a]
    BY <1>1, <1>2, <1>7
  <2>2. PICK b \in 1..SubPieces[a] : ~f[b] BY <1>1, <1>7
  <2>3. s \in [1..SubPieces[a] -> SubPiece] BY <2>1 DEF SubPiece
  <2>4. \A c \in 1..SubPieces[a] : s[c].valid = f[c] /\ s[c].peers = {} BY <2>1
  <2> DEFINE missing == {c \in 1..SubPieces[a] : ~s[c].valid}
             all == 1..SubPieces[a]
  <2>5. missing = all \ here /\ here \subseteq all BY <2>1, <2>4
  <2>6. requestable(s) = missing BY <2>1, <2>4 DEF requestable
  <2>7. SubsInv(s) BY <2>1, <2>4 DEF SubsInv
  <2>8. n = Cardinality(missing)
    <3>1. IsFiniteSet(all) /\ Cardinality(all) = SubPieces[a] BY Sizes
    <3> HIDE DEF all, here, missing
    <3>2. Cardinality(all \ here) = Cardinality(all) - Cardinality(all \cap here)
      BY <3>1, FS_Difference
    <3>3. all \cap here = here BY <2>5
    <3> QED BY <2>5, <3>1, <3>2, <3>3
  <2>9. ~s[b].valid BY <2>2, <2>4
  <2> DEFINE q == [valid |-> FALSE, subs |-> s, left |-> n, unrequested |-> n, peers |-> 0]
  <2>10. 0 \in Nat OBVIOUS
  <2> HIDE DEF n, s, here
  <2>11. PieceInv(q, a)
    <3>1. n = Cardinality({c \in 1..SubPieces[a] : ~s[c].valid}) /\ n = Cardinality(requestable(s))
      BY <2>6, <2>8
    <3> QED BY <2>3, <2>7, <2>9, <2>10, <3>1, ListedPiece
  <2> HIDE DEF p
  <2>12. p = q BY <1>3, <2>1
  <2>13. p.valid = FALSE /\ p.subs = s /\ p.peers = 0 BY <2>12
  <2>14. PieceInv(p, a) BY <2>11, <2>12
  <2> QED BY <1>5, <2>1, <2>13, <2>14 DEF p, v, s
<1> QED BY <1>6, <1>7

\* One field of a torrent assigned.
LEMMA Remade ==
  ASSUME NEW st, NEW ps, NEW left, NEW e, NEW v, NEW h, NEW ks, NEW st2, NEW ps2, NEW v2
  PROVE  /\ [made(st, ps, left, e, v, h, ks) EXCEPT !.pieces = ps2] = made(st, ps2, left, e, v, h, ks)
         /\ [made(st, ps, left, e, v, h, ks) EXCEPT !.validate = v2] = made(st, ps, left, e, v2, h, ks)
         /\ [made(st, ps, left, e, v, h, ks) EXCEPT !.state = st2] = made(st2, ps, left, e, v, h, ks)
BY DEF made

\* The process starts with what state.bin holds.
LEMMA Start ==
  ASSUME Inv, start
  PROVE  Inv'
<1> DEFINE ps == [a \in Piece |-> load_piece(a)]
           ks == [l \in Link |-> NoLink]
           loaded(st) == made(st, ps, -1, FALSE, saved.validate, NoHasher, ks)
           t == loaded(saved.state)
           r == loaded("stopped")
<1>1. /\ ~up /\ up' = TRUE /\ torrent' = load_state /\ UNCHANGED <<disk, saved, turn, budget>>
      /\ SavedInv /\ DataInv /\ Budgeted
  BY NoSpend DEF start, Inv
<1>2. torrent' = IF is_open(t) THEN open(r) ELSE t
  <2> DEFINE a == [new_torrent EXCEPT !.pieces = ps]
             b == [a EXCEPT !.validate = saved.validate]
             c == [b EXCEPT !.state = saved.state]
             d == [c EXCEPT !.state = "stopped"]
             fresh == [m \in Piece |-> new_piece(m)]
             no == FALSE
             yes == TRUE
             empty == -1
  <2>1. load_state = IF is_open(c) THEN open(d) ELSE c BY DEF load_state
  <2>2. new_torrent = made("queued", fresh, empty, no, yes, NoHasher, ks) BY DEF new_torrent, made
  <2>3. t = made(saved.state, ps, empty, no, saved.validate, NoHasher, ks)
        /\ r = made("stopped", ps, empty, no, saved.validate, NoHasher, ks)
    OBVIOUS
  <2> HIDE DEF ps, fresh, ks, no, yes, empty
  <2>4. a = made("queued", ps, empty, no, yes, NoHasher, ks) BY <2>2, Remade
  <2> HIDE DEF a
  <2>5. b = made("queued", ps, empty, no, saved.validate, NoHasher, ks) BY <2>4, Remade
  <2> HIDE DEF b
  <2>6. c = made(saved.state, ps, empty, no, saved.validate, NoHasher, ks) BY <2>5, Remade
  <2> HIDE DEF c
  <2>7. d = made("stopped", ps, empty, no, saved.validate, NoHasher, ks) BY <2>6, Remade
  <2> HIDE DEF d, t, r
  <2>8. c = t /\ d = r BY <2>3, <2>6, <2>7
  <2> QED BY <1>1, <2>1, <2>8
<1>3. saved.state \in State /\ saved.validate \in BOOLEAN /\ saved.valid \subseteq Piece
  BY <1>1 DEF SavedInv
<1>4. /\ ps = [a \in Piece |-> ps[a]]
      /\ \A a \in Piece : /\ PieceInv(ps[a], a) /\ ps[a].valid = (a \in saved.valid) /\ ps[a].peers = 0
                          /\ \A b \in DOMAIN ps[a].subs : ps[a].subs[b].peers = {}
  <2>1. ASSUME NEW a \in Piece
        PROVE  /\ PieceInv(ps[a], a) /\ ps[a].valid = (a \in saved.valid) /\ ps[a].peers = 0
               /\ \A b \in DOMAIN ps[a].subs : ps[a].subs[b].peers = {}
    <3>1. ps[a] = load_piece(a) OBVIOUS
    <3> HIDE DEF ps
    <3> QED BY <1>1, <3>1, LoadPiece
  <2>2. ps = [a \in Piece |-> ps[a]] OBVIOUS
  <2> QED BY <2>1, <2>2
<1> HIDE DEF ps
<1>5. PiecesMake(ps, ks)
  <2>1. ASSUME NEW a \in Piece PROVE ps[a].peers = Cardinality({m \in Link : a \in ks[m].has})
    <3>1. {m \in Link : a \in ks[m].has} = {} BY NoLinkType
    <3> HIDE DEF ks
    <3> QED BY <1>4, <3>1, FS_EmptySet
  <2> HIDE DEF ks
  <2> QED BY <1>4, <2>1 DEF PiecesMake
<1>6. \A st : LinksMake(ks, ps, NoHasher, st) BY NoLinkType DEF LinksMake
<1>7. valid_among(ps) = saved.valid BY <1>3, <1>4 DEF valid_among
<1>8. ASSUME NEW st \in State, ~opened(st)
      PROVE  /\ TorrentInv(loaded(st)) /\ ~is_open(loaded(st)) /\ Reserved(loaded(st))
             /\ valid_pieces(loaded(st)) = saved.valid /\ loaded(st).validate = saved.validate
  <2> DEFINE no == FALSE
             s == made(st, ps, -1, no, saved.validate, NoHasher, ks)
  <2>1. no \in BOOLEAN OBVIOUS
  <2>2. StateMake(st, ps, -1, saved.validate, NoHasher)
    BY <1>3, <1>8, ChunkFinite DEF StateMake
  <2> HIDE DEF no, ks
  <2>3. TorrentInv(s) BY <1>5, <1>6, <2>1, <2>2, Make
  <2>4. s.state = st /\ s.pieces = ps /\ s.validate = saved.validate BY DEF made
  <2> HIDE DEF s
  <2>5. ~is_open(s) BY <1>8, <2>4 DEF is_open, opened
  <2>6. Reserved(s) BY <1>4, <2>4 DEF Reserved
  <2>7. valid_pieces(s) = saved.valid BY <1>7, <2>4 DEF valid_pieces
  <2>8. s = loaded(st) BY DEF s, no
  <2> HIDE DEF loaded
  <2> QED BY <2>3, <2>4, <2>5, <2>6, <2>7, <2>8
<1>9. /\ Sure /\ ~saved.validate => (Gone /\ ~Intact) \/ AllGood(saved.valid)
      /\ Intact /\ ~saved.validate => AllGood(saved.valid)
  BY <1>1 DEF DataInv
<1>10. CASE is_open(t)
  <2>1. torrent' = open(r) BY <1>2, <1>10
  <2>2. "stopped" \in State /\ ~opened("stopped") BY DEF State, opened
  <2>3. /\ TorrentInv(r) /\ ~is_open(r) /\ Reserved(r) /\ valid_pieces(r) = saved.valid
        /\ r.validate = saved.validate
    BY <1>8, <2>2
  <2> HIDE DEF r
  <2>4. Opened(torrent', r) BY <2>1, <2>3, Open
  <2> QED BY <1>1, <1>9, <2>3, <2>4, OpenStep
<1>11. CASE ~is_open(t)
  <2>1. torrent' = t BY <1>2, <1>11
  <2>2. ~opened(saved.state)
    <3>1. t.state = saved.state BY DEF made
    <3> QED BY <1>11, <3>1 DEF is_open, opened
  <2>3. /\ TorrentInv(t) /\ ~is_open(t) /\ Reserved(t) /\ valid_pieces(t) = saved.valid
        /\ t.validate = saved.validate
    BY <1>3, <1>8, <2>2
  <2> HIDE DEF t
  <2> QED BY <1>1, <1>9, <2>1, <2>3, ShutStep
<1> QED BY <1>10, <1>11

-----------------------------------------------------------------------------
(* The theorems.                                                           *)

LEMMA InitInv ==
  ASSUME Init
  PROVE  Inv
<1>1. /\ torrent = new_torrent /\ up = TRUE /\ turn = {} /\ budget = Budget
      /\ saved = [state |-> "queued", validate |-> TRUE, valid |-> {}, subs |-> [a \in Piece |-> NoSubs]]
  BY DEF Init
<1>2. /\ TorrentInv(torrent) /\ ~is_open(torrent) /\ Reserved(torrent) /\ torrent.hashed = NoHasher
  BY <1>1, NewTorrent
<1>3. disk \in [Chunk -> {"none", "good", "bad"}]
  <2>1. PICK there \in SUBSET Piece : disk = [c \in Chunk |-> IF c[1] \in there THEN "good" ELSE "none"]
    BY DEF Init
  <2> QED BY <2>1
<1>4. SavedInv BY <1>1 DEF SavedInv, State
<1>5. budget \in [Kind -> Nat] /\ \A k \in Kind : budget[k] <= Budget[k]
  <2>1. Budget \in [Kind -> Nat] BY DownloadAssumption
  <2>2. \A k \in Kind : Budget[k] \in Nat BY <2>1
  <2> QED BY <1>1, <2>1, <2>2
<1>6. saved.validate = TRUE /\ up /\ torrent.validate = TRUE BY <1>1 DEF new_torrent
<1>7. DataInv BY <1>6 DEF DataInv
<1>8. HashInv BY <1>2 DEF HashInv
<1> QED BY <1>1, <1>2, <1>3, <1>4, <1>5, <1>7, <1>8 DEF Inv

LEMMA StepInv ==
  ASSUME Inv, Next
  PROVE  Inv'
<1>1. CASE Between
  <2>1. CASE hash_piece BY <2>1, HashPiece
  <2>2. CASE hash_done BY <2>2, HashDone
  <2>3. CASE update_states \/ seeding_ratio_reached
             \/ \E v \in {"running", "paused", "stopped", "queued"} : state(v)
    BY <2>3, Commands
  <2>4. CASE save BY <2>4, Save
  <2>5. CASE stop BY <2>5, Stop
  <2>6. CASE crash BY <2>6, Crash
  <2>7. CASE start BY <2>7, Start
  <2>8. CASE lose_file BY <2>8, LoseFile
  <2>9. CASE \E l \in Link : connect(l) \/ write_haves(l) BY <2>9, QuietBetween
  <2> QED BY <1>1, <2>1, <2>2, <2>3, <2>4, <2>5, <2>6, <2>7, <2>8, <2>9 DEF Between
<1>2. ASSUME NEW l \in Link, Turn(l) PROVE Inv'
  <2>1. CASE \/ read_handshake(l) \/ read_choke(l) \/ read_unchoke(l) \/ drop(l) \/ finish_turn(l)
             \/ \E new \in SUBSET Piece \ {{}} : remote_has(l, new)
             \/ \E expired \in SUBSET expirable(torrent, l) : timer_turn(l, expired)
    BY <2>1, QuietTurn
  <2>2. CASE \E c \in Chunk : read_piece(l, c) BY <2>2, ReadPiece
  <2> QED BY <1>2, <2>1, <2>2 DEF Turn
<1> QED BY <1>1, <1>2 DEF Next

LEMMA StutterInv ==
  ASSUME Inv, UNCHANGED vars
  PROVE  Inv'
<1>1. UNCHANGED <<torrent, disk, saved, up, turn, budget>> BY DEF vars
<1>2. HashInv' BY <1>1 DEF Inv, HashInv
<1>3. SavedInv' BY <1>1 DEF Inv, SavedInv
<1>4. DataInv' BY <1>1 DEF Inv, DataInv, Sure, Intact, Gone, AllGood, good
<1>5. TorrentInv(torrent)' BY <1>1 DEF Inv
<1>6. (budget["odd"] = Budget["odd"] => Reserved(torrent))' BY <1>1 DEF Inv
<1> QED BY <1>1, <1>2, <1>3, <1>4, <1>5, <1>6 DEF Inv

\* Every state of the torrent satisfies Inv: the types, the counts of the pieces, who has
\* reserved what, what a link was told, the hasher, the saved state and the data on disk.
THEOREM Invariance == Spec => []Inv
<1>1. Init => Inv BY InitInv
<1>2. Inv /\ [Next]_vars => Inv' BY StepInv, StutterInv
<1> QED BY <1>1, <1>2, PTL DEF Spec

\* What Inv says of the torrent.
LEMMA TorrentTyped ==
  ASSUME Inv
  PROVE  TypeOK
<1>1. torrent \in TorrentRecord /\ \A a \in Piece : torrent.pieces[a] \in PieceRecord(SubPieces[a])
  BY DEF Inv, TorrentInv, PieceInv
<1> QED BY <1>1 DEF Inv, TypeOK

LEMMA Counted ==
  ASSUME Inv
  PROVE  CountsMatch
BY DEF Inv, TorrentInv, PieceInv, CountsMatch

LEMMA NothingMissing ==
  ASSUME Inv
  PROVE  LeftIsMissing
BY DEF Inv, TorrentInv, LeftIsMissing

LEMMA GoodData ==
  ASSUME Inv
  PROVE  ValidIsGood
<1> SUFFICES ASSUME Sure, is_open(torrent), torrent.hashed = NoHasher
             PROVE  AllGood(valid_pieces(torrent))
  BY DEF ValidIsGood, Sure, Intact, AllGood
<1>1. TorrentInv(torrent) /\ DataInv /\ (~up => torrent = new_torrent) /\ up \in BOOLEAN BY DEF Inv
<1>2. up BY <1>1, NewTorrent
<1>3. ~torrent.validate BY <1>1 DEF TorrentInv, LinksInv
<1> QED BY <1>1, <1>2, <1>3 DEF DataInv

LEMMA ReservedOnce ==
  ASSUME Inv
  PROVE  ReservedByLive
<1> SUFFICES ASSUME budget["odd"] = Budget["odd"], NEW a \in Piece,
                    NEW b \in DOMAIN torrent.pieces[a].subs
             PROVE  LET peers == torrent.pieces[a].subs[b].peers
                    IN /\ Cardinality(peers) <= 1
                       /\ \A l \in peers : /\ torrent.links[l].state = "ready"
                                           /\ torrent.links[l].asked[<<a, b>>] > 0
  BY DEF ReservedByLive
<1> DEFINE peers == torrent.pieces[a].subs[b].peers
<1>1. Reserved(torrent) /\ SubsInv(torrent.pieces[a].subs) BY DEF Inv, TorrentInv, PieceInv
<1>2. \A l \in peers : torrent.links[l].state = "ready" /\ torrent.links[l].asked[<<a, b>>] > 0
  BY <1>1 DEF Reserved
<1>3. \A k, l \in peers : k = l BY <1>1 DEF SubsInv
<1> HIDE DEF peers
<1>4. Cardinality(peers) <= 1
  <2>1. CASE peers = {} BY <2>1, FS_EmptySet
  <2>2. ASSUME NEW l \in peers PROVE Cardinality(peers) <= 1
    <3>1. peers = {l} BY <1>3, <2>2
    <3> QED BY <3>1, FS_Singleton
  <2> QED BY <2>1, <2>2
<1> QED BY <1>2, <1>4 DEF peers

LEMMA OwnersCounted ==
  ASSUME Inv
  PROVE  PeerCounts
BY DEF Inv, TorrentInv, PeerCounts

LEMMA AllTold ==
  ASSUME Inv
  PROVE  HavesTold
BY DEF Inv, TorrentInv, Told, HavesTold

\* The counters of every piece are those of its sub-pieces (Cbt_piece, after each of the calls
\* that keep their share), what is called valid is on disk and m_left is what is missing,
\* through bad data, failed writes, crashes, restarts and removed files.
THEOREM PiecesKeptAlways == Spec => []PiecesKept
<1>1. Inv => PiecesKept BY Counted, GoodData, NothingMissing DEF PiecesKept
<1> QED BY <1>1, Invariance, PTL

\* A sub-piece that is reserved is reserved by one link that lives and has the request, and
\* the peers counted at a piece are those that have it (Cbt_peer_link::close, erase_peer).
THEOREM LinksAccountedAlways == Spec => []LinksAccounted
<1>1. Inv => LinksAccounted BY ReservedOnce, OwnersCounted DEF LinksAccounted
<1> QED BY <1>1, Invariance, PTL

\* No peer is left untold of a piece we have (Cbt_file::write_data, Cbt_peer_link::write_haves
\* and the bitfield of the handshake).
THEOREM HavesToldAlways == Spec => []HavesTold
<1>1. Inv => HavesTold BY AllTold
<1> QED BY <1>1, Invariance, PTL

\* The torrent has its type and its counters are true at any time, also while it is hashed.
THEOREM TorrentKeptAlways == Spec => []TorrentKept
<1>1. Inv => TorrentKept BY TorrentTyped, Counted DEF TorrentKept
<1> QED BY <1>1, Invariance, PTL

\* Once the hasher is done, what is called valid is on disk (Cbt_hasher, Cbt_file::write_data,
\* load_state, open), unless the file was removed and the process crashed as well.
THEOREM ValidIsGoodAlways == Spec => []ValidIsGood
<1>1. Inv => ValidIsGood BY GoodData
<1> QED BY <1>1, Invariance, PTL

\* Once the hasher is done, m_left is the size of the pieces that are not valid.
THEOREM LeftIsMissingAlways == Spec => []LeftIsMissing
<1>1. Inv => LeftIsMissing BY NothingMissing
<1> QED BY <1>1, Invariance, PTL

=============================================================================
