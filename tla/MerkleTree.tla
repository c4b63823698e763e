------------------------------- MODULE MerkleTree -------------------------------
(***************************************************************************)
(* The hash tree of a file in a merkle torrent (src/BT Test/merkle_tree.cpp): *)
(* made when the torrent is made, rebuilt by the hasher from the data there   *)
(* is, and filled bit by bit from the chunks of other peers, each of which    *)
(* brings the hashes on its way to the root.  Only the root is known before;  *)
(* the tree is not saved.                                                  *)
(*                                                                         *)
(* A block is what is hashed at once (1 KB); a chunk is two blocks here      *)
(* (32 in the code), a piece is one chunk, and a sub piece one block: of the  *)
(* chunks only a last one of a sub piece's size is written.  Hashes are the   *)
(* terms they were computed from: no two agree by chance.                   *)
(***************************************************************************)
EXTENDS Integers, SequencesExt, FiniteSetsExt, Functions

CONSTANTS
  Blocks,    \* numbers of blocks a file may have
  MaxStarts  \* bound: starts of the client

VARIABLES
  c_blocks,   \* of the file
  made,       \* when the torrent was: the root, the hashes of chunks, and the tree of the seeder
  is_up,      \* the torrent runs
  tree,       \* m_d: a hash by node, Unset when its flag is not set
  valid,      \* pieces that are valid
  disk,       \* for each chunk what the file has: "right" or "wrong"
  exists,     \* the file is there
  honest,     \* all peers are
  starts,
  wrong       \* history: a wrong chunk was accepted

vars == <<c_blocks, made, is_up, tree, valid, disk, exists, honest, starts, wrong>>

Unset == <<>>
leaf(b) == <<b>>
internal_hash(a, b) == <<a, b>>

-----------------------------------------------------------------------------
(* The tree: nodes are <<level, index>>, leaves are on level 0.             *)

ChunkSize == 2
chunks(b) == (b + ChunkSize - 1) \div ChunkSize
width(b, l) == (chunks(b) + 2 ^ l - 1) \div 2 ^ l
depth(b) == Min({l \in 0..b : width(b, l) = 1})
Nodes(b) == {<<l, k>> \in (0..depth(b)) \X (0..(chunks(b) - 1)) : k < width(b, l)}
Leaves == 0..(chunks(c_blocks) - 1)
resize(b) == [n \in Nodes(b) |-> Unset]
node(i, l) == <<l, i \div 2 ^ l>>
sibling(n) == <<n[1], IF n[2] % 2 = 0 THEN n[2] + 1 ELSE n[2] - 1>>
top(t) == CHOOSE n \in DOMAIN t : \A m \in DOMAIN t : m[1] <= n[1]
root(t) == t[top(t)]
has(t, i) == t[node(i, 0)] # Unset

\* The hashes on the way up, of c levels.
get(t, i, c) ==
  LET way == [l \in 1..Min({c, top(t)[1]}) |-> sibling(node(i, l - 1))]
  IN FoldLeft(LAMBDA w, n : IF n \in DOMAIN t THEN Append(w, t[n]) ELSE w, <<>>, way)

hashed(n, h, other) == IF n[2] % 2 = 0 THEN internal_hash(h, other) ELSE internal_hash(other, h)

\* From level l up, h is compared with the first hash that is known.
RECURSIVE test_from(_, _, _, _, _)
test_from(t, i, l, h, w) ==
  LET n == node(i, l) IN
  IF t[n] # Unset THEN h = t[n]
  ELSE IF n = top(t) \/ w = <<>> THEN FALSE
  ELSE IF sibling(n) \notin DOMAIN t THEN test_from(t, i, l + 1, h, w)
  ELSE test_from(t, i, l + 1, hashed(n, h, Head(w)), Tail(w))
test(t, i, v, w) == test_from(t, i, 0, v, w)

\* Hashes are stored up to the first one that is known already.
RECURSIVE set_from(_, _, _, _)
set_from(t, i, l, w) ==
  LET s == sibling(node(i, l)) IN
  IF node(i, l) = top(t) \/ w = <<>> THEN t
  ELSE IF s \notin DOMAIN t THEN set_from(t, i, l + 1, w)
  ELSE IF t[s] # Unset THEN t
  ELSE set_from([t EXCEPT ![s] = Head(w)], i, l + 1, Tail(w))
\* As if a hash that is known were no reason to stop.
RECURSIVE set_over(_, _, _, _)
set_over(t, i, l, w) ==
  LET s == sibling(node(i, l)) IN
  IF node(i, l) = top(t) \/ w = <<>> THEN t
  ELSE IF s \notin DOMAIN t THEN set_over(t, i, l + 1, w)
  ELSE set_over([t EXCEPT ![s] = Head(w)], i, l + 1, Tail(w))
set_all(t, i, v, w) == set_over([t EXCEPT ![node(i, 0)] = v], i, 0, w)
set_with(t, i, v, w) == set_from([t EXCEPT ![node(i, 0)] = v], i, 0, w)

\* The data itself was hashed: parents are computed as soon as both children are known; a node
\* without a sibling is its own parent.
RECURSIVE build(_, _, _)
build(t, i, l) ==
  LET n == node(i, l)
      s == sibling(n)
      parent == node(i, l + 1)
  IN IF n = top(t) \/ (s \in DOMAIN t /\ t[s] = Unset) \/ t[parent] # Unset THEN t
     ELSE build([t EXCEPT ![parent] = IF s \in DOMAIN t THEN hashed(n, t[n], t[s]) ELSE t[n]], i, l + 1)
set(t, i, v) == build([t EXCEPT ![node(i, 0)] = v], i, 0)
invalidate(b, r) == [resize(b) EXCEPT ![top(resize(b))] = r]

-----------------------------------------------------------------------------
(* Roots are computed block by block, with one hash by level kept at most;   *)
(* in the end hashes are combined from the lowest level on.                 *)

RECURSIVE carried(_, _, _), combined(_)
carried(m, i, h) ==
  IF i \in DOMAIN m THEN carried([j \in DOMAIN m \ {i} |-> m[j]], i + 1, internal_hash(m[i], h))
  ELSE [j \in DOMAIN m \cup {i} |-> IF j = i THEN h ELSE m[j]]
combined(m) ==
  LET a == Min(DOMAIN m)
      b == Min(DOMAIN m \ {a})
  IN IF Cardinality(DOMAIN m) = 1 THEN m[a]
     ELSE combined([j \in (DOMAIN m \ {a, b}) \cup {0} |-> IF j = 0 THEN internal_hash(m[b], m[a]) ELSE m[j]])
compute_root(hs) == combined(FoldLeft(LAMBDA m, h : carried(m, 0, h), <<>>, hs))

\* The first block of a wrong chunk is another one.
size(b, i) == Min({ChunkSize, b - ChunkSize * i})
data(b, i, what) ==
  [j \in 1..size(b, i) |-> leaf(IF what = "wrong" /\ j = 1 THEN -i - 1 ELSE ChunkSize * i + j)]
chunk_hash(b, i, what) == compute_root(data(b, i, what))
in_order(b) == [i \in 1..chunks(b) |-> i - 1]
hashes(b) == [what \in {"right", "wrong"} |-> [i \in 0..(chunks(b) - 1) |-> chunk_hash(b, i, what)]]
\* What the torrent says, and the tree of who has the whole file.
make(b) ==
  [root |-> compute_root([k \in 1..b |-> leaf(k)]),
   hashes |-> hashes(b),
   seeder |-> FoldLeft(LAMBDA t, i : set(t, i, chunk_hash(b, i, "right")), resize(b), in_order(b))]
hash_of(i, what) == made.hashes[what][i]
merkle_hash == made.root
Seeder == made.seeder

-----------------------------------------------------------------------------
(* The torrent.                                                            *)

\* The hasher, with what it reads of a file that is not there.  In the end all is forgotten unless
\* the root is the torrent's.
hash_piece(validate, garbage, c, i) ==
  LET root_valid == root(c.t) = merkle_hash
      h == hash_of(i, IF exists THEN disk[i] ELSE garbage)
      right == exists /\ (root_valid => has(c.t, i) /\ h = c.t[node(i, 0)])
  IN IF ~validate THEN c
     ELSE [t |-> IF root_valid THEN c.t ELSE set(c.t, i, h),
           valid |-> IF right THEN c.valid \cup {i} ELSE c.valid \ {i}]
hashed_all(validate, garbage, t, v) ==
  LET c == FoldLeft(LAMBDA d, i : hash_piece(validate, garbage, d, i), [t |-> t, valid |-> v],
                    in_order(c_blocks))
  IN IF root(c.t) = merkle_hash THEN c ELSE [t |-> invalidate(c_blocks, merkle_hash), valid |-> {}]
open(t, validate) ==
  /\ ~is_up /\ is_up' = TRUE
  /\ \E garbage \in {"right", "wrong"} :
       LET c == hashed_all(validate, garbage, t, IF exists THEN valid ELSE {})
       IN tree' = c.t /\ valid' = c.valid
  /\ UNCHANGED <<c_blocks, made, disk, exists, honest, wrong>>
\* After a start of the client the tree is empty, and whether the data is hashed depends on what was
\* saved; later it is not hashed again.
start == \E v \in BOOLEAN : starts < MaxStarts /\ open(resize(c_blocks), v) /\ starts' = starts + 1
reopen == starts > 0 /\ open(tree, FALSE) /\ UNCHANGED starts
close == is_up /\ is_up' = FALSE /\ UNCHANGED <<c_blocks, made, tree, valid, disk, exists, honest, starts, wrong>>

\* What other peers may send along: all hashes there are, or some of them and others that are wrong.
AllHashes == 127
sendable(i) ==
  LET w == get(Seeder, i, AllHashes) IN
  {w} \cup IF honest THEN {}
           ELSE UNION {{[j \in 1..n |-> IF j \in S THEN leaf(0) ELSE w[j]] : S \in SUBSET (1..n)} : n \in 0..Len(w)}
test_and_set(i, v, w) == IF test(tree, i, v, w) THEN set_with(tree, i, v, w) ELSE tree
\* The chunk is written when its size is a sub piece's, which makes its piece valid.
read_merkle_piece(i, what, w) ==
  LET v == hash_of(i, what)
      written == test(tree, i, v, w) /\ i \notin valid /\ size(c_blocks, i) = 1
  IN /\ is_up /\ (honest => what = "right")
     /\ tree' = test_and_set(i, v, w)
     /\ valid' = IF written THEN valid \cup {i} ELSE valid
     /\ disk' = IF written THEN [disk EXCEPT ![i] = what] ELSE disk
     /\ exists' = (exists \/ written)
     /\ wrong' = (wrong \/ (what = "wrong" /\ test(tree, i, v, w)))
     /\ UNCHANGED <<c_blocks, made, is_up, honest, starts>>
\* Somebody removes the file.
lose_file ==
  /\ ~is_up /\ exists /\ exists' = FALSE /\ disk' = [i \in Leaves |-> "wrong"]
  /\ UNCHANGED <<c_blocks, made, is_up, tree, valid, honest, starts, wrong>>

Init ==
  /\ c_blocks \in Blocks /\ made = make(c_blocks) /\ is_up = FALSE /\ tree = resize(c_blocks) /\ valid = {}
  /\ disk \in [Leaves -> {"right", "wrong"}] /\ exists \in BOOLEAN
  /\ exists \/ \A i \in Leaves : disk[i] = "wrong"
  /\ honest \in BOOLEAN /\ starts = 0 /\ wrong = FALSE
Next ==
  \/ start \/ reopen \/ close \/ lose_file
  \/ \E i \in Leaves : \E what \in {"right", "wrong"}, w \in sendable(i) : read_merkle_piece(i, what, w)
Spec == Init /\ [][Next]_vars

-----------------------------------------------------------------------------
(* Properties.                                                             *)

\* Whatever peers send, only right chunks are accepted, and the right one with its hashes always is:
\* hashes that nothing has verified are stored, but never where they stand in the way.
ChunksJudged ==
  /\ ~wrong
  /\ is_up => \A i \in Leaves : test(tree, i, hash_of(i, "right"), get(Seeder, i, AllHashes))

\* As long as all peers are honest, the hashes sent along with a chunk convince a peer that knows
\* the root only.
ServedVerifies ==
  is_up /\ honest => \A i \in Leaves :
    has(tree, i) => test(invalidate(c_blocks, merkle_hash), i, tree[node(i, 0)], get(tree, i, AllHashes))

\* The root computed block by block when the torrent was made is that of the tree of chunks, so that
\* a file that is complete is found to be so; valid pieces are right.
SeederValid ==
  /\ root(Seeder) = merkle_hash
  /\ is_up => \A i \in valid : disk[i] = "right"
===============================================================================
