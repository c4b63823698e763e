---------------------------------- MODULE Files ----------------------------------
(***************************************************************************)
(* The files of a torrent in the XBT Client (src/BT Test/bt_file.cpp,       *)
(* bt_hasher.cpp): the pieces run across the sub files, so a chunk is        *)
(* written to several of them, a missing one takes the pieces of its         *)
(* neighbours with it, and what is left is counted for each.  A file with    *)
(* nothing left is opened for reading only; when all are, the torrent moves  *)
(* from the directory of the incompletes to that of the completes.           *)
(*                                                                         *)
(* Torrents with piece hashes.  A byte on disk is "right", "wrong" or, in a  *)
(* file that was created at its full length, a "hole".                       *)
(***************************************************************************)
EXTENDS Integers, Sequences, FiniteSets, FiniteSetsExt

CONSTANTS
  Offsets,   \* of the sub files in the torrent, in bytes, and of its end
  PieceBytes, ChunkBytes,
  MaxFaults  \* bound: failing writes, wrong chunks, removals, crashes, stops

\* The sub files follow each other, and are of no bytes at least.
ASSUME FilesAssumption ==
  /\ Offsets \in Seq(Nat) /\ Len(Offsets) > 0 /\ Offsets[1] = 0
  /\ \A i, j \in DOMAIN Offsets : i <= j => Offsets[i] <= Offsets[j]
  /\ PieceBytes \in Nat \ {0} /\ ChunkBytes \in Nat \ {0} /\ MaxFaults \in Nat

VARIABLES
  m_name,   \* "unset", or the directory the name begins with
  files,    \* by directory and sub file: its bytes, or Missing
  handle,   \* m_f of each sub file: "none", "ro" or "rw"
  left,     \* left() of each sub file
  m_left, pieces, m_validate,
  state,    \* "stopped", "hashing", "running" or "paused"
  hashed,   \* m_i of the hasher, or NoHasher
  saved,    \* the torrent in state.bin
  spoilt,   \* history: what has happened of "removed" (a file) and "crashed"
  faults

torrent == <<m_name, handle, left, m_left, pieces, m_validate, state, hashed>>
vars == <<torrent, files, saved, spoilt, faults>>

Sub == 1..Len(Offsets) - 1
Missing == <<>>
NoHasher == -1
Dirs == {"incompletes", "completes"}

-----------------------------------------------------------------------------
(* Offsets.                                                                *)

length(i) == Offsets[i + 1] - Offsets[i]
Size == Offsets[Len(Offsets)]
Pieces == 0..((Size + PieceBytes - 1) \div PieceBytes) - 1
least(a, b) == IF a < b THEN a ELSE b
most(a, b) == IF a < b THEN b ELSE a
piece_size(a) == least(PieceBytes, Size - a * PieceBytes)
chunks(a) == 0..((piece_size(a) + ChunkBytes - 1) \div ChunkBytes) - 1
\* The bytes from x on, n of them, by sub file: what the loops over m_sub_files visit.
within(i, x, n) == most(Offsets[i], x)..least(Offsets[i + 1], x + n) - 1
touched(x, n) == {i \in Sub : within(i, x, n) # {}}
of_piece(i, a) == Cardinality(within(i, a * PieceBytes, piece_size(a)))
pieces_of(i) == IF length(i) = 0 THEN {} ELSE Offsets[i] \div PieceBytes..(Offsets[i + 1] - 1) \div PieceBytes

here(dir, i) == files[dir][i] # Missing
\* read_data, of a piece: each file is open and has the bytes.
readable(a) == \A i \in touched(a * PieceBytes, piece_size(a)) : handle[i] # "none"
right(fs, a) ==
  \A i \in Sub : \A k \in within(i, a * PieceBytes, piece_size(a)) :
    fs[i] # Missing /\ fs[i][k - Offsets[i] + 1] = "right"

new_piece == [valid |-> FALSE, got |-> {}]
\* valid(v): the chunks a piece has got are kept when it is found invalid.
set_valid(p, v) ==
  IF v THEN [valid |-> TRUE, got |-> {}] ELSE [p EXCEPT !.valid = FALSE]
\* The bytes from x to y - 1 that are of invalid pieces.
invalid_bytes(ps, x, y) == Cardinality({k \in x..y - 1 : ~ps[k \div PieceBytes].valid})
invalid_size(ps) == invalid_bytes(ps, 0, Size)
left_of(ps, i) == invalid_bytes(ps, Offsets[i], Offsets[i + 1])

-----------------------------------------------------------------------------
(* open, the hasher, close.                                                *)

is_open == state \in {"hashing", "running", "paused"}
name_at_open(name) ==
  IF name # "unset" THEN name
  ELSE IF \E i \in Sub : here("completes", i) THEN "completes" ELSE "incompletes"

\* A sub file is closed and opened for reading when nothing of it is left, as soon as the hasher,
\* or the piece that was its last, says so.  One of length 0 is not there.
reopened(name, i) == IF here(name, i) THEN "ro" ELSE "none"
at_end(h, l, name) == [i \in Sub |-> IF l[i] = 0 THEN reopened(name, i) ELSE h[i]]
lost(name) == UNION {pieces_of(i) : i \in {j \in Sub : ~here(name, j)}}

\* Opening a torrent of which m is what is remembered.
open(m) ==
  LET name == name_at_open(m.name)
      ps == [a \in Pieces |-> IF a \in lost(name) THEN set_valid(m.pieces[a], FALSE) ELSE m.pieces[a]]
      opened == [i \in Sub |-> IF here(name, i) THEN "rw" ELSE "none"]
  IN /\ m_name' = name /\ pieces' = ps /\ m_validate' = m.validate
     /\ IF m.validate
        THEN /\ state' = "hashing" /\ hashed' = 0 /\ m_left' = 0 /\ left' = [i \in Sub |-> 0]
             /\ handle' = opened
        ELSE /\ state' = "running" /\ hashed' = NoHasher /\ m_left' = invalid_size(ps)
             /\ left' = [i \in Sub |-> left_of(ps, i)]
             /\ handle' = at_end(opened, left', name)
this == [name |-> m_name, pieces |-> pieces, validate |-> m_validate]

start ==
  /\ ~is_open /\ open(this) /\ UNCHANGED <<files, saved, spoilt, faults>>

\* Cbt_hasher::run: a piece, its bytes counted for the sub files they are of; a sub file is done
\* with when its last byte is.
hash_piece ==
  /\ hashed # NoHasher
  /\ IF hashed \in Pieces
     THEN LET a == hashed
              v == readable(a) /\ right(files[m_name], a)
              ended == {i \in Sub : length(i) > 0 /\ Max(pieces_of(i)) = a}
          IN /\ pieces' = [pieces EXCEPT ![a] = set_valid(@, v)]
             /\ m_left' = IF v THEN m_left ELSE m_left + piece_size(a)
             /\ left' = [i \in Sub |-> IF v THEN left[i] ELSE left[i] + of_piece(i, a)]
             /\ handle' = [i \in Sub |-> IF i \in ended /\ left'[i] = 0 THEN reopened(m_name, i) ELSE handle[i]]
             /\ hashed' = a + 1 /\ UNCHANGED <<state, m_validate>>
     ELSE /\ hashed' = NoHasher /\ m_validate' = FALSE /\ state' = "running"
          /\ UNCHANGED <<pieces, m_left, left, handle>>
  /\ UNCHANGED <<m_name, files, saved, spoilt, faults>>

close ==
  /\ is_open /\ faults < MaxFaults /\ faults' = faults + 1
  /\ m_validate' = (hashed # NoHasher) /\ hashed' = NoHasher
  /\ handle' = [i \in Sub |-> "none"] /\ state' = "stopped"
  /\ UNCHANGED <<m_name, left, m_left, pieces, files, saved, spoilt>>

-----------------------------------------------------------------------------
(* write_data.                                                             *)

\* A chunk of a piece goes to each sub file it has bytes of.  A missing one is created at its
\* full length.  Those in bad refuse to be written; so does one that is open for reading only.
written(fs, x, n, value, bad) ==
  [i \in Sub |->
     IF i \notin touched(x, n) \/ i \in bad \/ handle[i] = "ro" THEN fs[i]
     ELSE [k \in 1..length(i) |->
             IF Offsets[i] + k - 1 \in within(i, x, n) THEN value
             ELSE IF fs[i] = Missing THEN "hole" ELSE fs[i][k]]]

\* When nothing is left the files are closed, the directory is renamed unless the completes have
\* one of the name, and the files are opened again.
complete(fs) ==
  IF m_left' = 0 /\ m_name = "incompletes"
  THEN LET free == \A i \in Sub : fs["completes"][i] = Missing
           all == IF free THEN [incompletes |-> [i \in Sub |-> Missing], completes |-> fs["incompletes"]] ELSE fs
           name == IF free THEN "completes" ELSE m_name
       IN /\ files' = all /\ m_name' = name
          /\ handle' = [i \in Sub |-> IF all[name][i] # Missing THEN "ro" ELSE "none"]
  ELSE /\ files' = fs /\ UNCHANGED m_name
       /\ handle' = [i \in Sub |-> IF fs[m_name][i] = Missing THEN "none"
                                   ELSE IF left[i] # left'[i] /\ left'[i] = 0 THEN "ro"
                                   ELSE IF handle[i] = "none" THEN "rw" ELSE handle[i]]
left_whole(a) == [i \in Sub |-> IF of_piece(i, a) = 0 THEN left[i] ELSE left[i] - piece_size(a)]
left_after(a) == [i \in Sub |-> left[i] - of_piece(i, a)]
chunk_start(a, c) == a * PieceBytes + c * ChunkBytes
chunk_size(a, c) == least(ChunkBytes, piece_size(a) - c * ChunkBytes)
write_data(a, c, value, bad) ==
  LET x == chunk_start(a, c)
      n == chunk_size(a, c)
      fs == [files EXCEPT ![m_name] = written(@, x, n, value, bad)]
      got == pieces[a].got \cup {c}
      v == got = chunks(a) /\ right(fs[m_name], a)
  IN /\ state \in {"running", "paused"} /\ hashed = NoHasher
     /\ ~pieces[a].valid /\ c \notin pieces[a].got
     /\ LET cost == IF bad = {} /\ value = "right" THEN 0 ELSE 1
        IN faults + cost <= MaxFaults /\ faults' = faults + cost
     /\ state' = IF \E i \in touched(x, n) : i \in bad \/ handle[i] = "ro" THEN "paused" ELSE state
     /\ pieces' = [pieces EXCEPT ![a] = [valid |-> v, got |-> IF got = chunks(a) THEN {} ELSE got]]
     /\ m_left' = IF v THEN m_left - piece_size(a) ELSE m_left
     /\ left' = IF v THEN left_after(a) ELSE left
     /\ complete(fs)
  /\ UNCHANGED <<m_validate, hashed, saved, spoilt>>

-----------------------------------------------------------------------------
(* state.bin, and what happens to the files.                               *)

save_state ==
  /\ saved' = [name |-> m_name, pieces |-> pieces, open |-> is_open,
               validate |-> (m_left # 0) \/ m_validate]
  /\ UNCHANGED <<torrent, files, spoilt, faults>>
\* A crash, and load_state by the process that comes next.
crash ==
  /\ faults < MaxFaults /\ faults' = faults + 1 /\ spoilt' = spoilt \cup {"crashed"}
  /\ IF saved.open THEN open(saved)
     ELSE /\ m_name' = saved.name /\ pieces' = saved.pieces /\ m_validate' = saved.validate
          /\ state' = "stopped" /\ hashed' = NoHasher /\ m_left' = -1
          /\ handle' = [i \in Sub |-> "none"] /\ left' = [i \in Sub |-> 0]
  /\ UNCHANGED <<files, saved>>
remove(dir, i) ==
  /\ ~is_open /\ here(dir, i) /\ faults < MaxFaults /\ faults' = faults + 1
  /\ files' = [files EXCEPT ![dir][i] = Missing] /\ spoilt' = spoilt \cup {"removed"}
  /\ UNCHANGED <<torrent, saved>>

Init ==
  /\ m_name = "unset" /\ files = [dir \in Dirs |-> [i \in Sub |-> Missing]]
  /\ handle = [i \in Sub |-> "none"] /\ left = [i \in Sub |-> 0] /\ m_left = -1
  /\ pieces = [a \in Pieces |-> new_piece] /\ m_validate = TRUE
  /\ state = "stopped" /\ hashed = NoHasher
  /\ saved = [name |-> m_name, pieces |-> pieces, open |-> FALSE, validate |-> TRUE]
  /\ spoilt = {} /\ faults = 0
Next ==
  \/ start \/ hash_piece \/ close \/ save_state \/ crash
  \/ \E dir \in Dirs, i \in Sub : remove(dir, i)
  \/ \E a \in Pieces : \E c \in chunks(a) :
       \E value \in {"right", "wrong"}, bad \in SUBSET touched(chunk_start(a, c), chunk_size(a, c)) :
         write_data(a, c, value, bad)
Spec == Init /\ [][Next]_vars

-----------------------------------------------------------------------------
(* Properties, of a torrent that is open and not being hashed.             *)

ready == is_open /\ hashed = NoHasher

\* What is left of the torrent and of each of its files is what the invalid pieces have of them,
\* whatever pieces are shared by files, and through removals, crashes and restarts.
LeftAddsUp == ready => m_left = invalid_size(pieces) /\ \A i \in Sub : left[i] = left_of(pieces, i)

\* A valid piece is on disk, right and in files that are open; unless a file was removed and the
\* program crashed (state.bin may then call valid what the new file does not hold).
ValidOnDisk ==
  ready /\ spoilt # {"removed", "crashed"}
  => \A a \in Pieces : pieces[a].valid => readable(a) /\ right(files[m_name], a)

\* No file that something is left of is open for reading only, where every chunk of it would be
\* refused and the torrent paused.
WritableWhileLeft == ready => \A i \in Sub : handle[i] = "ro" => left_of(pieces, i) = 0

\* What is left is counted right, valid pieces are on disk, and what is left can be written.
FilesHoldData == LeftAddsUp /\ ValidOnDisk /\ WritableWhileLeft
===============================================================================
