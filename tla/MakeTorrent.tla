------------------------------- MODULE MakeTorrent -------------------------------
(***************************************************************************)
(* How the XBT Client makes a torrent of the user's files                   *)
(* (src/Client/dlg_make_torrent.cpp) and then opens it to share them          *)
(* (src/Client/XBT ClientDlg.cpp, src/BT Test/bt_file.cpp): files are          *)
(* collected from what is dropped on the dialog, hashed in the order of their *)
(* names, and written to a torrent, which the client reads, looking for the   *)
(* files where it expects them.                                            *)
(*                                                                         *)
(* A file is its units of data, a hash is the data itself; a hash tree's root *)
(* is in module MerkleTree.  Meanwhile other programs write to the files, or   *)
(* lock them.                                                              *)
(***************************************************************************)
EXTENDS Integers, SequencesExt, FiniteSetsExt

CONSTANTS
  Places,     \* paths, in their order: sequences of names; where nothing is below, a file may be
  Skipped,    \* names that are left out: desktop.ini and thumbs.db
  Dotted,     \* names that begin with a dot
  Sizes,      \* units files have at first
  MaxSize,    \* bound: units of a file that is written to
  BasePiece, MaxPieces,   \* 256 KB, 4096 pieces
  MerklePiece,            \* 1 MB
  LargestPiece, LargestShown, \* what the server takes (16 MB), and what the window does (4 MB)
  SmallFile,   \* what the window takes for a torrent (512 KB)
  MaxFiles,    \* entries with which there is no saving any more (256)
  TrackerTexts, \* what the user may type for trackers: sequences of characters, " " for any blank
  Other,       \* a torrent whose trackers may be loaded: announce and announces
  MaxInserts  \* bound

VARIABLES
  disk,    \* for each path the units that are there, and how many of them can be read
  is_up,   \* the dialog is there
  m_map,   \* its entries: path and size
  m_name,
  name,    \* what the dialog shows as the name, which is m_name only when it was taken from there
  m_tracker, m_trackers,
  torrent, \* what was saved, or None
  opened   \* what the client made of it, or None

dialog == <<m_map, m_name, name>>
trackers == <<m_tracker, m_trackers>>
vars == <<disk, is_up, dialog, trackers, torrent, opened>>
None == [kind |-> "none"]
base_name(p) == Last(p)
directory(p) == Front(p)
content(p, n) == [k \in 1..n |-> <<p, k>>]
is_directory(p) == \E q \in ToSet(Places) : Len(q) > Len(p) /\ IsPrefix(p, q)
Paths == SelectSeq(Places, LAMBDA p : ~is_directory(p))
files == {p \in ToSet(Paths) : disk[p].size > 0}

-----------------------------------------------------------------------------
(* The dialog.                                                             *)

\* The files below a directory, but for those that begin with a dot or are in one that does.
below(p) == {q \in files : /\ Len(q) > Len(p) /\ IsPrefix(p, q)
                           /\ \A i \in (Len(p) + 1)..Len(q) : q[i] \notin Skipped \cup Dotted}
\* A directory gives a torrent without a name its own, whatever the user typed meanwhile.
insert(m, p) ==
  LET found == SetToSeq(IF is_directory(p) THEN below(p) ELSE {p} \cap files)
      named == is_directory(p) /\ m.m_name = ""
  IN IF base_name(p) \in Skipped THEN m
     ELSE [m_map  |-> m.m_map \o [i \in DOMAIN found |-> [name |-> found[i], size |-> disk[found[i]].size]],
           m_name |-> IF named THEN base_name(p) ELSE m.m_name,
           name   |-> IF named THEN base_name(p) ELSE m.name]
\* And a single file.
post_insert(m) ==
  IF Len(m.m_map) # 1 THEN m
  ELSE LET n == base_name(m.m_map[1].name) IN [m EXCEPT !.m_name = n, !.name = n]
become(m) == Len(m.m_map) <= MaxInserts /\ m_map' = m.m_map /\ m_name' = m.m_name /\ name' = m.name
OnDropFiles(dropped) ==
  /\ is_up
  /\ become(post_insert(FoldLeft(insert, [m_map |-> m_map, m_name |-> m_name, name |-> name], dropped)))
  /\ UNCHANGED <<disk, is_up, trackers, torrent, opened>>

\* The window makes the dialog, with or without files; of those that are dropped on it, it takes
\* small ones for torrents.  The dialog shows its name when it appears.
OnInitDialog(dropped) ==
  LET inserted == FoldLeft(insert, [m_map |-> <<>>, m_name |-> "", name |-> ""], dropped)
  IN /\ ~is_up /\ torrent = None /\ is_up' = TRUE
     /\ become(post_insert([inserted EXCEPT !.name = inserted.m_name]))
     /\ UNCHANGED <<disk, trackers, torrent, opened>>
OnFileNew == OnInitDialog(<<>>)
OnDropFiles_window(dropped) ==
  LET names == SelectSeq(Places, LAMBDA p : p \in dropped /\ (is_directory(p) \/ disk[p].size > SmallFile))
  IN names # <<>> /\ OnInitDialog(names)

\* The user types a name, or trackers, which a bound has him do before there are files.
EditName(v) ==
  /\ is_up /\ name # v /\ name' = v
  /\ UNCHANGED <<disk, is_up, m_map, m_name, trackers, torrent, opened>>
EditTrackers(v) ==
  /\ is_up /\ m_map = <<>> /\ m_trackers' = v /\ UNCHANGED <<disk, is_up, dialog, m_tracker, torrent, opened>>
\* All members take what the dialog shows before.
OnLoadTrackers ==
  /\ is_up /\ m_name' = name
  /\ m_tracker' = Other.announce /\ m_trackers' = FlattenSeq([i \in DOMAIN Other.announces |-> Other.announces[i] \o <<" ", " ">>])
  /\ UNCHANGED <<disk, is_up, m_map, name, torrent, opened>>

\* The sizes are those of when the files were inserted.
total == FoldLeft(LAMBDA a, e : a + e.size, 0, m_map)
Doublings == {BasePiece * 2 ^ k : k \in 0..Max(Sizes \cup {MaxSize})}
piece_size(merkle) ==
  IF merkle THEN MerklePiece ELSE Min({c \in Doublings : total \div c <= MaxPieces})

\* The buffer is hashed when it is full, whatever file its units are from.
filled(b, u, cb) ==
  LET w == Append(b.w, u) IN
  IF Len(w) = cb THEN [w |-> <<>>, pieces |-> Append(b.pieces, w)] ELSE [b EXCEPT !.w = w]
flushed(b) == IF b.w = <<>> THEN b ELSE [w |-> <<>>, pieces |-> Append(b.pieces, b.w)]
read_file(b, p, cb) == FoldLeft(LAMBDA c, u : filled(c, u, cb), b, content(p, disk[p].readable))
\* The words between the blanks.
ended(b) == IF b.w = <<>> THEN b ELSE [w |-> <<>>, urls |-> Append(b.urls, b.w)]
parse_trackers(v) ==
  ended(FoldLeft(LAMBDA b, c : IF c = " " THEN ended(b) ELSE [b EXCEPT !.w = Append(@, c)],
                 [w |-> <<>>, urls |-> <<>>], v)).urls
\* A merkle torrent is saved packed when that is shorter.
OnSave(merkle, packed) ==
  LET set == SelectSeq(Paths, LAMBDA p : \E e \in ToSet(m_map) : e.name = p)
      cb == piece_size(merkle)
      pieces == flushed(FoldLeft(LAMBDA b, p : read_file(b, p, cb), [w |-> <<>>, pieces |-> <<>>], set)).pieces
      entry(p) == [name |-> base_name(p), length |-> disk[p].readable,
                   merkle_hash |-> IF merkle THEN content(p, disk[p].readable) ELSE <<>>]
      single == Len(m_map) = 1
  IN /\ is_up /\ m_map # <<>> /\ Len(m_map) < MaxFiles /\ (packed => merkle)
     /\ is_up' = FALSE /\ m_name' = name
     /\ torrent' = [kind |-> "torrent", single |-> single, packed |-> packed,
                    name |-> IF single THEN base_name(set[1]) ELSE name,
                    announce |-> m_tracker,
                    announce_list |-> IF m_trackers = <<>> THEN <<>> ELSE parse_trackers(m_trackers),
                    piece_length |-> cb, pieces |-> IF merkle THEN <<>> ELSE pieces,
                    files |-> [i \in DOMAIN set |-> entry(set[i])]]
     /\ UNCHANGED <<disk, m_map, name, trackers, opened>>

-----------------------------------------------------------------------------
(* The client.                                                             *)

\* The window's own look at the torrent, which it does not unpack.
valid(t) ==
  /\ ~t.packed /\ t.name \notin {""} \cup Dotted /\ t.piece_length <= LargestShown
  /\ t.single \/ \A i \in DOMAIN t.files : t.files[i].name \notin Dotted

\* A merkle torrent is one without hashes of pieces; its files begin with a piece of their own.
is_merkle(t) == t.pieces = <<>>
all_units(t) == FoldLeft(LAMBDA a, f : a + f.length, 0, t.files)
up(n, cb) == (n + cb - 1) \div cb
offsets(t) ==
  LET after(o, f) == IF is_merkle(t) THEN up(o + f.length, t.piece_length) * t.piece_length ELSE o + f.length
  IN [i \in DOMAIN t.files |-> FoldLeft(after, 0, SubSeq(t.files, 1, i - 1))]
c_pieces(t) == IF is_merkle(t) THEN FoldLeft(LAMBDA a, f : a + up(f.length, t.piece_length), 0, t.files)
               ELSE up(all_units(t), t.piece_length)
info(t) ==
  /\ t.name # "" /\ all_units(t) >= 1 /\ t.piece_length <= LargestPiece
  /\ IF is_merkle(t) THEN \A i \in DOMAIN t.files : t.files[i].merkle_hash # <<>>
     ELSE Len(t.pieces) = c_pieces(t)

\* The user points at a single file, or at the directory the torrent's directory is in.
open(t, first) ==
  [i \in DOMAIN t.files |->
     IF Len(t.files) = 1 THEN IF t.single THEN first ELSE first \o <<t.files[i].name>>
     ELSE directory(directory(first)) \o <<t.name, t.files[i].name>>]
\* The units of the torrent, where its files are; a unit can be read when the file has it.
units(t, at) ==
  FlattenSeq([i \in DOMAIN t.files |-> [k \in 1..t.files[i].length |->
    IF at[i] \in files /\ disk[at[i]].size >= k THEN <<at[i], k>> ELSE <<>>]])
read_data(t, at, o, n) == SubSeq(units(t, at), o + 1, Min({o + n, all_units(t)}))
\* The hasher: pieces one by one, or whole files.
hash(t, at) ==
  IF is_merkle(t)
  THEN LET before(i) == all_units([files |-> SubSeq(t.files, 1, i - 1)])
       IN {i \in DOMAIN t.files : read_data(t, at, before(i), t.files[i].length) = t.files[i].merkle_hash}
  ELSE {a \in DOMAIN t.pieces : read_data(t, at, (a - 1) * t.piece_length, t.piece_length) = t.pieces[a]}
all_trackers(t) == IF t.announce_list = <<>> THEN <<t.announce>> ELSE t.announce_list
Seed ==
  /\ torrent # None /\ opened = None
  /\ LET first == CHOOSE p \in ToSet(Paths) : \E e \in ToSet(m_map) : e.name = p
         at == open(torrent, first)
     IN opened' = IF valid(torrent) /\ info(torrent)
                  THEN [kind |-> "open", valid |-> hash(torrent, at), offsets |-> offsets(torrent), at |-> at,
                        trackers |-> all_trackers(torrent)]
                  ELSE [kind |-> "refused"]
  /\ UNCHANGED <<disk, is_up, dialog, trackers, torrent>>

\* Another program writes to a file, or locks it; it is done once.
write(p, n, r) ==
  /\ torrent = None /\ disk[p].size > 0
  /\ \A q \in ToSet(Paths) : disk[q].size \in Sizes /\ disk[q].readable = disk[q].size
  /\ disk' = [disk EXCEPT ![p] = [size |-> n, readable |-> r]]
  /\ UNCHANGED <<is_up, dialog, trackers, torrent, opened>>

Init ==
  /\ disk \in [ToSet(Paths) -> {[size |-> n, readable |-> n] : n \in Sizes}]
  /\ is_up = FALSE /\ m_map = <<>> /\ m_name = "" /\ name = "" /\ m_tracker = <<"t">> /\ m_trackers = <<>>
  /\ torrent = None /\ opened = None
Next ==
  \/ OnFileNew \/ OnLoadTrackers
  \/ \E p, q \in ToSet(Places) : OnDropFiles(IF p = q THEN <<p>> ELSE <<p, q>>) \/ OnDropFiles_window({p, q})
  \/ \E v \in TrackerTexts : EditTrackers(v)
  \/ \E p \in ToSet(Paths) : EditName(Last(directory(p)))
  \/ \E p \in ToSet(Paths), n \in 1..MaxSize : \E r \in {0, n} : write(p, n, r)
  \/ \E merkle, packed \in BOOLEAN : OnSave(merkle, packed)
  \/ Seed
Spec == Init /\ [][Next]_vars

-----------------------------------------------------------------------------
(* Properties.                                                             *)

\* Whoever makes a torrent of files in one directory and shares them at once has all of it, however
\* the files ended up in the dialog and whatever was written to them or locked until then.  The
\* client refuses its own torrent when it was given no name, nothing could be read, a merkle
\* torrent has a file that could not be read or was packed, a name begins with a dot, or it is so
\* large that pieces grow beyond what the window takes (above 16 GB); and it does not find the
\* files when the torrent is not named after their directory, or one file was dropped more than once.
\* It announces to the trackers the user typed, whatever blanks are between them, or else to the first.
in_one_place ==
  LET ps == {e.name : e \in ToSet(m_map)} IN
  /\ Cardinality({directory(p) : p \in ps}) = 1
  /\ torrent.single \/ (Cardinality(ps) > 1 /\ \A p \in ps : Last(directory(p)) = torrent.name)
typed(v) ==
  LET begins == {i \in DOMAIN v : v[i] # " " /\ (i > 1 => v[i - 1] = " ")}
      last(i) == Max({j \in i..Len(v) : \A k \in i..j : v[k] # " "})
  IN [n \in 1..Cardinality(begins) |-> LET i == SetToSortSeq(begins, <)[n] IN SubSeq(v, i, last(i))]
refusable ==
  \/ torrent.name = "" \/ all_units(torrent) = 0 \/ torrent.piece_length > LargestShown \/ torrent.packed
  \/ torrent.name \in Dotted \/ \E i \in DOMAIN torrent.files : torrent.files[i].name \in Dotted
  \/ is_merkle(torrent) /\ \E i \in DOMAIN torrent.files : torrent.files[i].length = 0
MadeIsShared == opened # None =>
  IF opened.kind = "refused" THEN refusable
  ELSE
  /\ opened.trackers = (IF typed(m_trackers) = <<>> THEN <<m_tracker>> ELSE typed(m_trackers))
  /\ in_one_place =>
    /\ opened.valid = 1..Len(IF is_merkle(torrent) THEN torrent.files ELSE torrent.pieces)
    /\ \A i, j \in DOMAIN torrent.files : i < j =>
         opened.offsets[i] + torrent.files[i].length <= opened.offsets[j]
===============================================================================
