-------------------------------- MODULE Commands --------------------------------
(***************************************************************************)
(* The commands of the window (src/Client/XBT ClientDlg.cpp) and what the   *)
(* server does for them (src/BT Test/server.cpp, bt_file.cpp).  The user    *)
(* selects rows of a copy that is up to a second old, sees in a menu what   *)
(* the selected ones have in common, and gives a command; it is sent for    *)
(* the torrent of each row, by its info hash.  The dialog of a torrent's    *)
(* options writes back all it shows.  Meanwhile torrents come, go and       *)
(* change in the server.  Paused is one step here; the code takes the       *)
(* server's lock for each torrent.                                          *)
(*                                                                         *)
(* For the sub files of a torrent a command is sent by their names; the     *)
(* server derives the priorities of its pieces from them.                   *)
(***************************************************************************)
EXTENDS Integers, SequencesExt, FiniteSetsExt

CONSTANTS
  Torrents,
  Sizes,      \* of the sub files of a torrent
  PieceSize,
  MaxChanges  \* bound: commands, and changes of the server

VARIABLES
  server,    \* what the server has of its torrents
  copy,      \* the window's entries by id: a torrent and what it was like
  selected,  \* ids of the selected rows
  dialog,    \* the options dialog: the id it was opened for and what it shows, or <<>>
  priorities,\* of the sub files
  pieces,    \* priorities of the pieces
  changes,
  meant,     \* history: the torrents the user selected
  fresh      \* history: the server has not changed since the last snapshot

vars == <<server, copy, selected, dialog, priorities, pieces, changes, meant, fresh>>
window == <<copy, selected, dialog, meant>>
sub == <<priorities, pieces>>

-----------------------------------------------------------------------------
(* The server.                                                             *)

is_open(t) == t.state \in {"hashing", "paused", "running"}
\* Whether a torrent that is opened is hashed first depends on what is known of its data.
opened(t) == {[t EXCEPT !.state = s] : s \in {"hashing", "running"}}
state(t, s) ==
  IF s \in {"queued", "stopped"} \/ is_open(t) THEN {[t EXCEPT !.state = s]} ELSE opened(t)
priority(t, v) == {[t EXCEPT !.priority = v]}
\* The options write all three.
options(t, o) ==
  {[t EXCEPT !.priority = o.priority, !.ratio = Max({100, o.ratio}), !.override = o.override]}

\* Applies f to those of hs the server has; a hash it does not have is not found.
for_each(hs, f(_)) ==
  server' \in {s \in [DOMAIN server -> UNION {f(server[h]) \cup {server[h]} : h \in DOMAIN server}] :
                 \A h \in DOMAIN server : IF h \in hs THEN s[h] \in f(server[h]) ELSE s[h] = server[h]}
close(hs) == server' = [h \in DOMAIN server \ hs |-> server[h]]

new_torrent == [state |-> "queued", priority |-> 0, ratio |-> 0, override |-> FALSE]
one_more == changes < MaxChanges /\ changes' = changes + 1 /\ fresh' = FALSE
\* Hashing ends, also of one that was paused meanwhile; the queue opens a torrent, and one that has
\* its seeding ratio is closed.
moves == {<<"queued", "hashing">>, <<"queued", "running">>, <<"hashing", "running">>, <<"paused", "running">>,
          <<"running", "stopped">>}
Background ==
  /\ one_more
  /\ \/ \E h \in DOMAIN server, m \in moves :
          server[h].state = m[1] /\ server' = [server EXCEPT ![h].state = m[2]]
     \/ \E h \in Torrents \ DOMAIN server :
          server' = [k \in DOMAIN server \cup {h} |-> IF k = h THEN new_torrent ELSE server[k]]
     \/ \E h \in DOMAIN server : close({h})
  /\ UNCHANGED <<window, sub>>

-----------------------------------------------------------------------------
(* The window.                                                             *)

hash(id) == copy[id].hash
selection == {hash(id) : id \in selected}
new_id(c) == IF DOMAIN c = {} THEN 0 ELSE Max(DOMAIN c) + 1
entry(h) == [hash |-> h, t |-> server[h]]
\* New torrents get their ids, one after the other, while those that have gone still have theirs.
with_new(c) ==
  LET new == SetToSeq(DOMAIN server \ {c[id].hash : id \in DOMAIN c})
      first == new_id(c)
  IN [id \in DOMAIN c \cup first..(first + Len(new) - 1) |->
        IF id \in DOMAIN c THEN c[id] ELSE entry(new[id - first + 1])]
\* The dialog keeps a reference to its entry: what it does when that has gone is undefined, and left
\* out.
OnTimer ==
  LET read == with_new(copy)
      here == {id \in DOMAIN read : read[id].hash \in DOMAIN server}
  IN /\ copy' = [id \in here |-> entry(read[id].hash)]
     /\ selected' = selected \cap here
     /\ dialog' = IF dialog # <<>> /\ dialog.id \notin here THEN <<>> ELSE dialog
     /\ fresh' = TRUE /\ UNCHANGED <<server, sub, changes, meant>>
Select(S) ==
  /\ dialog = <<>> /\ selected' = S /\ meant' = {hash(id) : id \in S}
  /\ UNCHANGED <<server, copy, dialog, sub, changes, fresh>>

\* The mark in a menu: what the selected rows have in common.
Unknown == "unknown"
get_torrent_state ==
  LET all == {copy[id].t.state : id \in selected}
  IN IF Cardinality(all) = 1 THEN CHOOSE s \in all : TRUE ELSE Unknown
get_torrent_priority ==
  LET all == {copy[id].t.priority : id \in selected}
  IN IF Cardinality(all) = 1 THEN CHOOSE s \in all : TRUE ELSE 2

command(f(_)) == dialog = <<>> /\ one_more /\ for_each(selection, f) /\ UNCHANGED <<window, sub>>
set_torrent_state(v) == command(LAMBDA t : state(t, v))
set_torrent_priority(v) == command(LAMBDA t : priority(t, v))
\* Deleting erases the data as well, which is left out.
OnFileClose == dialog = <<>> /\ one_more /\ close(selection) /\ UNCHANGED <<window, sub>>

\* Pauses all torrents, or has all that are paused go on when none is running.
in_copy(s) == {hash(id) : id \in {i \in DOMAIN copy : copy[i].t.state = s}}
\* As if others that run did not matter.
resumed_all == in_copy("paused")
resumed == IF in_copy("running") = {} THEN in_copy("paused") ELSE {}
OnPopupPaused ==
  /\ dialog = <<>> /\ one_more
  /\ \E s \in [DOMAIN server -> UNION {state(server[h], v) : h \in DOMAIN server, v \in {"paused", "running"}}
                               \cup {server[h] : h \in DOMAIN server}] :
       /\ \A h \in DOMAIN server :
            s[h] \in CASE h \in in_copy("running") -> state(server[h], "paused")
                       [] h \in resumed -> state(server[h], "running")
                       [] OTHER -> {server[h]}
       /\ server' = s
  /\ UNCHANGED <<window, sub>>

\* The dialog of one torrent.
shown(id, p, r, o) == [id |-> id, priority |-> p, ratio |-> r, override |-> o]
OnPopupTorrentOptions ==
  /\ dialog = <<>> /\ Cardinality(selected) = 1
  /\ \E id \in selected : LET t == copy[id].t IN
       dialog' = shown(id, t.priority, t.ratio, t.override)
  /\ UNCHANGED <<server, copy, selected, sub, changes, meant, fresh>>
EditOptions(o) ==
  /\ dialog # <<>> /\ dialog' = [o EXCEPT !.id = dialog.id]
  /\ UNCHANGED <<server, copy, selected, sub, changes, meant, fresh>>
OptionsOK ==
  /\ dialog # <<>> /\ one_more
  /\ for_each({hash(dialog.id)}, LAMBDA t : options(t, dialog))
  /\ dialog' = <<>> /\ UNCHANGED <<copy, selected, sub, meant>>
OptionsCancel ==
  /\ dialog # <<>> /\ dialog' = <<>>
  /\ UNCHANGED <<server, copy, selected, sub, changes, meant, fresh>>

-----------------------------------------------------------------------------
(* Sub files.                                                              *)

Excluded == -10
Files == DOMAIN Sizes
offset(i) == MapThenSumSet(LAMBDA j : Sizes[j], 1..(i - 1))
first_piece(i) == offset(i) \div PieceSize
\* The division of the code is towards zero: a file of no size at the start has one piece.
last_piece(i) == IF offset(i) + Sizes[i] = 0 THEN 0 ELSE (offset(i) + Sizes[i] - 1) \div PieceSize
Pieces == 0..((offset(Len(Sizes) + 1) - 1) \div PieceSize)
update_piece_priorities(p) ==
  [a \in Pieces |-> Max({-128} \cup {p[i] : i \in {j \in Files : first_piece(j) <= a /\ a <= last_piece(j)}})]
set_priority(S, v) ==
  /\ dialog = <<>> /\ one_more
  /\ priorities' = [i \in Files |-> IF i \in S THEN v ELSE priorities[i]]
  /\ pieces' = IF S = {} THEN pieces ELSE update_piece_priorities(priorities')
  /\ UNCHANGED <<server, window>>

Init ==
  /\ server \in [Torrents -> {[new_torrent EXCEPT !.state = s] : s \in {"paused", "running", "stopped"}}]
  /\ copy = <<>> /\ selected = {} /\ dialog = <<>> /\ meant = {} /\ fresh = FALSE /\ changes = 0
  /\ priorities = [i \in Files |-> 0] /\ pieces = [a \in Pieces |-> 0]
Next ==
  \/ Background \/ OnTimer \/ OnPopupPaused \/ OnFileClose \/ OnPopupTorrentOptions \/ OptionsOK \/ OptionsCancel
  \/ \E S \in SUBSET DOMAIN copy : Select(S)
  \/ \E s \in {"queued", "paused", "running", "stopped"} : set_torrent_state(s)
  \/ set_torrent_priority(1)
  \/ EditOptions(shown(0, 1, 0, FALSE)) \/ EditOptions(shown(0, 0, 150, TRUE))
  \/ \E S \in SUBSET Files, v \in {Excluded, 0, 1} : set_priority(S, v)
Spec == Init /\ [][Next]_vars

-----------------------------------------------------------------------------
(* Properties.                                                             *)

\* A command for the selected rows and the options reach only torrents the user selected, although
\* rows have come and gone since.
others_kept ==
  \A h \in DOMAIN server \ meant : h \in DOMAIN server' /\ server'[h] = server[h]
MeantOnly ==
  [][(\E s \in {"queued", "paused", "running", "stopped"} : set_torrent_state(s)) \/ OnFileClose \/ OptionsOK
       => others_kept]_vars

\* Where the copy is not stale, Paused starts no torrent that was stopped, queued or hashing, and
\* leaves none running or none paused.
PausedPauses ==
  [][OnPopupPaused /\ fresh =>
       /\ \A h \in DOMAIN server : server[h].state \notin {"paused", "running"} => server'[h] = server[h]
       /\ \/ \A h \in DOMAIN server : server'[h].state # "running"
          \/ \A h \in DOMAIN server : server'[h].state # "paused"]_vars

\* Where the copy is not stale, a mark in the menu holds for every torrent that is selected, and
\* there is one when all agree.
MarkTrue == fresh /\ selected # {} =>
  LET states == {server[h].state : h \in selection}
      levels == {server[h].priority : h \in selection}
  IN /\ IF get_torrent_state = Unknown THEN Cardinality(states) > 1 ELSE states = {get_torrent_state}
     /\ IF get_torrent_priority = 2 THEN Cardinality(levels) > 1 ELSE levels = {get_torrent_priority}

\* A piece is wanted as much as the sub file that wants it most, of those that have bytes in it and
\* of the empty ones that lie in it.
has_bytes(i, a) == Sizes[i] > 0 /\ offset(i) < (a + 1) * PieceSize /\ offset(i) + Sizes[i] > a * PieceSize
lies_in(i, a) == Sizes[i] = 0 /\ offset(i) \div PieceSize = a
PiecesFollow ==
  \A a \in Pieces :
    /\ \A i \in Files : has_bytes(i, a) => pieces[a] >= priorities[i]
    /\ \E i \in Files : pieces[a] = priorities[i] /\ (has_bytes(i, a) \/ lies_in(i, a))
===============================================================================
