--------------------------------- MODULE Window ---------------------------------
(***************************************************************************)
(* The window of the XBT Client (src/Client/XBT ClientDlg.cpp): it keeps a   *)
(* copy of the server's torrents, brought up to date by the snapshots its    *)
(* timers ask for, in two lists: the torrents, and what the bottom view      *)
(* shows of one of them.  While the window is hidden the snapshots carry     *)
(* the torrents and nothing below them.                                      *)
(*                                                                         *)
(* The server is a choice: a list of torrents, each with its peers, and      *)
(* with as many sub files, pieces, trackers and events as there are.         *)
(***************************************************************************)
EXTENDS Integers, SequencesExt, FiniteSetsExt

CONSTANTS
  Hashes,    \* torrents
  Hosts,     \* addresses of peers
  MaxChanges \* bound: changes of the server

VARIABLES
  files,         \* the server's torrents, in their order
  m_files_map,   \* the window's copy: an entry for each id
  file_rows,     \* the upper list: its ids
  m_file,        \* id of the torrent shown below, or None
  m_bottom_view,
  rows,          \* the lower list: a sequence of ids
  visible, changes,
  fewer,         \* history: of the events of the lower list some were gone at once, but not all
  full,          \* history: the last snapshot carried what is below the torrents
  fresh          \* history: nothing has changed since the last snapshot

vars == <<files, m_files_map, file_rows, m_file, m_bottom_view, rows, visible, changes, fewer, full, fresh>>
entries == <<m_files_map, file_rows, m_file, m_bottom_view, rows, fewer>>

None == -1
Views == {"details", "events", "files", "peers", "pieces", "trackers"}
new_id(map) == IF DOMAIN map = {} THEN 0 ELSE Max(DOMAIN map) + 1
kept(map, S) == [i \in DOMAIN map \cap S |-> map[i]]
hashes == {files[i].hash : i \in DOMAIN files}
\* What is left of a list: its items at I, in their order.
left_at(s, I) ==
  LET left[n \in 0..Len(s)] ==
        IF n = 0 THEN <<>> ELSE IF n \in I THEN Append(left[n - 1], s[n]) ELSE left[n - 1]
  IN left[Len(s)]

-----------------------------------------------------------------------------
(* The lower list: what fill_peers shows of a torrent, and what a snapshot  *)
(* changes in it.                                                          *)

items(f, view) ==
  CASE view = "details" -> {0}
    [] view = "peers" -> DOMAIN f.peers
    [] view = "files" -> 0..(f.sub_files - 1)
    [] view = "pieces" -> 0..(f.pieces - 1)
    [] view = "events" -> 0..(f.events - 1)
    [] view = "trackers" -> 0..(f.trackers - 1)
upto(n) == [i \in 1..n |-> i - 1]
downto(n) == [i \in 1..n |-> n - i]

\* The newest event is put first.
fill_peers(f, view) ==
  CASE view = "events" -> downto(f.events)
    [] view = "peers" -> SetToSeq(DOMAIN f.peers)
    [] OTHER -> upto(Cardinality(items(f, view)))

\* The user has the rows sorted by any column.  A row of sub files or of pieces that has no item is
\* compared all the same, by whatever is there.
sort_peers(view, s) ==
  IF view \in {"details", "trackers"} THEN {s}
  ELSE {[i \in DOMAIN s |-> s[p[i]]] : p \in Bijection(DOMAIN s, DOMAIN s)}

grown(s, n) == [i \in DOMAIN s \cup 1..n |-> IF i \in DOMAIN s THEN s[i] ELSE i - 1]
newest_first(s, n) == IF Len(s) < n THEN SubSeq(downto(n), 1, n - Len(s)) \o s ELSE s
\* Trackers go from the end of the list.  Events go from its head, where they are the newest unless
\* they are sorted.  The rows of the pieces are not looked after, and those of the sub files never
\* get fewer.
refreshed(f, view, s) ==
  CASE view \in {"details", "pieces"} -> s
    [] view = "files" -> grown(s, f.sub_files)
    [] view = "trackers" -> SubSeq(grown(s, f.trackers), 1, f.trackers)
    [] view = "events" -> LET all == newest_first(s, f.events) IN SubSeq(all, Len(all) - f.events + 1, Len(all))
    [] view = "peers" ->
         LET had == left_at(s, {k \in DOMAIN s : s[k] \in DOMAIN f.peers})
         IN had \o SetToSeq(DOMAIN f.peers \ ToSet(had))
some_go(f, view, s) == view = "events" /\ f.events \in 1..(Len(s) - 1)

-----------------------------------------------------------------------------
(* Reading a snapshot.                                                     *)

\* A peer keeps the id under which its address is known; the ids of those that have gone are
\* freed when all peers have been read.
with_new(peers, hosts) ==
  LET new == SetToSeq(hosts \ {peers[i] : i \in DOMAIN peers})
      first == new_id(peers)
  IN [i \in DOMAIN peers \cup first..(first + Len(new) - 1) |->
        IF i \in DOMAIN peers THEN peers[i] ELSE new[i - first + 1]]
all_kept(peers, hosts) == peers
those_left(peers, hosts) == kept(peers, {i \in DOMAIN peers : peers[i] \in hosts})
read_peers(peers, hosts) == those_left(with_new(peers, hosts), hosts)

\* m is the window as far as the snapshot has been read.
read_file_dump(m, t) ==
  LET known == {i \in DOMAIN m.map : m.map[i].hash = t.hash}
      id == IF known = {} THEN new_id(m.map) ELSE CHOOSE i \in known : TRUE
      f == [t EXCEPT !.peers = read_peers(IF known = {} THEN <<>> ELSE m.map[id].peers, t.peers)]
  IN [map |-> [i \in DOMAIN m.map \cup {id} |-> IF i = id THEN f ELSE m.map[i]],
      file_rows |-> m.file_rows \cup {id},
      file |-> IF m.file = None THEN id ELSE m.file,
      rows |-> IF m.file = None THEN fill_peers(f, m_bottom_view)
               ELSE IF m.file = id THEN refreshed(f, m_bottom_view, m.rows) ELSE m.rows,
      fewer |-> IF m.file = None THEN FALSE
                ELSE m.fewer \/ (m.file = id /\ some_go(f, m_bottom_view, m.rows))]
read_files(m, snapshot) ==
  LET read[n \in 0..Len(snapshot)] == IF n = 0 THEN m ELSE read_file_dump(read[n - 1], snapshot[n])
  IN read[Len(snapshot)]

\* An entry the snapshot does not have goes when all have been read; the one shown below is not
\* replaced before the next snapshot.  A visible list is sorted again.
window == [map |-> m_files_map, file_rows |-> file_rows, file |-> m_file, rows |-> rows, fewer |-> fewer]
shown_after(m, gone) == IF m.file \in gone THEN None ELSE m.file
read_server_dump(snapshot) ==
  LET m == read_files(window, snapshot)
      gone == {i \in DOMAIN m.map : m.map[i].hash \notin {snapshot[k].hash : k \in DOMAIN snapshot}}
      left == IF m.file \in gone THEN <<>> ELSE m.rows
  IN /\ m_files_map' = kept(m.map, DOMAIN m.map \ gone)
     /\ file_rows' = m.file_rows \ gone
     /\ m_file' = shown_after(m, gone)
     /\ rows' \in IF visible THEN sort_peers(m_bottom_view, left) ELSE {left}
     /\ fewer' = (m.file \notin gone /\ m.fewer)
     /\ UNCHANGED m_bottom_view

\* get_status: without the flags everything below the torrents is empty.
without(t) == [hash |-> t.hash, peers |-> {}, sub_files |-> 0, pieces |-> 0, trackers |-> 0, events |-> 0]
OnTimer ==
  /\ full' = visible /\ fresh' = TRUE
  /\ read_server_dump(IF visible THEN files ELSE [i \in DOMAIN files |-> without(files[i])])
  /\ UNCHANGED <<files, visible, changes>>

-----------------------------------------------------------------------------
(* The user.                                                               *)

OnItemchangedFiles(id) ==
  /\ visible /\ m_file # id /\ m_file' = id /\ fewer' = FALSE
  /\ rows' \in sort_peers(m_bottom_view, fill_peers(m_files_map[id], m_bottom_view))
  /\ UNCHANGED <<files, m_files_map, file_rows, m_bottom_view, visible, changes, full, fresh>>
set_bottom_view(v) ==
  /\ visible /\ v # m_bottom_view /\ m_bottom_view' = v /\ fewer' = FALSE
  /\ rows' \in IF m_file = None THEN {<<>>} ELSE sort_peers(v, fill_peers(m_files_map[m_file], v))
  /\ UNCHANGED <<files, m_files_map, file_rows, m_file, visible, changes, full, fresh>>
OnColumnclickPeers ==
  /\ visible /\ rows' \in sort_peers(m_bottom_view, rows)
  /\ UNCHANGED <<files, m_files_map, file_rows, m_file, m_bottom_view, visible, changes, fewer, full, fresh>>
ShowWindow ==
  /\ visible' = ~visible /\ UNCHANGED <<files, entries, changes, full, fresh>>

\* A command for the selected rows: the server forgets them.
OnFileClose(S) ==
  /\ visible /\ S # {} /\ fresh' = FALSE
  /\ files' = left_at(files, {k \in DOMAIN files : \A id \in S : files[k].hash # m_files_map[id].hash})
  /\ UNCHANGED <<entries, visible, changes, full>>

\* What happens in the server meanwhile: a torrent comes, with its info or without and perhaps with
\* an event, goes, gets its info, another list of trackers, peers and events.
changed(t) ==
  {[t EXCEPT !.peers = S] : S \in SUBSET Hosts}
  \cup {[t EXCEPT !.sub_files = 2, !.pieces = 2], [t EXCEPT !.trackers = 1 - @],
        [t EXCEPT !.events = IF @ < 2 THEN @ + 1 ELSE @]}
new_torrent(h, n, events) ==
  [hash |-> h, peers |-> {}, sub_files |-> n, pieces |-> n, trackers |-> 1, events |-> events]
Change ==
  /\ changes < MaxChanges /\ changes' = changes + 1 /\ fresh' = FALSE
  /\ \/ \E h \in Hashes \ hashes, n \in {0, 2}, events \in {0, 1} : files' = Append(files, new_torrent(h, n, events))
     \/ \E i \in DOMAIN files : files' = left_at(files, DOMAIN files \ {i})
     \/ \E i \in DOMAIN files : \E t \in changed(files[i]) : files' = [files EXCEPT ![i] = t]
  /\ UNCHANGED <<entries, visible, full>>

Init ==
  /\ files = <<>> /\ m_files_map = <<>> /\ file_rows = {} /\ m_file = None
  /\ m_bottom_view \in Views /\ rows = <<>> /\ visible = TRUE /\ changes = 0
  /\ fewer = FALSE /\ full = TRUE /\ fresh = FALSE
Next ==
  \/ OnTimer \/ Change \/ ShowWindow \/ OnColumnclickPeers
  \/ \E id \in DOMAIN m_files_map : OnItemchangedFiles(id)
  \/ \E v \in Views : set_bottom_view(v)
  \/ \E S \in SUBSET file_rows : OnFileClose(S)
Spec == Init /\ [][Next]_vars

-----------------------------------------------------------------------------
(* Properties.                                                             *)

\* Every row has something to show when it is drawn: the upper list has a row for each entry, the
\* torrent of the lower list is an entry, and the rows of the lower list stand for items of it.
\* Only sub files and pieces may be gone while their rows are there, and then all of them are, after
\* a snapshot for a hidden window or for a torrent that was opened again without its info; drawing
\* looks for that.  And events may, of which some have gone at once, which is when their torrent
\* was opened again and has had an event before the next snapshot: nothing looks for that.
RowsHaveItems ==
  /\ file_rows = DOMAIN m_files_map /\ m_file \in DOMAIN m_files_map \cup {None}
  /\ IF m_file = None THEN rows = <<>>
     ELSE LET here == items(m_files_map[m_file], m_bottom_view)
          IN \/ {rows[i] : i \in DOMAIN rows} \subseteq here
             \/ m_bottom_view \in {"files", "pieces"} /\ here = {}
             \/ fewer

\* After a snapshot the entries are the server's torrents, each with the peers it has; and, except
\* for the pieces, the lower list leaves nothing of its torrent out and shows nothing twice.
SameAsServer ==
  /\ \A i, j \in DOMAIN m_files_map : m_files_map[i].hash = m_files_map[j].hash => i = j
  /\ fresh => {m_files_map[i].hash : i \in DOMAIN m_files_map} = hashes
  /\ fresh /\ full => \A i \in DOMAIN m_files_map, k \in DOMAIN files :
       LET shown == m_files_map[i].peers IN
       m_files_map[i].hash = files[k].hash =>
         /\ files[k].peers = {shown[p] : p \in DOMAIN shown}
         /\ \A p, q \in DOMAIN shown : shown[p] = shown[q] => p = q
  /\ m_file # None /\ m_bottom_view # "pieces" /\ ~fewer =>
       /\ items(m_files_map[m_file], m_bottom_view) \subseteq {rows[i] : i \in DOMAIN rows}
       /\ \A i, j \in DOMAIN rows : rows[i] = rows[j] => i = j
===============================================================================
