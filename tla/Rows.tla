---------------------------------- MODULE Rows ----------------------------------
(***************************************************************************)
(* What the rows of the window's lists show and the order they are in       *)
(* (src/Client/XBT ClientDlg.cpp): the cells of each view, the comparison   *)
(* for each column, the headers the user clicks, and the summary of all      *)
(* torrents.  Every second a visible window reads a snapshot and sorts both  *)
(* lists; for a hidden one it reads a short snapshot a minute, unsorted.     *)
(*                                                                         *)
(* One list is looked at: that of the torrents, or the lower one with its   *)
(* views.  Texts and addresses are numbers in their order, without case; the *)
(* products that compare sub files are exact.  The control that sorts may   *)
(* leave equal rows in any order.                                          *)
(***************************************************************************)
EXTENDS Integers, SequencesExt, FiniteSetsExt, Functions

CONSTANTS
  Contents,  \* for each view: what its rows may be, a set of sequences of items
  MaxClicks  \* bound: clicks on headers

VARIABLES
  view,    \* "torrents", or the bottom view
  items,   \* the window's copy of what the view shows; an item's place is its row's id
  rows,    \* the ids, from top to bottom
  sort,    \* for each view: [column, reverse], as the members named for it
  profile, \* what of it is saved
  global,  \* m_global_details
  clicks,
  fresh    \* history: the rows have been sorted since they changed

vars == <<view, items, rows, sort, profile, global, clicks, fresh>>
Bottom == DOMAIN Contents \ {"torrents"}

\* Division of the code: towards zero.
magnitude(a) == IF a < 0 THEN -a ELSE a
quot(a, b) ==
  LET q == magnitude(a) \div magnitude(b) IN IF (a < 0) = (b < 0) THEN q ELSE -q
Number(b) == IF b THEN 1 ELSE 0
blank == <<>>
unless0(x) == IF x = 0 THEN blank ELSE <<x>>
of_total(x, total) == IF x = 0 /\ total = 0 THEN blank ELSE <<x>> \o unless0(total)
percent(x, size) == IF size = 0 THEN blank ELSE <<quot(x * 100, size)>>
\* A time is shown as the time that has passed since.
ago(t) == IF t = 0 THEN blank ELSE <<-t>>

-----------------------------------------------------------------------------
(* The cells.                                                              *)

\* For a torrent without its info left and size are -1, which is shown as a question mark.
\* Estimates of the time to go are left out.
file_cells(t) ==
  [hash |-> <<t.hash>>, done |-> percent(t.size - t.left, t.size),
   left |-> unless0(t.left), size |-> unless0(t.size),
   total_downloaded |-> unless0(t.total_downloaded),
   total_downloaded_rel |-> IF t.total_downloaded = 0 THEN blank ELSE percent(t.total_downloaded, t.size),
   total_uploaded |-> unless0(t.total_uploaded),
   total_uploaded_rel |-> IF t.total_uploaded = 0 THEN blank ELSE percent(t.total_uploaded, t.size),
   down_rate |-> unless0(t.down_rate), up_rate |-> unless0(t.up_rate),
   leechers |-> of_total(t.leechers, t.leechers_total), seeders |-> of_total(t.seeders, t.seeders_total),
   peers |-> of_total(t.leechers + t.seeders, t.leechers_total + t.seeders_total),
   priority |-> unless0(t.priority), state |-> <<t.state>>, name |-> <<t.name>>,
   completed_at |-> ago(t.completed_at), started_at |-> ago(t.started_at)]

\* The rows of the details, those the upper list has as well: they leave fewer numbers out.
details(t) ==
  [hash |-> <<t.hash>>, name |-> <<t.name>>, left |-> unless0(t.left), size |-> <<t.size>>,
   leechers |-> <<t.leechers>> \o unless0(t.leechers_total),
   seeders |-> <<t.seeders>> \o unless0(t.seeders_total),
   peers |-> <<t.leechers + t.seeders>> \o unless0(t.leechers_total + t.seeders_total),
   completed_at |-> ago(t.completed_at), started_at |-> ago(t.started_at)]

event_cells(e) == [time |-> <<e.time>>, level |-> <<e.level>>, source |-> <<e.source>>, message |-> <<e.message>>]

\* size: that of the torrent.  A host name is its labels, from the last one on.
peer_cells(p) ==
  [host |-> <<p.host>>, host_name |-> p.host_name, port |-> <<p.port>>,
   done |-> percent(p.size - p.left, p.size), left |-> unless0(p.left),
   downloaded |-> unless0(p.downloaded), uploaded |-> unless0(p.uploaded),
   down_rate |-> unless0(p.down_rate), up_rate |-> unless0(p.up_rate),
   link_direction |-> <<Number(p.local_link)>>,
   local_choked |-> unless0(Number(p.local_choked)), local_interested |-> unless0(Number(p.local_interested)),
   remote_choked |-> unless0(Number(p.remote_choked)), remote_interested |-> unless0(Number(p.remote_interested)),
   local_requests |-> unless0(p.local_requests), remote_requests |-> unless0(p.remote_requests),
   recv_time |-> <<-p.rtime>>, send_time |-> <<-p.stime>>, ctime |-> <<-p.ctime>>,
   peer_id |-> <<p.peer_id>>, client |-> <<p.client>>]

\* A piece that is not wanted has no rank.
NoRank == 99
piece_cells(p) ==
  [index |-> <<p.index>>, priority |-> unless0(p.priority), c_peers |-> unless0(p.c_peers),
   c_chunks |-> IF p.valid_chunks = 0 THEN blank ELSE <<p.valid_chunks, p.chunks>>,
   valid |-> unless0(Number(p.valid)), rank |-> IF p.rank = NoRank THEN blank ELSE <<p.rank>>]

sub_file_cells(f) ==
  [name |-> <<f.name>>, extension |-> <<f.extension>>, done |-> percent(f.size - f.left, f.size),
   left |-> unless0(f.left), size |-> <<f.size>>, priority |-> unless0(f.priority), hash |-> <<f.hash>>]

OnGetdispinfo(v, x) ==
  CASE v = "torrents" -> file_cells(x) [] v \in {"events", "global_events"} -> event_cells(x)
    [] v = "peers" -> peer_cells(x) [] v = "pieces" -> piece_cells(x)
    [] v = "files" -> sub_file_cells(x)
columns(v) == DOMAIN OnGetdispinfo(v, (CHOOSE xs \in Contents[v] : xs # <<>>)[1])

-----------------------------------------------------------------------------
(* The comparisons: a row goes before another when the numbers it is         *)
(* compared by do.                                                          *)

before(a, b) ==
  \E n \in 0..Len(a) : /\ n < Len(b) /\ SubSeq(a, 1, n) = SubSeq(b, 1, n)
                       /\ n = Len(a) \/ a[n + 1] < b[n + 1]
permil(x, size) == IF size = 0 THEN 0 ELSE quot(x * 1000, size)

files_by(t) ==
  [hash |-> <<t.hash>>, done |-> <<-permil(t.left, t.size)>>, left |-> <<t.left, t.name>>,
   size |-> <<t.size>>, total_downloaded |-> <<-t.total_downloaded>>,
   total_downloaded_rel |-> <<-permil(t.total_downloaded, t.size)>>,
   total_uploaded |-> <<-t.total_uploaded>>,
   total_uploaded_rel |-> <<-permil(t.total_uploaded, t.size)>>,
   down_rate |-> <<-t.down_rate>>, up_rate |-> <<-t.up_rate>>,
   leechers |-> <<t.leechers>>, seeders |-> <<t.seeders>>, peers |-> <<t.leechers + t.seeders>>,
   state |-> <<t.state>>, name |-> <<t.name>>, priority |-> <<-t.priority>>,
   completed_at |-> <<-t.completed_at>>, started_at |-> <<-t.started_at>>]
files_compared(t) == files_by(t)
events_by(e, id) == [time |-> <<-id>>, level |-> <<e.level>>, source |-> <<e.source>>, message |-> <<e.message>>]
peers_by(p) ==
  [host |-> <<p.host>>, host_name |-> p.host_name, port |-> <<p.port>>,
   done |-> <<-p.left>>, left |-> <<p.left>>, downloaded |-> <<-p.downloaded>>, uploaded |-> <<-p.uploaded>>,
   down_rate |-> <<-p.down_rate>>, up_rate |-> <<-p.up_rate>>, link_direction |-> <<Number(p.local_link)>>,
   local_choked |-> <<Number(p.local_choked)>>, local_interested |-> <<Number(p.local_interested)>>,
   remote_choked |-> <<Number(p.remote_choked)>>, remote_interested |-> <<Number(p.remote_interested)>>,
   local_requests |-> <<-p.local_requests>>, remote_requests |-> <<-p.remote_requests>>,
   recv_time |-> <<-p.rtime>>, send_time |-> <<-p.stime>>, ctime |-> <<p.ctime>>,
   peer_id |-> <<p.peer_id>>, client |-> <<p.client>>]
pieces_by(p) ==
  [index |-> <<p.index>>, c_chunks |-> <<-p.valid_chunks, p.rank>>, c_peers |-> <<p.c_peers, p.rank>>,
   priority |-> <<p.priority, p.rank>>, valid |-> <<Number(p.valid), p.rank>>, rank |-> <<p.rank>>]
sub_files_by(f) ==
  [name |-> <<f.name>>, extension |-> <<f.extension, f.name>>, left |-> <<f.left>>, size |-> <<f.size>>,
   priority |-> <<-f.priority>>, hash |-> <<f.hash>>]

compared(v, x, id) ==
  CASE v = "torrents" -> files_compared(x) [] v = "peers" -> peers_by(x)
    [] v \in {"events", "global_events"} -> events_by(x, id)
    [] v = "pieces" -> pieces_by(x) [] v = "files" -> sub_files_by(x)
\* How much of a sub file is there is compared by products, in which an empty one equals all.
goes_before(v, xs, c, a, b) ==
  IF v = "files" /\ c = "done" THEN xs[a].size * xs[b].left < xs[b].size * xs[a].left
  ELSE before(compared(v, xs[a], a)[c], compared(v, xs[b], b)[c])

\* The orders of the rows r in which none goes before the one above it.  A list that is sorted by no
\* column, or by a column of another view, stays as it is.
Unsorted == <<"none", "none">>
sorted(v, xs, r, s) ==
  IF s.column[1] # v THEN {r}
  ELSE {p \in {[i \in DOMAIN r |-> r[q[i]]] : q \in Bijection(DOMAIN r, DOMAIN r)} :
          \A i \in 1..(Len(r) - 1) :
            IF s.reverse THEN ~goes_before(v, xs, s.column[2], p[i], p[i + 1])
            ELSE ~goes_before(v, xs, s.column[2], p[i + 1], p[i])}

-----------------------------------------------------------------------------
(* The window.                                                             *)

total(ts, of(_)) == MapThenSumSet(LAMBDA i : of(ts[i]), DOMAIN ts)
complete(t) == Number(t.left = 0)
update_global_details(ts) ==
  [left |-> total(ts, LAMBDA t : t.left), size |-> total(ts, LAMBDA t : t.size),
   down_rate |-> total(ts, LAMBDA t : t.down_rate), up_rate |-> total(ts, LAMBDA t : t.up_rate),
   downloaded_total |-> total(ts, LAMBDA t : t.total_downloaded),
   uploaded_total |-> total(ts, LAMBDA t : t.total_uploaded),
   leechers |-> total(ts, LAMBDA t : t.leechers), seeders |-> total(ts, LAMBDA t : t.seeders),
   torrents_complete |-> total(ts, complete), torrents_incomplete |-> total(ts, LAMBDA t : 1 - complete(t))]
summed(xs) == IF view = "torrents" THEN update_global_details(xs) ELSE global

ids(from, to) == [i \in 1..(to - from + 1) |-> from + i - 1]
\* New events are put on top, other new rows at the end.
inserted(v, r, from, to) ==
  IF v \in {"events", "global_events"} THEN Reverse(ids(from, to)) \o r ELSE r \o ids(from, to)
resized(r, n) == inserted(view, SelectSeq(r, LAMBDA id : id <= n), Len(r) + 1, n)

read_server_dump(xs) ==
  /\ items' = xs /\ global' = summed(xs)
  /\ UNCHANGED <<view, sort, profile, clicks>>
OnTimer(xs) ==
  /\ read_server_dump(xs)
  /\ rows' \in sorted(view, xs, resized(rows, Len(xs)), sort[view]) /\ fresh' = TRUE
\* The window is hidden; nothing below the torrents is read then.
OnTimerHidden(xs) ==
  /\ view = "torrents" /\ read_server_dump(xs)
  /\ rows' = resized(rows, Len(xs)) /\ fresh' = FALSE

\* A click on the header of the global events is taken for one on that of a torrent's events, and
\* the order of the global events is saved, which it did not change.
clicked == IF view = "global_events" THEN "events" ELSE view
OnColumnclick(c) ==
  LET column == <<view, c>> IN
  /\ clicks < MaxClicks /\ clicks' = clicks + 1
  /\ sort' = [sort EXCEPT ![clicked] = [column |-> column, reverse |-> @.column = column /\ ~@.reverse]]
  /\ profile' = [profile EXCEPT ![view] = sort'[view]]
  /\ rows' \in sorted(view, items, rows, sort'[view]) /\ fresh' = TRUE
  /\ UNCHANGED <<view, items, global>>

fill_peers(v, xs) == inserted(v, <<>>, 1, Len(xs))
set_bottom_view(v, xs) ==
  /\ view \in Bottom /\ v # view /\ view' = v /\ items' = xs
  /\ rows' \in sorted(v, xs, fill_peers(v, xs), sort[v]) /\ fresh' = TRUE
  /\ UNCHANGED <<sort, profile, global, clicks>>

\* The program is started anew.
OnInitDialog ==
  /\ sort' = profile /\ items' = <<>> /\ rows' = <<>> /\ global' = update_global_details(<<>>)
  /\ fresh' = TRUE /\ UNCHANGED <<view, profile, clicks>>

Init ==
  /\ view \in {"torrents", "peers"} /\ items = <<>> /\ rows = <<>> /\ clicks = 0 /\ fresh = TRUE
  /\ sort = [v \in DOMAIN Contents |->
       [column |-> CASE v = "torrents" -> <<v, "name">> [] v = "peers" -> <<v, "client">> [] OTHER -> Unsorted,
        reverse |-> FALSE]]
  /\ profile = sort /\ global = update_global_details(<<>>)
Next ==
  \/ \E xs \in Contents[view] : OnTimer(xs) \/ OnTimerHidden(xs)
  \/ \E c \in columns(view) : OnColumnclick(c)
  \/ \E v \in Bottom : \E xs \in Contents[v] : set_bottom_view(v, xs)
  \/ OnInitDialog
Spec == Init /\ [][Next]_vars

-----------------------------------------------------------------------------
(* Properties.                                                             *)

\* Whoever clicks a header finds the cells below it, the blank ones left out, from the least to the
\* most or the other way around, at once and after each snapshot: the comparison of a column agrees
\* with what its cells show.  Percentages of what is done may be one out of their order, for they
\* are compared by what is left; among the sub files an empty one spoils this column, and the global
\* events are never sorted.
lower(c, a, b) ==
  CASE c = "done" -> a[1] + 1 < b[1] [] c = "host_name" -> before(a, b) [] OTHER -> a[1] < b[1]
RowsSorted ==
  LET c == sort[view].column[2]
      cell(k) == OnGetdispinfo(view, items[rows[k]])[c]
      seen == {k \in DOMAIN rows : cell(k) # blank}
  IN fresh /\ sort[view].column[1] = view
     /\ ~(view = "files" /\ c = "done" /\ \E i \in DOMAIN items : items[i].size = 0) =>
       \/ \A i, j \in seen : i < j => ~lower(c, cell(j), cell(i))
       \/ \A i, j \in seen : i < j => ~lower(c, cell(i), cell(j))

\* What the window says of a torrent and of all torrents is the same in its three places: the cells
\* of the rows, the details, and the summary in the title and the global details.
PlacesAgree == view = "torrents" =>
  /\ \A id \in DOMAIN items : LET cells == file_cells(items[id]) IN
       items[id].size # -1 => \A c \in DOMAIN details(items[id]) :
         cells[c] # blank => details(items[id])[c] = cells[c]
  /\ ToSet(rows) = DOMAIN items /\ IsInjective(rows)
  /\ global = update_global_details(items)
  /\ global.torrents_complete + global.torrents_incomplete = Len(rows)
===============================================================================
