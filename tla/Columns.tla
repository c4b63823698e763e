-------------------------------- MODULE Columns --------------------------------
(***************************************************************************)
(* The columns of the window's two lists (src/Client/ListCtrlEx1.cpp, and   *)
(* their use in src/Client/XBT ClientDlg.cpp): the user shows and hides     *)
(* columns with the menu of a list's header.  The upper list always shows   *)
(* torrents, the lower one what the bottom view is; the choice is saved as  *)
(* a text of three bytes for each column, that of the upper list when the   *)
(* program ends, that of the peers when another view is chosen or the       *)
(* program ends, and that of the other views never.                         *)
(*                                                                         *)
(* The header is the list control's: a column is put in at a position, and  *)
(* moves those to its right.  Widths are left out.                          *)
(***************************************************************************)
EXTENDS Integers, SequencesExt, FiniteSetsExt

CONSTANTS
  Builds,   \* versions of the program: for each list, its columns in their order with their ids,
            \* which of them have a name, and which are shown at first
  Views,    \* bottom views other than that of the peers
  MaxRuns   \* bound: starts of the program

VARIABLES
  build,         \* the version that is installed
  m_bottom_view, \* and is_up: the program is running
  is_up,
  m_columns,     \* for each list: its columns by id, with their order and index (-1 when hidden)
  header,        \* for each list: the names in its header, from left to right
  profile,       \* what is saved: the views of "torrents" and "peers", and the bottom view
  runs,
  chosen         \* history: the columns the user has hidden or shown, of what is saved

vars == <<build, m_bottom_view, is_up, m_columns, header, profile, runs, chosen>>
Lists == {"files", "peers"}
\* The table of columns a list is filled from.
table(list, view) == IF list = "files" THEN "torrents" ELSE view

-----------------------------------------------------------------------------
(* A list with columns c and header h.                                      *)

show(c, id) == c[id].index # -1
\* The header's own: it takes a position beyond its end as its end.
InsertAtHeader(h, index, id) == LET i == Min({index, Len(h)}) IN InsertAt(h, i + 1, id)
DeleteAtHeader(h, index) == RemoveAt(h, index + 1)

\* As if hiding a column left those behind it in place.
moved_left_not(c, id) == [c EXCEPT ![id].index = -1]
\* Hiding moves the columns behind.
moved_left(c, id) ==
  [j \in DOMAIN c |-> [c[j] EXCEPT !.index = IF j = id THEN -1 ELSE IF @ > c[id].index THEN @ - 1 ELSE @]]
\* Showing puts a column in front of those of a higher order, which move.
behind(c, id) == {j \in DOMAIN c : show(c, j) /\ c[j].order > c[id].order}
ShowColumn(l, id, shown) ==
  LET c == l.c
      later == behind(c, id)
      index == Min({c[j].index : j \in later} \cup {Cardinality(DOMAIN c)})
      at == Min({index, Len(l.h)})
  IN IF id \notin DOMAIN c \/ show(c, id) = shown THEN l
     ELSE IF shown
     THEN [c |-> [j \in DOMAIN c |-> [c[j] EXCEPT !.index = IF j = id THEN at ELSE IF j \in later THEN @ + 1 ELSE @]],
           h |-> InsertAtHeader(l.h, index, id)]
     ELSE [c |-> moved_left(c, id), h |-> DeleteAtHeader(l.h, c[id].index)]

\* A column takes its order and whether it is shown from the saved view when that knows it.
InsertColumn(l, conf, id, shown) ==
  LET known == {e \in conf : e.id = id}
      e == IF known = {} THEN [id |-> id, order |-> Cardinality(DOMAIN l.c), show |-> shown]
           ELSE CHOOSE k \in known : TRUE
      new == [index |-> -1, order |-> e.order]
  IN IF id \in DOMAIN l.c THEN l
     ELSE ShowColumn([l EXCEPT !.c = [j \in DOMAIN l.c \cup {id} |-> IF j = id THEN new ELSE l.c[j]]],
                     id, e.show)

Conf(c) == {[id |-> id, order |-> c[id].order, show |-> show(c, id)] : id \in DOMAIN c}
insert_columns(columns, conf) ==
  FoldLeft(LAMBDA l, r : InsertColumn(l, conf, r.id, r.show), [c |-> <<>>, h |-> <<>>], columns)
insert_top_columns(b, p) == insert_columns(Builds[b].torrents, p.torrents)
insert_bottom_columns(b, view, p) ==
  insert_columns(Builds[b][view], IF view = "peers" THEN p.peers ELSE {})

-----------------------------------------------------------------------------
(* The window.                                                             *)

set_lists(top, bottom) ==
  /\ m_columns' = [files |-> top.c, peers |-> bottom.c]
  /\ header' = [files |-> top.h, peers |-> bottom.h]
list(l) == [c |-> m_columns[l], h |-> header[l]]

\* The menu of a header has a column's name when it has one.
named(l, id) == \E r \in ToSet(Builds[build][table(l, m_bottom_view)]) : r.id = id /\ r.named
OnCommand(l, id) ==
  LET after == ShowColumn(list(l), id, ~show(m_columns[l], id))
      t == table(l, m_bottom_view)
  IN /\ is_up /\ named(l, id)
     /\ IF l = "files" THEN set_lists(after, list("peers")) ELSE set_lists(list("files"), after)
     /\ chosen' = IF t \in DOMAIN chosen
                  THEN [chosen EXCEPT ![t] = [j \in DOMAIN @ \cup {id} |->
                          IF j = id THEN show(after.c, id) ELSE @[j]]]
                  ELSE chosen
     /\ UNCHANGED <<build, m_bottom_view, is_up, profile, runs>>

write_peers_view ==
  IF m_bottom_view = "peers" THEN [profile EXCEPT !.peers = Conf(m_columns["peers"])] ELSE profile
set_bottom_view(v) ==
  /\ is_up /\ v # m_bottom_view /\ m_bottom_view' = v
  /\ profile' = [write_peers_view EXCEPT !.bottom_view = v]
  /\ set_lists(list("files"), insert_bottom_columns(build, v, profile'))
  /\ UNCHANGED <<build, is_up, runs, chosen>>

OnInitDialog ==
  /\ ~is_up /\ runs < MaxRuns /\ runs' = runs + 1 /\ is_up' = TRUE
  /\ m_bottom_view' = profile.bottom_view
  /\ set_lists(insert_top_columns(build, profile), insert_bottom_columns(build, m_bottom_view', profile))
  /\ UNCHANGED <<build, profile, chosen>>
OnDestroy ==
  /\ is_up /\ is_up' = FALSE
  /\ profile' = [write_peers_view EXCEPT !.torrents = Conf(m_columns["files"])]
  /\ UNCHANGED <<build, m_bottom_view, m_columns, header, runs, chosen>>

\* The program ends without closing its window: what was not saved is forgotten.
saved_choice(conf, old) == [id \in {e.id : e \in conf} \cap DOMAIN old |->
  (CHOOSE e \in conf : e.id = id).show]
OnEndSession ==
  /\ is_up /\ is_up' = FALSE
  /\ chosen' = [torrents |-> saved_choice(profile.torrents, chosen.torrents),
                peers |-> saved_choice(profile.peers, chosen.peers)]
  /\ UNCHANGED <<build, m_bottom_view, m_columns, header, profile, runs>>
\* A later version has more columns.
Upgrade ==
  /\ ~is_up /\ build + 1 \in DOMAIN Builds /\ build' = build + 1
  /\ UNCHANGED <<m_bottom_view, is_up, m_columns, header, profile, runs, chosen>>

Init ==
  /\ build = 1 /\ is_up = FALSE /\ m_bottom_view = "peers" /\ runs = 0
  /\ m_columns = [files |-> <<>>, peers |-> <<>>] /\ header = [files |-> <<>>, peers |-> <<>>]
  /\ profile = [torrents |-> {}, peers |-> {}, bottom_view |-> "peers"]
  /\ chosen = [torrents |-> <<>>, peers |-> <<>>]
Next ==
  \/ OnInitDialog \/ OnDestroy \/ OnEndSession \/ Upgrade
  \/ \E l \in Lists : \E id \in DOMAIN m_columns[l] : OnCommand(l, id)
  \/ \E v \in Views \cup {"peers"} : set_bottom_view(v)
Spec == Init /\ [][Next]_vars

-----------------------------------------------------------------------------
(* Properties.                                                             *)

\* A column is drawn from the data that belongs to it: the header has each shown column once, where
\* the list believes it is, in the order of the columns.
ColumnsInPlace == \A l \in Lists :
  LET c == m_columns[l] IN is_up =>
    /\ Len(header[l]) = Cardinality({id \in DOMAIN c : show(c, id)})
    /\ \A id \in DOMAIN c : show(c, id) => header[l][c[id].index + 1] = id
    /\ \A i, j \in DOMAIN header[l] : i < j => c[header[l][i]].order <= c[header[l][j]].order

\* What the user has shown or hidden among the torrents' and the peers' columns is so whenever they
\* are seen, over other views, other runs of the program and a later version of it.
ChoiceKept == is_up =>
  \A l \in Lists : LET t == table(l, m_bottom_view) IN
    t \in DOMAIN chosen => \A id \in DOMAIN chosen[t] : show(m_columns[l], id) = chosen[t][id]
===============================================================================
