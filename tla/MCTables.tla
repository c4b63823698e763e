------------------------------- MODULE MCTables -------------------------------
(* Four small instances of Tracker that share its tables with the web site,  *)
(* one run of TLC: torrents the site lists, torrents the tracker registers   *)
(* itself, the same while the site lists one too, and users.  Which instance *)
(* it is, is chosen at the start.                                            *)
EXTENDS Tracker

VARIABLE part

Registered == {[auto_register |-> FALSE, anonymous_announce |-> TRUE, offline |-> FALSE]}
Auto == {[auto_register |-> TRUE, anonymous_announce |-> TRUE, offline |-> FALSE]}
Toggling == Auto \cup {[auto_register |-> TRUE, anonymous_announce |-> FALSE, offline |-> FALSE],
                       [auto_register |-> TRUE, anonymous_announce |-> TRUE, offline |-> TRUE]}
Row(pass, limit, wait, leech) ==
  [pass |-> pass, version |-> 0, can_leech |-> leech, peers_limit |-> limit, wait_time |-> wait]
NoRows == {Row("none", 0, 0, TRUE)}
UserRows == {Row("a", 1, 0, FALSE), Row("b", 0, 0, TRUE)}

Listed == INSTANCE Tracker WITH
  Uid <- {}, Pass <- {}, Config <- Registered, UserRow <- NoRows,
  MaxTime <- 1, PeerTimeout <- 1, MaxCompleted <- 0
Own == INSTANCE Tracker WITH
  Uid <- {}, Pass <- {}, Config <- Auto, UserRow <- NoRows,
  PeerTimeout <- 0, MaxCompleted <- 0, MaxTid <- 2, MaxSiteOps <- 0
Both == INSTANCE Tracker WITH
  Uid <- {}, Pass <- {}, Config <- Auto, UserRow <- NoRows,
  MaxTime <- 1, PeerTimeout <- 1, MaxTid <- 2, MaxSiteOps <- 1
Users == INSTANCE Tracker WITH
  Hash <- {CHOOSE h \in Hash : TRUE}, Config <- Toggling \ Auto,
  MaxTime <- 1, PeerTimeout <- 1, MaxCompleted <- 0, MaxTid <- 1, MaxFaults <- 0

all == <<vars, part>>
InitTables ==
  \/ part = "listed" /\ Listed!Init
  \/ part = "own" /\ Own!Init
  \/ part = "both" /\ Both!Init
  \/ part = "users" /\ Users!Init
NextTables ==
  /\ UNCHANGED part
  /\ \/ part = "listed" /\ Listed!Next
     \/ part = "own" /\ Own!Next
     \/ part = "both" /\ Both!Next
     \/ part = "users" /\ Users!Next

\* FairSpec of the instance with the torrents the site lists.
SpecTables ==
  /\ InitTables /\ [][NextTables]_all
  /\ WF_all(part = "listed" /\ Listed!clean_up /\ UNCHANGED part)
  /\ WF_all(part = "listed" /\ Listed!read_db_torrents /\ UNCHANGED part)
  /\ WF_all(part = "listed" /\ Listed!write_db_torrents /\ UNCHANGED part)
  /\ WF_all(part = "listed" /\ Listed!start /\ UNCHANGED part)

\* Asked of the first instance: its torrents are written unless a query fails; what the site
\* lists, and nothing else, is tracked in the end, and what it flags is deleted.
ListedDirtyIsWritten == part = "listed" => DirtyIsWritten
SiteObeyed == part = "listed" => []OnlyListedTracked /\ ListedIsTracked /\ FlaggedIsDeleted
=============================================================================
