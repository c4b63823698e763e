-------------------------------- MODULE MCClient --------------------------------
(* Small instances of the parts of the XBT Client that its user and other        *)
(* programs meet, in one run of TLC: columns, rows, commands and tray icon of the *)
(* window; the admin interface; peers, their limit and the block list; the        *)
(* listening port; hash trees; how torrents are made; and the files of a torrent.  *)
(* Which one it is, is chosen at the start.                                       *)
EXTENDS ClientParts, TLC

VARIABLES
  part,
  build, c_bottom_view, c_up, m_columns, header, c_profile, runs, chosen,        \* Columns
  view, items, rows, sort, r_profile, global, clicks, r_fresh,                   \* Rows
  plan, waits, asked, ended, got, net, a_link, m_read_b, m_write_b, m_admin_pass, a_options,
  torrents, read,                                                                \* Admin
  c_blocks, made, h_up, tree, valid, disk, exists, honest, h_starts, wrong,            \* MerkleTree
  m_disk, d_up, m_map, d_name, shown_name, m_tracker, m_trackers, made_torrent, opened   \* MakeTorrent

-----------------------------------------------------------------------------
\* Files: five sub files, one of no bytes, whose borders lie inside pieces and chunks.
FiveFiles == <<0, 1, 1, 5, 6>>

(* Columns: two versions of the program, the second with new and removed ones. *)
column(id, named, show) == [id |-> id, named |-> named, show |-> show]
PeerColumns == <<column(7, TRUE, TRUE), column(9, TRUE, TRUE), column(8, TRUE, FALSE), column(10, FALSE, TRUE)>>
EventColumns == <<column(2, TRUE, TRUE), column(3, TRUE, TRUE)>>
Versions ==
  <<[torrents |-> <<column(0, TRUE, TRUE), column(1, TRUE, FALSE), column(2, FALSE, TRUE)>>,
     peers |-> PeerColumns, events |-> EventColumns],
    [torrents |-> <<column(0, TRUE, TRUE), column(1, TRUE, FALSE), column(2, TRUE, FALSE), column(3, FALSE, TRUE)>>,
     peers |-> PeerColumns, events |-> EventColumns]>>
Headers == INSTANCE Columns WITH
  Builds <- Versions, Views <- {"events"}, MaxRuns <- 2,
  m_bottom_view <- c_bottom_view, is_up <- c_up, profile <- c_profile

(* Rows: items that differ in each of their numbers. *)
file(n, rest, size, k) ==
  [hash |-> 5 - n, name |-> n, left |-> rest, size |-> size, total_downloaded |-> k,
   total_uploaded |-> 2 * k, down_rate |-> k % 2, up_rate |-> (k + 1) % 2, leechers |-> k % 3,
   leechers_total |-> (k + 1) % 3, seeders |-> (k + 2) % 3, seeders_total |-> k % 2,
   priority |-> (k % 3) - 1, state |-> k % 5, completed_at |-> IF rest = 0 THEN k ELSE 0, started_at |-> k]
event(t, level, source, message) == [time |-> t, level |-> level, source |-> source, message |-> message]
peer(k, rest) ==
  [size |-> 7, host |-> k, host_name |-> SubSeq(<<1, k % 2, 3>>, 1, k % 4), port |-> (2 * k) % 5,
   left |-> rest, downloaded |-> k % 3, uploaded |-> (k + 1) % 2, down_rate |-> k % 2, up_rate |-> 0,
   local_link |-> k % 2 = 0, local_choked |-> k % 3 = 0, local_interested |-> k % 3 # 0,
   remote_choked |-> TRUE, remote_interested |-> k % 2 = 1, local_requests |-> k % 4,
   remote_requests |-> k, rtime |-> (k + 1) % 3, stime |-> k % 3, ctime |-> k,
   peer_id |-> (k * 3) % 7, client |-> (k * 5) % 3]
piece(i, p, v, r) ==
  [index |-> i, priority |-> p, c_peers |-> (i * 2) % 3, valid_chunks |-> v, chunks |-> 3, valid |-> v = 3, rank |-> r]
sub_file(n, rest, size) ==
  [name |-> n, extension |-> n % 2, left |-> rest, size |-> size, priority |-> n - 2, hash |-> (n * 2) % 5]
ShownFiles ==
  <<file(1, 10, 1000, 3), file(2, 0, 5, 7), file(3, 109, 10000, 1), file(4, -1, -1, 0), file(5, 0, 0, 2), file(6, 4, 6, 5)>>
Shown ==
  [torrents |-> {[i \in DOMAIN s |-> ShownFiles[s[i]]] :
                   s \in {<<>>, <<1>>, <<1, 2, 3>>, <<6, 4, 1>>, <<5, 2, 6>>, <<3, 6, 2>>}},
   events |-> {<<>>, <<event(1, 2, 1, 1), event(2, 1, 2, 2), event(2, 3, 1, 1)>>, <<event(1, 2, 1, 1)>>},
   global_events |-> {<<event(1, 2, 1, 1), event(2, 1, 2, 2)>>},
   peers |-> {<<>>, <<peer(1, 0), peer(2, 7), peer(3, 3)>>, <<peer(5, 1), peer(6, 7)>>, <<peer(4, 2), peer(0, 0), peer(2, 5)>>},
   pieces |-> {<<>>, <<piece(0, 0, 0, 2), piece(1, -1, 3, 99), piece(2, 1, 1, 5)>>},
   files |-> {<<>>, <<sub_file(1, 0, 5), sub_file(2, 3, 7), sub_file(3, 4, 4)>>,
              <<sub_file(3, 0, 0), sub_file(1, 2, 6), sub_file(2, 0, 5)>>}]
Lists == INSTANCE Rows WITH Contents <- Shown, MaxClicks <- 2, profile <- r_profile, fresh <- r_fresh

(* Commands: besides those for torrents, those for the sub files of one. *)
NoSizes == <<>>
SubFiles == INSTANCE Commands WITH
  Torrents <- {}, Sizes <- <<0, 3, 0, 5, 0>>, MaxChanges <- MaxCommands,
  server <- o_server, pieces <- ranks, changes <- commands, fresh <- o_fresh

(* Admin: requests of each kind and length, some of them refused. *)
request(action, hash, value, len, bvalue, authentic) ==
  [action |-> action, hash |-> hash, value |-> value, length |-> len, bvalue |-> bvalue, authentic |-> authentic]
Asked ==
  {request("get options", "h", 0, 2, TRUE, TRUE), request("get status", "h", 0, 2, TRUE, TRUE),
   request("close torrent", "h1", 0, 2, TRUE, TRUE), request("open torrent", "h2", 0, 4, TRUE, TRUE),
   request("set priority", "h1", 1, 2, TRUE, TRUE),
   request("set options", "h", [upload_rate |-> -1, seeding_ratio |-> 50, peer_limit |-> 5], 3, TRUE, TRUE),
   request("set options", "h", [upload_rate |-> 5], 2, TRUE, FALSE),
   request("none", "h", 0, 1, FALSE, TRUE)}
Control == INSTANCE Admin WITH
  Hashes <- {"h1", "h2"}, Requests <- Asked, MaxAsked <- 2, ReadSize <- 5, WriteSize <- 3,
  link <- a_link, options <- a_options

Hashes == INSTANCE MerkleTree WITH Blocks <- {1, 2, 6, 9}, MaxStarts <- 2, is_up <- h_up, starts <- h_starts
Making == INSTANCE MakeTorrent WITH
  Places <- <<<<"d">>, <<"d", "a">>, <<"d", "b">>, <<"d", "s">>, <<"d", "s", "a">>>>,
  Skipped <- {"desktop.ini"}, Dotted <- {".x"}, Sizes <- {0, 3}, MaxSize <- 1, SmallFile <- 1,
  BasePiece <- 1, MaxPieces <- 2, MerklePiece <- 2, LargestPiece <- 4, LargestShown <- 2,
  MaxFiles <- 3, MaxInserts <- 3,
  TrackerTexts <- {<<"u", " ", " ", "v", "w">>},
  Other <- [announce |-> <<"o">>, announces |-> <<<<"p">>, <<"q">>>>],
  disk <- m_disk, is_up <- d_up, m_name <- d_name, name <- shown_name, torrent <- made_torrent

-----------------------------------------------------------------------------
columns_ == <<build, c_bottom_view, c_up, m_columns, header, c_profile, runs, chosen>>
rows_ == <<view, items, rows, sort, r_profile, global, clicks, r_fresh>>
orders == <<o_server, copy, selected, dialog, priorities, ranks, commands, meant, o_fresh>>
tray == <<t_up, visible, iconic, active, m_initial_hide, m_hide_on_deactivate, m_show_tray_icon, timer,
          t_profile, hot_key, t_options, shell, icon, t_server, starts>>
admin == <<plan, waits, asked, ended, got, net, a_link, m_read_b, m_write_b, m_admin_pass, a_options,
           torrents, read>>
peers_ == <<turn, listens, p_state, m_new_peers, m_peers, m_links, backlog, m_block_list, m_peer_limit, ops, excused>>
ports == <<p_up, config_port, m_peer_port, socket, others, p_changes, turned>>
trees == <<c_blocks, made, h_up, tree, valid, disk, exists, honest, h_starts, wrong>>
making == <<m_disk, d_up, m_map, d_name, shown_name, m_tracker, m_trackers, made_torrent, opened>>
all == <<part, vars, columns_, rows_, orders, tray, admin, peers_, ports, trees, making>>
Parts == {"columns", "rows", "commands", "priorities", "tray", "admin", "peers", "ports", "trees", "making", "files"}

\* All instances start; those that are not chosen never move.
InitClient ==
  /\ part \in Parts
  /\ Init
  /\ Headers!Init
  /\ Lists!Init /\ (part = "rows" \/ view = "torrents")
  /\ IF part = "priorities" THEN SubFiles!Init
     ELSE Orders!Init /\ (part = "commands" \/ \A h \in DOMAIN o_server : o_server[h].state = "running")
  /\ Window!Init /\ (part = "tray" \/ \A c \in DOMAIN t_profile : t_profile[c])
  /\ IF part = "admin" THEN Control!Init
     ELSE /\ plan = <<>> /\ waits = TRUE /\ asked = 0 /\ ended = FALSE /\ got = <<>> /\ net = <<>>
          /\ a_link = "open" /\ m_read_b = <<>> /\ m_write_b = <<>> /\ m_admin_pass = "short"
          /\ a_options = <<>> /\ torrents = <<>> /\ read = <<>>
  /\ Swarm!Init /\ (part = "peers" \/ m_peer_limit = 0)
  /\ Listening!Init /\ (part = "ports" \/ (config_port = 0 /\ others = {}))
  /\ Hashes!Init /\ (part = "trees" \/ (c_blocks = 1 /\ ~exists /\ honest))
  /\ Making!Init /\ (part = "making" \/ \A p \in DOMAIN m_disk : m_disk[p].size = 0)
NextClient ==
  \/ part = "columns" /\ Headers!Next
     /\ UNCHANGED <<part, vars, rows_, orders, tray, admin, peers_, ports, trees, making>>
  \/ part = "rows" /\ Lists!Next
     /\ UNCHANGED <<part, vars, columns_, orders, tray, admin, peers_, ports, trees, making>>
  \/ part = "commands" /\ Orders!Next
     /\ UNCHANGED <<part, vars, columns_, rows_, tray, admin, peers_, ports, trees, making>>
  \/ part = "priorities" /\ SubFiles!Next
     /\ UNCHANGED <<part, vars, columns_, rows_, tray, admin, peers_, ports, trees, making>>
  \/ part = "tray" /\ Window!Next
     /\ UNCHANGED <<part, vars, columns_, rows_, orders, admin, peers_, ports, trees, making>>
  \/ part = "admin" /\ Control!Next
     /\ UNCHANGED <<part, vars, columns_, rows_, orders, tray, peers_, ports, trees, making>>
  \/ part = "peers" /\ Swarm!Next
     /\ UNCHANGED <<part, vars, columns_, rows_, orders, tray, admin, ports, trees, making>>
  \/ part = "ports" /\ Listening!Next
     /\ UNCHANGED <<part, vars, columns_, rows_, orders, tray, admin, peers_, trees, making>>
  \/ part = "trees" /\ Hashes!Next
     /\ UNCHANGED <<part, vars, columns_, rows_, orders, tray, admin, peers_, ports, making>>
  \/ part = "making" /\ Making!Next
     /\ UNCHANGED <<part, vars, columns_, rows_, orders, tray, admin, peers_, ports, trees>>
  \/ part = "files" /\ Next
     /\ UNCHANGED <<part, columns_, rows_, orders, tray, admin, peers_, ports, trees, making>>
  \/ UNCHANGED all \* their bounds let the others stop
SpecClient == InitClient /\ [][NextClient]_all

\* The properties of the instances; FilesHoldData is Files' own, ControlKept and CommandsObeyed are of ClientParts.
ListsFaithful ==
  /\ part = "columns" => Headers!ColumnsInPlace /\ Headers!ChoiceKept
  /\ part = "rows" => Lists!RowsSorted /\ Lists!PlacesAgree
  /\ part = "priorities" => SubFiles!PiecesFollow
DataRecognised ==
  /\ part = "admin" => Control!AnswersInTurn /\ Control!NothingStuck
  /\ part = "trees" => Hashes!ChunksJudged /\ Hashes!ServedVerifies /\ Hashes!SeederValid
  /\ part = "making" => Making!MadeIsShared
================================================================================
