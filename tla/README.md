# XBT in TLA+

TLA+ models of the XBT BitTorrent tracker (`src/Tracker`), of the XBT client
(`src/BT Test`, with the window of `src/Client`) and of the shared code they
exchange data with (`src/misc`), the TLC configurations that check them on small
instances, and TLAPS proofs of what matters most for every instance.

The definitions are translated from the source and keep its names:
`srv_insert_peer` is `srv_insert_peer`, `Cbt_piece::write` is `piece_write`.
`PROJECT.json` maps every definition to the lines it stands for, names a
plausible bug for every property (the definitions called *wrong on purpose* in
the modules) and lists the hazards of the code the properties are aimed at.

## The system

| part | source | state | operations | hard because |
|---|---|---|---|---|
| tracker process | `Tracker/tracker.cpp` | `g_torrents` (peers, counters, tid, dirty), `g_users`, `g_users_torrent_passes`, the update buffers, `g_tid_end`, `g_config` | announce over HTTP and UDP, clean-up, four database tasks, config reload, start, SIGTERM | two counters beside every peer table; memory, buffers and database updated at different times by queries that fail; a web site that changes the same tables; restarts |
| tracker connections | `connection.cpp`, `epoll.cpp`, `transaction.cpp` | a buffer, an answer and a time stamp per connection | accept, read, write, time out | edge-triggered reads; partial writes |
| pieces | `BT Test/bt_piece.cpp` | valid sub-pieces, reservations, two counters, availability | reserve, write, give up, expire, validate, load, save | five functions keep one counter exact |
| peer links | `bt_peer_link.cpp`, `ring_buffer.h` | handshake, remote pieces, choke and interest both ways, local and remote requests, haves, buffers | messages, timer, request loop, upload | a reservation names its link by address; messages cut anywhere; answers, chokes, time-outs and closes in any order |
| torrents | `bt_file.cpp`, `bt_hasher.cpp` | state, `m_left`, hasher, end mode, sub files, peers, info | open, hash, write data, pause, stop, close, load and save state | data on disk, the memory and `state.bin` are written at different times |
| server | `server.cpp`, `bt_link.cpp`, `block_list.cpp` | torrents, limits, quotas, timers, ports | the select loop with its tasks, chokes, queue, connects and accepts | one loop of prioritised timers, unlocked while it selects |
| profiles and schedule | `profiles.cpp`, `scheduler.cpp` | two maps and their files | edits, the scheduled change of limits | edited on a copy in another thread; two files that may be torn |
| tracker link | `bt_tracker_link.cpp` | current tracker, attempts, times, event | announce over HTTP and UDP, retry, back-off | rounds over several trackers; a shift that overflows |
| merkle trees | `merkle_tree.cpp` | a tree of hashes, partly known | verify, fill, serve | hashes that nothing has verified |
| admin interface | `bt_admin_link.cpp` | two buffers, a password | requests and answers | buffers of a fixed size |
| window | `Client/XBT ClientDlg.cpp`, `ListCtrlEx1.cpp` | copies of torrents and of one torrent's parts, rows, columns, sort orders, tray icon | timers, snapshots, commands, dialogs | a copy up to a second old; rows that are ids into it, in any order; formats without field names |
| making torrents | `Client/dlg_make_torrent.cpp` | files, name, trackers | drop, save, share | files change between the drop and the hashing |
| shared library | `src/misc` | none | bencoding, key files, SHA-1, sockets, MySQL | the name of a torrent is a hash of what bencoding writes; two versions of key files |

The tracker is one thread around `epoll_wait`; it talks to its clients by
announces, and to the web site that manages torrents and users only through
the tables of a MySQL database. The client is one loop around `select`; its
torrents, links, hasher and trackers are called from that loop in a fixed
order. What interleaves with them is the network, the disk, crashes, and the
thread of the user interface, which takes the server's lock for each call of
its own and finds it free during `select`.

`PROJECT.json` names for every component what is modelled of it and what not.

## Modules

### Tracker

`Tracker` models the process, its memory and the tables `xbt_torrents`,
`xbt_users` and `xbt_peers`. Every handler of the main loop is one action.
`announce_http` and `announce_udp` are the two callers of `srv_insert_peer`,
with all its refusals in the code's order and with the table entry
`g_torrents[info_hash]` that a refused announce may leave behind. The two update
buffers are kept summed, since an upsert adds them up, with the number of rows
that decides when they are sent; each of the two queries may fail, and the
buffers are erased either way. `write_db_torrents` walks the dirty torrents; an
insert that fails ends the walk with an exception, and the counts already
appended are lost although marked clean; the history variable `missed` remembers
that a query about torrents has failed since the start. `read_db_torrents` erases flagged
torrents and deletes their rows one after the other. `read_db_users` is the mark
and sweep and the rebuilt map of passes. `start`, `stop` (SIGTERM), `crash` and
`tick`; the `site_...` actions are the web site's updates, which are outside the
repository's tracker and modelled from the columns it reads.

`TrackerClients` composes it with clients that count bytes for each of their
torrents (`Cbt_file`), announce, stop, die and start again, over channels, one for
each, that lose announces but keep their order. A torrent announces with one
torrent_pass from its start to its stop. `Connection` is
one HTTP connection in the epoll loop with its client: where the socket cuts,
fills up, half-closes or resets is a choice; events are edge-triggered.

### Client: one torrent

`Download` models one torrent: `Cbt_piece`, the download half of
`Cbt_peer_link`, `Cbt_file` with its hasher, and `state.bin`. Sizes count
sub-pieces of 16 KB. A turn of a link (`Cbt_peer_link::post_select`) is the
messages it reads and then `finish_turn` or, when the timer is due,
`timer_turn`; `turn` keeps everything else from running in between, as the
single thread does. `close_links` is what a close of several links at once, or of one, leaves behind;
`finish_turn` contains the whole request loop:
`next_invalid_piece` by rank, `next_invalid_sub_piece`, end mode, and the window
of pending requests, which adapts to latency in the code and is anything up to
`Window` here.

`Files` models what `Download` takes for granted: pieces that run across sub
files, of which each has its own directory, handle and count of what is left.
`InfoExchange` is a torrent opened by its hash. `MerkleTree` is the tree of one
file of a merkle torrent, with the hasher and peers that may lie; a hash is the
term it was computed from. `TrackerLink` is how a torrent is announced, one
action per case of `pre_select` and `post_select`, with relative time (`wait`,
`age`) and the 32 bits of the code's `int`; its history variables remember how
long ago each tracker was asked (`quiet`), whether the list is the one the
request was taken from (`listed`) and how many announces followed a stop (`late`).
The user may replace the list at any time (`set_trackers`), also by one in which the
place of the request under way does not exist. A failure then begins the list again; an
answer makes `close` swap beyond the end of the list, which is undefined: whatever is
read there becomes the first entry (`spoilt`), or the process ends and is started anew
(`dies`).

### Client: links and server

`LinkParts` puts `RingBuffer`, `PeerWire` and the tracker's `Connection` side by
side, each with variables of its own. `RingBuffer` is `Cring_buffer` with its memory, both ends and the two parts each
may come in; `Fifo` is what a buffer promises; `RingBuffer` implements it with
`q <- contents`. `PeerWire` is one direction of a link: `write`, `send` under a
quota, a network, `recv` into a `RingBuffer` (an instance) and the loop that
cuts messages out of it. `Chokes` is who is uploaded to: one turn visits every
link, then sends, then looks at the timers; `update_chokes` is one action with
its three passes, where any order is allowed that `random_shuffle` and equal
rates may give. `Peers` is who has a link with whom, under the limit and the
block list, over the steps connect, accept, handshake and insert. `Ports` is the
listening port. `ClientParts` puts both, and the window's `Tray` and `Commands`, beside `Files`, as
instances with variables of their own. `Server` is the list of torrents with the queue and the tasks,
of which each turn runs the first that is due; a turn has two halves with
`select` between them. `update_states`, a loop over the queue while there is
room, is said of each torrent by itself: it is opened if fewer are ahead of it
than there is room for. `Scheduler` is the two maps, their files and
`run_scheduler`, with the dialogs, which change a copy and hand it over whole
when they are left; a save may be torn by the end of the program, and loading
ends at the first entry that is not there. `ServerParts` puts it and the window
beside the server, as instances with constants of their own. `Admin` is the admin link with
its controller, the command line program or one that pipelines.

### Window and formats

`Window` is the copy the window keeps of the server against the server's own
list: the upper list, and below it the rows of one torrent's peers, files,
pieces, trackers or events, in the order the snapshots, the user's sorting and
the deletions leave them in. Rows are ids, and what a row shows is looked up when
it is drawn; the history variable `fewer` remembers that events have gone. `Columns`, `Rows`, `Commands` and `Tray` are what it shows and does: the
lists' columns and where they are saved, the cells with the comparison of each
column and the summary, the commands with the marks of the menus (and the
piece priorities the server derives from those of sub files), and hiding, icon
and hot key. `Formats` is the snapshot and `state.bin`, field by field with their
sizes, as written, as counted beforehand and as read. `Bencode` is
`Cbvalue`: a text that came is parsed and written again, as `Cbt_file::info`
does before it computes the hash that names the torrent. `KeyFile` is the tree
of keys the settings are kept in, counted, written and read in both versions,
whole and cut short. `MakeTorrent` is the dialog that makes a torrent, from what
is dropped on the window or on it, with its name and its trackers, and the client
that opens it at once.

State is shared between modules only where a property needs it; else each
module takes what the others do as a choice: `Download` leaves out what a peer
asks of us, `Chokes` what we ask of it, `Server` what its peers send.

## Runs

Several small models share a run: its module holds an instance of each, `part`
says which of them it is, and is chosen at the start; the others never move. A
property of the run is the conjunction of the instances' own.

| run | instances | properties |
|---|---|---|
| `tracker_swarm` | swarm: 1 torrent, 2 peers, 1 user with a limit of one leecher, clock to 2. credit: 2 users behind 1 peer id, 2 bytes, 1 fault, time for one time-out | `CountersMatchPeers`, `LimitOnJoin`, `SwarmSilentPeerDropped`; `ClientsCredited`: no byte is credited twice, totals are the sums of the rows |
| `tracker_tables` | torrents the site lists (3 tids, 2 updates, 1 fault); torrents the tracker inserts; the same while the site lists one; users (2, with 2 passes, two configurations) | `TidsNameOwnRows`, `StoredCountsCurrent`, `PassesNameLiveUsers`; `ListedDirtyIsWritten`: what is dirty reaches the table unless a query fails; `SiteObeyed`: what the site lists, and nothing else, is tracked in the end |
| `download_peers` | 2 links, pieces of 2 and 1 sub-pieces, one bad chunk, one failed write, one dropped link | `PiecesKept`, `LinksAccounted`, `HavesTold` |
| `download_restarts` | 1 link, requests one at a time, one each of command, save, crash, choke, odd chunk, removed file | `TorrentKept`, `ValidIsGood`, `LeftIsMissing` |
| `progress` | announces: an unreliable UDP and a reliable HTTP tracker and an invalid URL, a list of two and one of one tracker, 2 acts of the user, 1 failing socket, attempts to 6. download: 1 reliable and 1 silent link, one piece | `TypeOK`, `RequestCounted`, `StopQuiets`, `TriedInOrder`, `RetryPause`, `AnnouncesGoOn`, `Completes` |
| `link_backoff` | one UDP tracker, attempts to 31 | `RetryPause` is violated: the shift overflows |
| `upload_slots` | 3 peers of 2 torrents, 2 slots, one torrent with a minimum, one with a maximum | `ChokedAsksNothing`, `AppliedBeforeSend`, `SlotsShared` |
| `upload_slots_manual` | 4 peers, 3 slots, the floor of 4 | `AtMostSlotsUnchoked`, what the manual says, is violated |
| `links` | ring buffer of 3 bytes; wire: buffer of 5, messages of 2 and 4, quota and network of 3, 3 messages; connection: buffer of 8, five requests | `PartsSpeak`, `IsQueue` (refinement), `AnswersFaithful`: in order, once and whole, and closed when answered; `NothingLeft`: messages arrive, connections are released |
| `server` | 2 torrents, one of them without info, 3 acts; a day of 3 seconds, 2 profiles, 3 edits; the window beside 2 torrents, 3 changes, its rows in every order; torrents with none, one or all of their parts; trees of keys in files of both versions; bencoded values of every type in every other, and every text of up to four tokens | `ServerKeeps`, `WithinLimit`, `ServerMoves`, `ScheduleObeyed`, `WindowFaithful`, `TextsRead` |
| `client` | columns over two versions of the program; rows of six views; commands for 2 torrents; priorities of five sub files; the tray over 3 starts; the admin link with 2 requests; 2 peers of 2 torrents, limit of 1; 3 ports; trees of up to 9 blocks; torrents of up to 3 files; five sub files in pieces of 4 bytes, 3 faults | `ListsFaithful`, `ControlKept`, `DataRecognised`, `FilesHoldData`, `CommandsObeyed` |
| `info_assert` | 3 pieces, 2 peers, one older than the info | `OneBitPerPiece`, an assertion of the code, is violated |

Bounds. Two peers are what a role change, a limit and a competing reservation
take; two torrents what a row taken for another's takes; one fault is every
single point of failure, with a restart after it; two bytes and two users are
what double or misplaced credit takes. A piece of two sub-pieces can be half
done, reserved by two links and given up; the second, shorter piece is the last
of a torrent and makes end mode begin while the first is incomplete. A ring of
three bytes wraps at either end, comes in two parts and has room in front of
and behind its contents. Messages of 2 and 4 bytes through a network of 3 and a
buffer of 5 are cut in their length and in their body, and one is too long. The
files' borders lie inside pieces and chunks, one is empty. Trees of 1, 2, 6 and
9 blocks have levels of even and odd width. Clocks, faults and edits are bounded
by constants in the guards.

In `progress` the shorter list is what the user may put in the place of the longer one
under a request for its last tracker. `mc_attempts` stops counting at 6: with 6 every
wait is the full hour, until the shift overflows, which `link_backoff` looks at. A failing
local socket is limited because each failure makes the link try the same
tracker again, without an end. The constant 4 of `max(4, m_upload_slots)` is
`SlotFloor`, so that two slots and three peers can reach the limit.

Fairness. The tracker's housekeeping runs whenever due because the loop comes
round at least every five seconds, and a service manager restarts the process.
`Server`: `select` waits for a second at most, so the loop goes on; `Goes_on`
says so in terms of states, which TLC takes when it is part of a disjunction. In
`Download` the loop runs hasher, timers and turns for ever; of the peers in
`Reliable`, and of them alone, it is assumed that they connect, have everything,
unchoke again and answer; strong fairness is used where a turn of another link
or a choke may disable the step in between. In `TrackerLink` the loop goes round
and time passes; a reliable tracker answers, and any HTTP connection ends some
day, since the code has no time-out for it. `MCLive` states the fairness of both
again, for its instances. `PeerWire` assumes that both loops go on, `Connection`
that the tracker's does and seconds pass. The other modules assume nothing.
`CHECK_DEADLOCK FALSE`, or a step that changes nothing in `MCClient`, is there
because the bounds, or a torrent the user has stopped, end the behaviour.

## Proofs

All theorems hold for all values of the constants that satisfy the named
assumptions of the modules; each follows from an inductive invariant that a
lemma per module shows to hold initially and to be kept by every action.

`TrackerProofs`: `TypeCorrect`, `CountersCorrect`, `PassesCorrect` and
`TidsCorrect` (`TypeOK`, `CountersMatchPeers`, `PassesNameLiveUsers`,
`TidsNameOwnRows`) follow from one invariant, `Good`. `TypeOK` is not inductive
alone: the counters stay in range only if they are sums over the peer table, a
tid written by `write_db_torrents` is in range only if it names a row, and the
rows the tracker inserts are new only if every tid is below the
`auto_increment` value, so `RowsGood` adds that. `StoredCorrect`
(`StoredCountsCurrent`) adds `Stored` to it: no two rows are of one torrent, a
row of a torrent not tracked shows no peers, and what is clean is shown by its
row. Only a failed query about torrents since the start (`missed`) excuses a process
from this: a crash leaves old counts in the table, and the start sets them to zero
(`tracker.cpp:512`), so that both are steps the proof goes through. The walk of `write_db_torrents` is the hard step: what a row
shows after it is what the last torrent written to it had. `LimitKeptOnJoin`
(`LimitOnJoin`) is about single steps: only the two announces let a peer join,
and each of them counts the user's leechers before it does.

`CreditsAreFaithful` (`ClientsCredited`) is about the composition with the
clients, for any number of them, their torrents and users. That the bytes credited
are at most those moved says nothing of the announces still on their way, so the
invariant, `Honest`, gives every `Cbt_file` a share of the bytes its user moved
that the tracker has not credited yet (`Covered`). The share of a torrent must
cover its line (`Backed`): the tracker's last word of it, the announces on their
way in order, and its counters now. Whatever of them gets through, the tracker
credits the difference from what it knew; an announce that is lost leaves a
difference over two of them, which the two differences cover unless the counters
began again in between, when the second is counted whole (`gain`). A time-out, a
sweep, a stop or a crash of the tracker only makes the last word `Nobody`, after
which the first report is worth nothing; another user behind the same peer id is
the same case. A share grows when a block moves, goes over to the credit
when an announce is counted, and is not touched by anything else. Shares are added
up as the size of a set with a token for each byte (`Tokens`), so that library facts
about finite sets do what an induction over a fold would have to. That a user's
total is the sum of the rows is followed through buffers, queries and restarts; the
lemmas on `rows_of` are inductions with `NatInduction`.

`DownloadProofs`: `PiecesKeptAlways`, `LinksAccountedAlways`, `HavesToldAlways`,
`TorrentKeptAlways`, `ValidIsGoodAlways` and `LeftIsMissingAlways` follow from
one `Inv`, which is as it has to be to survive the closing of any set of links
in the middle of a turn: per piece, the counters are those of its sub-pieces and
its peers; per link, what it asked for is reserved by it and what it was told or
is to be told covers all that is valid; of the hasher, `m_left` counts what it
has passed; of `state.bin`, what it calls valid was so when it was written; of
the disk, every sub-piece called valid is there unless a removed file and a
crash came together. The request loop of `finish_turn` asks round after round; a lemma says what
one round keeps, and `Induct`, from `NatInduction`, what all of them keep.

`ServerProofs`: `ServerKeepsAlways` (`ServerKeeps`) says of each listed torrent
(`Listed`) and each recorded one (`Recorded`) what its flags allow, and that the
save at the end is not undone by what may come after it. `LimitKept`
(`WithinLimit`) needs to count: the torrents that `update_states` opens are
those with fewer ahead of them than there is room for, and the one of them that
comes last in the queue has all the others ahead of it (`FewAhead`), so there
are no more of them than there is room.

It goes on with what stands beside the server. `ScheduleIsObeyed`
(`ScheduleObeyed`), for a day of any length and any profiles, entries and edits,
follows from `ScheduleInv`: the types; that the maps are whole, with ids from 0
on, and every entry has its profile, whenever no edit is between clearing and
cleaning, and the files always; that the limit is the active profile's while
`in_force` holds; and that what the user gave is, step by step of an edit, in the
copy, in the map or in the file. `WindowIsFaithful` (`WindowFaithful`), for any
torrents and finitely many addresses, follows from `WindowInv`: the server's list
names no torrent twice; the window's entries are a finite map in which no torrent
and, within one, no peer is twice, with the upper list beside it; and the rows
below fit their torrent (`Fits`). This says more than the property: the rows of the
trackers, which are never sorted, are in order, those of sub files and pieces are
all the numbers below their count, and there are as many rows as events even after
some have gone. Reading a snapshot is a loop over its torrents, whose lemma says what each round
leaves true of the torrents read so far; sorting is any permutation.

`FilesProofs`: `FilesHold` (`FilesHoldData`), for any borders of sub files and any
sizes of pieces and chunks. Its first part is about bytes: which piece a byte
belongs to, how many a piece has of a sub file, and how the sums change when a
piece becomes valid or is passed by the hasher. `Inv` says what the sums are while
the hasher runs, which files it has opened for reading only, and, for the data,
what must hold of a torrent that is closed (its valid pieces have no wrong byte in
the files there are) and of `state.bin` (what it calls complete still is) for
the next opening without hashing to be right.

It goes on with the other parts of `ClientParts`: `ControlIsKept` (`ControlKept`)
and `CommandsAreObeyed` (`CommandsObeyed`), for finitely many torrents and
addresses and any range of ports. `PeersInv` says
of the links of each torrent that their addresses differ and that one with who is
blocked is closed or was let in (`GoodLinks`), and of the connections without a
handshake that a blocked one is remembered in `excused` (`GoodWaiting`), which is
why the handshake that comes after the block is no new case. `pre_select` is three
loops in each other, over the torrents, the new peers and the links, and `at`, which
takes elements out of a list, a fourth. A lemma says of each what a round keeps, and
`Induct` what all of them keep: an erased link leaves the others apart (`FewerLinks`),
and an address is appended only after `find_peer` did not find it (`OneMoreLink`).
Beside that they count: `Heeded`, that links of our own which were not there at the
beginning of the turn are within the limit, survives an append because one was
looked for below the limit and one link more is counted at most (`OneMoreCounted`).
`OrdersInv` is about the window's copy: a selected row, and the one whose options are
open, is of a torrent that was meant, whichever id it has by now; and while the server
has not changed since the snapshot, the copy has each of its torrents, as it is
(`Mirrors`). The first makes commands reach what was meant, the second makes the marks
and Paused tell what the server does. Both need that reading a snapshot leaves every
row its id and gives new ones to new torrents only (`NewRows`).
`TrayInv` adds to the property the types and that options are open in a running
program only; `PortsInv` that no other program holds a port beyond the last, so that
the search for a free one ends.

`ChokesProofs`: `ChokesTypeCorrect`, `ChokedForgotten` and `DecisionApplied`
follow from `Inv`, which adds to the type that every link the turn has visited
does what the last update decided (`VisitedApplied`): `AppliedBeforeSend` speaks
of the end of the turn only. `SlotsAreShared` (`SlotsShared`) looks into what
`update_chokes` chooses. A pass goes over the links in some order; `Passed` says
what holds between two of them: what is granted grows and stays within what the
pass allows each torrent, whoever was passed over had a reason, that its torrent had
its share or that no slot was left, and within a torrent the earlier comes first.
What is granted only grows, so the reasons still hold at the end of the pass
and after the next ones; `SlotsShared` follows from those of all three.

`TrackerLinkProofs`: `RequestsCounted` follows from `Counted`, where the lemma
about `close` shows that the list stays a list, also when it is swapped beyond its
end, and that a count of at least one never becomes negative. Nothing is assumed of
the lists the user enters; that the place of a request is in the list, and is that of
the tracker that was asked, lasts through `add_tracker` and the link's own steps, and
ends when the user replaces the list. `StopQuietsLink` follows from `Quiet`, which knows that
a torrent not stopped has counted nothing and that a counted announce leaves the
states that announce; `LinkTypeCorrect` from the bounds of the waits, which the
32 bits leave where they are; `OrderKept` (`TriedInOrder`) step by step, from
`Counted`: the swap loses no tracker while its place is in the list. `RetriesPause` (`RetryPause`) assumes that at most 22 attempts are counted,
the last number for which the shift does not overflow (`link_backoff` shows what
happens beyond it). Its invariant is `Rested`: every tracker will have rested for a minute when the wait is
over, and those that come after the current one in this round have rested already if
no URL is twice in the list, as have those that may be added to it (`OthersRested`).

`RingBufferProofs`: `PartsSpeakTruly` for every size, and `RingIsQueue`: every
behaviour of the ring buffer is one of the bounded queue of `Fifo`, under
`contents` as the refinement mapping. A step that takes, receives, writes or
combines is followed through the wrapped and the unwrapped case; lemmas say what
`contents` is after either end has moved. The invariant it needs, `IInv`, is
the type, which says that neither end ever rests on `m_e`, and that the two ends
meet only at the beginning of the memory (an empty buffer is rewound).

It goes on with what lies over the buffer, gathered in `LinkParts`:
`LinksAreFaithful` (`AnswersFaithful`), for every size of the buffers, the
messages and the answer, every quota and every request, under `WireAssumption`
and `ConnectionAssumption` (sizes are numbers, and what stands before a message
takes bytes). That the messages of a link were
handled in order until now says nothing of the next: `WireInv` follows the bytes. A byte knows its message and its place in
it, so that for any sequence of them it can be said that each follows on the one
before (`Run`); what is in the ring buffer, on its way and in the write buffer is
one such run, from the byte the reader waits for to the end of the last message
that was written. `Blocks` says this of the write buffer, which is cut into
blocks that sends shorten and that the announcing of pieces is written among.
That the reader takes whole messages in order, and meets a length that is too
long only where one was written, follows from the run and from the place the
reader is at. Of an HTTP connection,
`ServedInv` says that what the client has and what is left of the answer make up
the whole answer, whichever of its two buffers it is left in; that what the socket
holds and what the client has still to send is what the request has behind the
bytes that were taken; and what `state_` says of these bytes (`At`). The last part
is where the loop of `recv` is: `RoundAt` follows one round of it, from one line
end to the next, and `RoundsAt` all of them, with `Induct`. It holds of requests
whose lines end in CR LF (`Lined`) and shows that for these the loop never
stops before the bytes do, unless it is at the end of the request.

`NatInduction` states induction over the natural numbers as a fact about sets,
proved from the well-foundedness of `<`; the library's theorem takes an operator
and cannot be used here.

Only model-checked: liveness (fairness, ENABLED), which is out of the prover's
reach, and `MerkleTree` and `Bencode`, whose operators are recursive. The formats
(`Formats`, `KeyFile`) are conversions of data, which would need induction over
it. So are the other instances of `client` (`Columns`, `Rows`, `Admin`,
`MakeTorrent`, and of `Commands` the priorities of pieces), whose walks over lists are
folds of the community modules or make texts.

## What the code does that may surprise

These are behaviours met while modelling, which the models contain, or whose
steps they leave out where this is said, and for which the properties state
their conditions.

Tracker
- Counts are marked clean before the query is sent (`tracker.cpp:319`), and a
  failing insert throws the buffer away: the counts a failing query carried are missing
  from the table until they change again. `StoredCountsCurrent` therefore speaks of a
  process none of whose queries about torrents has failed, and `DirtyIsWritten` of what
  is dirty since the last failure.
- A torrent that the site lists after the tracker has registered it itself makes
  the tracker's insert fail again and again, and each time the other torrents of
  that batch are marked clean though never written.
- `peers_limit` is not looked at again when a peer that is there turns leecher.
- Lines that end in LF alone, or bytes behind the end, keep a connection open
  until its time-out; a request longer than the 4 KB buffer is closed unanswered.

Torrents and their data
- A chunk of the wrong length leaves its reservation when the link closes
  (`bt_peer_link.cpp:658`): `ReservedByLive` excludes it.
- A file removed together with a crash: an older `state.bin` that needs no
  validation then vouches for pieces the new file does not hold.
- A crash between the rename to the completes and the next save
  (`bt_file.cpp:495`) makes the torrent download again. `state.bin` is written in
  place. Sub files of no bytes are never created.
- The number of chunks of a piece is written in one byte; the byte of a
  torrent's priority takes what an administrator sets without clamping.
- A torrent paused while it is hashed runs when hashing ends; paused torrents
  come back running after a restart.
- An info whose keys come in another order, or with numbers that begin with a
  zero, is accepted by its hash and then written anew: the torrent's hash
  changes (`bt_peer_link.cpp:602`, `bt_file.cpp:63`), once.
- A peer's bitfield from before the info is never resized (`info_assert`).

Announcing
- Making the request clears the event, whether or not it is sent
  (`bt_tracker_link.cpp:345`, `:171`); a torrent that is opened again does not
  announce "started"; a request under way when the torrent is stopped is still
  announced after the "stopped".
- A tracker whose `connect` fails at once is tried again without moving on
  (`bt_tracker_link.cpp:69`). `trackers()` may shorten the list while a request
  is under way; when the answer comes `close` swaps beyond its end
  (`bt_tracker_link.cpp:294`): the list may lose a tracker, or the process dies.

Links and slots
- `update_chokes` considers the peers that send to us slowest first
  (`server.cpp:1000`), and its third pass ignores a torrent's maximum.
- A request of no bytes is answered by an empty block that is never sent and
  holds up the link (`bt_peer_link.cpp:276`).
- The client's handshake never sets the bit that asks for the info.
- The peer limit is looked at before `select` only, so links of others may go
  beyond it; a peer that is blocked between its connection and its handshake is
  let in; a peer that is disconnected and connected in one turn is lost; a link
  that never finishes its handshake has no time-out (`bt_link.cpp` has one only
  before the handshake).
- When all ports up to 0xffff are taken the client listens on any port and
  announces 0.

Server and schedule
- The stopping turn still runs one task, so a queued torrent may be opened after
  all have been closed (`server.cpp:428`); the loop ends only when no HTTP link
  is left, and these have no time-out.
- `file_state(paused)` on a closed torrent runs it.
- Loading takes as many ids from 0 on as there are entries (`profiles.cpp:69`,
  `scheduler.cpp:21`), so deleting one from the middle in its dialog loses the last
  ones of the schedule; for profiles the key that is missing gives a name made from
  a null pointer, which ends the program.
- Answers of the admin link that do not fit are dropped without a word; the
  command line program waits for an answer without a time-out.

Key files
- A float, which the program keeps none of, is counted four bytes too large, so that
  `load_key` of a tree with one returns an error; `Cxif_key_r::import` does not look
  at what is behind the end. A file that was cut short cannot be uncompressed and
  gives an empty tree.

Merkle torrents
- Hashes above a known node are stored unverified: never in the way, but they
  may be served. The tree is not saved, so a restart without validation forgets
  every piece. 32 KB chunks are refused by the 16 KB check of
  `Cbt_piece::write`; only a last chunk of up to 16 KB is downloaded.

Window
- The rows of pieces are not updated by snapshots, those of sub files never
  become fewer; two peers of one address share a row.
- Events are taken from the head of the list, where the newest are
  (`XBT ClientDlg.cpp:1334`), although the user may have sorted them otherwise: when
  a torrent was closed and opened again, and has fewer events than before but some,
  rows are left that name events that are not there.
- Sorting compares the rows of sub files and pieces also when a snapshot for a hidden
  window has emptied them.
- `get_priority`, `set_priority` and `OnDblclkPeers` index `m_sub_files` by rows,
  although a snapshot for a hidden window leaves it empty (`XBT ClientDlg.cpp:2493`;
  left out).
- A click on the header of the global events sets the sort column of the events
  (`XBT ClientDlg.cpp:2082`). Percentages are sorted by permil and may be one out
  of order; a sub file of no bytes spoils its column.
- Paused, given on a copy that is stale, may start a torrent that was stopped.
  OK in the options of a torrent turns a ratio of 0 into 100.
- Escape hides the window also where there is no icon; only the hot key brings it
  back. `OnEndSession(FALSE)` stops the server although the session goes on.
- The options and connect dialogs keep references into the window's map while
  its timer replaces the entries (`XBT ClientDlg.cpp:1567`; the message loop is
  MFC's and not modelled).

Making torrents
- The client refuses what it made itself: above 16 GB its pieces are larger than
  `Cbt_torrent::valid` takes (`bt_torrent.cpp:76`); a packed merkle torrent is
  unpacked by nothing in the repository; so are names that begin with a dot, and
  a merkle torrent with an unreadable file. Files of subfolders lose their
  folder; dropping one file twice, or several one by one, makes a torrent whose
  files are not found. A name the user has typed is replaced by that of a directory
  dropped afterwards (`m_name` is not brought up to date first); the window takes
  small files that are dropped on it for torrents. `Cvirtual_binary` has no `load` and `save` at this commit:
  the loading and saving of files is modelled from its use.

Three disagreements are runs that end in a violation: `link_backoff`
(`htdocs/udp_tracker_protocol.html:22`, the retries of a UDP tracker),
`upload_slots_manual` (`htdocs/client/index.php:142`, the number of upload
slots) and `info_assert` (the assertion at `bt_file.cpp:539`).

## Not modelled

- `misc/windows/ETSLayout`: third-party code that lays out dialogs.
- SHA-1, sockets, SQL escaping and the database wrapper, and the configuration
  files: conversions and wrappers whose results the models take as values.
- Drawing, splitters, and the dialogs for options, trackers and profiles beyond
  what they write back; the Windows service shell.
- The announce and scrape logs, peer selection and statistics of the tracker, the
  UDP packet layout and connection id: they change no state a property is about.
- The send quota shared by all links, peer exchange and the extended messages;
  merkle requests of several chunks; the HTTP client of the version check; rates.
- The order of two announces of one peer in the network (`TrackerClients` loses
  announces and does not reorder them).
- Data races: what the two threads share is under the server's lock, but for the
  profiles and the schedule, whose steps `Scheduler` models, and for the block list
  (`server.cpp:663`) and the setters of options (`server.cpp:95`), which run without
  it and are single steps here.
- The save without validation when the program ends (`server.cpp:433`) in `Files`,
  which has the saves in between only; `Download` and `Server` have both.
- An administrator's raw request for the state hashing (`server.cpp:1259`,
  `bt_file.cpp:953`), which no controller sends.
- What comes between the torrents of one `OnPopupPaused`: it takes the lock for each
  (`XBT ClientDlg.cpp:3264`), `Commands` gives the whole order in one step.
