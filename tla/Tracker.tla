------------------------------- MODULE Tracker -------------------------------
(***************************************************************************)
(* The XBT tracker process (src/Tracker/tracker.cpp): the torrents and     *)
(* peers it keeps in memory, the users it mirrors from the database, the   *)
(* buffered updates it owes the database, and the database as the tracker  *)
(* and the web site that shares it see it.                                 *)
(*                                                                         *)
(* The process is one thread: every handler of the main loop (an announce, *)
(* a housekeeping task, a signal) is one atomic action.  What interleaves  *)
(* is the announces of different peers, the housekeeping tasks, the site's *)
(* own updates of the shared tables, failing queries, crashes and          *)
(* restarts.                                                               *)
(***************************************************************************)
EXTENDS Integers, FiniteSets, Functions

CONSTANTS
  Hash,         \* info hashes
  PeerId,       \* peer ids
  Uid,          \* user ids of registered users; 0 stands for "no user"
  Pass,         \* torrent_pass values of the users table
  Config,       \* the configurations read_config may load
  UserRow,      \* the attribute records the site may give a user
  MaxBytes,     \* bound on the byte counters of one announce
  MaxTime,      \* bound on the clock
  PeerTimeout,  \* int(1.5 * announce_interval)
  BufferRows,   \* rows that make a buffer exceed 255 << 10 bytes
  MaxCompleted, \* bound on a torrent's completed counter
  MaxTid,       \* bound on the auto_increment column of the torrents table
  MaxFaults,    \* bound on failing queries and crashes
  MaxSiteOps    \* bound on the site's updates

ConfigRecord == [auto_register: BOOLEAN, anonymous_announce: BOOLEAN, offline: BOOLEAN]
UserAttributes == [pass: Pass \cup {"none"}, version: Nat, can_leech: BOOLEAN,
                   peers_limit: Nat, wait_time: Nat]

ASSUME BoundsAssumption ==
  /\ MaxBytes \in Nat /\ MaxTime \in Nat \ {0} /\ PeerTimeout \in Nat
  /\ BufferRows \in Nat /\ MaxCompleted \in Nat /\ MaxTid \in Nat
  /\ MaxFaults \in Nat /\ MaxSiteOps \in Nat

ASSUME DataAssumption ==
  /\ Uid \subseteq Nat \ {0}
  /\ IsFiniteSet(PeerId) /\ IsFiniteSet(Hash)
  /\ Config # {} /\ Config \subseteq ConfigRecord
  /\ UserRow \subseteq UserAttributes

\* The tracker treats "started" as "none", so one name stands for both.
Event == {"none", "completed", "stopped"}
Tid == 1..MaxTid
Bytes == [downloaded: Nat, uploaded: Nat]
\* An announce as tracker_input_t holds it; left is the bool the tracker keeps.
Input == [info_hash: Hash, peer_id: PeerId, event: Event, left: BOOLEAN,
          downloaded: 0..MaxBytes, uploaded: 0..MaxBytes]
Peer == [left: BOOLEAN, uid: Uid \cup {0}, downloaded: Nat, uploaded: Nat, mtime: Nat]
IsMap(f, S, T) == DOMAIN f \subseteq S /\ f \in [DOMAIN f -> T]
IsTorrent(t) ==
  /\ t \in [peers: {t.peers}, leechers: Int, seeders: Int, completed: Nat,
            tid: 0..MaxTid, ctime: Nat, dirty: BOOLEAN]
  /\ IsMap(t.peers, PeerId, Peer)
TorrentRow == [info_hash: Hash \cup {"none"}, leechers: Int, seeders: Int,
               completed: Nat, ctime: Nat, flagged: BOOLEAN]
AccountRow == [pass: Pass \cup {"none"}, version: Nat, can_leech: BOOLEAN, peers_limit: Nat,
               wait_time: Nat, bytes: Bytes]
User == [version: Nat, can_leech: BOOLEAN, peers_limit: Nat, wait_time: Nat]

VARIABLES
  up,        \* the process runs
  now,       \* g_time
  config,    \* g_config
  torrents,  \* g_torrents: the torrents tracked, by info hash
  tid_end,   \* g_tid_end
  users,     \* g_users
  passes,    \* g_users_torrent_passes: torrent_pass -> user (a pointer)
  owedPeers, \* g_torrents_users_updates_buffer, summed by <<tid, uid>>
  owedRows,  \* rows in that buffer
  owedUsers, \* g_users_updates_buffer, summed by uid
  dbTorrents, dbUsers, dbPeers, \* tables xbt_torrents, xbt_users, xbt_peers
  nextTid,   \* the auto_increment of xbt_torrents
  faults,    \* failed queries and crashes so far
  siteOps,   \* updates by the site so far
  missed     \* history: a query about torrents has failed since the process started

memory == <<torrents, tid_end, users, passes>>
owed == <<owedPeers, owedRows, owedUsers>>
db == <<dbTorrents, dbUsers, dbPeers, nextTid>>
vars == <<up, now, config, memory, owed, db, faults, siteOps, missed>>

-----------------------------------------------------------------------------
(* Finite maps and byte counts.                                            *)

Empty == [x \in {} |-> x]
Put(f, k, v) == [x \in DOMAIN f \cup {k} |-> IF x = k THEN v ELSE f[x]]
Count(b) == IF b THEN 1 ELSE 0
NoBytes == [downloaded |-> 0, uploaded |-> 0]
Plus(a, b) == [downloaded |-> a.downloaded + b.downloaded, uploaded |-> a.uploaded + b.uploaded]
Get(f, k) == IF k \in DOMAIN f THEN f[k] ELSE NoBytes
\* "insert ... on duplicate key update c = c + values(c)" of a whole buffer
Upsert(f, g) == [k \in DOMAIN f \cup DOMAIN g |-> Plus(Get(f, k), Get(g, k))]

-----------------------------------------------------------------------------
(* One torrent: pure operators on a torrent_t.                             *)

Role(t, left) == {p \in DOMAIN t.peers : t.peers[p].left = left}

new_torrent(time) ==
  [peers |-> Empty, leechers |-> 0, seeders |-> 0, completed |-> 0, tid |-> 0,
   ctime |-> time, dirty |-> TRUE]

\* The counter the announcing peer leaves: what srv_insert_peer takes off before it re-enters it.
\* (leaves_any and the like, here and below, are wrong on purpose: what a plausible bug would do,
\* for checking that the properties notice.  Nothing of the specification uses them.)
leaves_any(t, p, left) == Count(p \in DOMAIN t.peers /\ left)
leaves(t, p, left) == Count(p \in Role(t, left))

\* The accepted announce of in by user uid (0: none) at time.
enter(t, in, uid, time) ==
  LET stops == in.event = "stopped"
  IN [peers |-> IF stops
                THEN Restrict(t.peers, DOMAIN t.peers \ {in.peer_id})
                ELSE Put(t.peers, in.peer_id,
                         [left |-> in.left, uid |-> uid, downloaded |-> in.downloaded,
                          uploaded |-> in.uploaded, mtime |-> time]),
      leechers |-> t.leechers - leaves(t, in.peer_id, TRUE) + Count(~stops /\ in.left),
      seeders |-> t.seeders - leaves(t, in.peer_id, FALSE) + Count(~stops /\ ~in.left),
      completed |-> t.completed + Count(in.event = "completed"),
      tid |-> t.tid, ctime |-> t.ctime, dirty |-> TRUE]

stale_leechers(t, limit) == {p \in Role(t, TRUE) : t.peers[p].mtime < limit}
stale(t, limit) == {p \in DOMAIN t.peers : t.peers[p].mtime < limit}
expire(t, limit) ==
  LET gone == stale(t, limit)
  IN [peers |-> Restrict(t.peers, DOMAIN t.peers \ gone),
      leechers |-> t.leechers - Cardinality(gone \cap Role(t, TRUE)),
      seeders |-> t.seeders - Cardinality(gone \cap Role(t, FALSE)),
      completed |-> t.completed, tid |-> t.tid, ctime |-> t.ctime,
      dirty |-> t.dirty \/ gone # {}]

\* The bytes an announce adds to its user's account: only what moved since the
\* same user's last announce of this peer, and only if neither counter went back.
moved_since(last, in) ==
  IF in.downloaded >= last.downloaded /\ in.uploaded >= last.uploaded
  THEN [downloaded |-> in.downloaded - last.downloaded,
        uploaded |-> in.uploaded - last.uploaded]
  ELSE NoBytes
delta_of_strangers(t, in, uid) ==
  IF in.peer_id \in DOMAIN t.peers
  THEN moved_since(t.peers[in.peer_id], in)
  ELSE [downloaded |-> in.downloaded, uploaded |-> in.uploaded]
delta(t, in, uid) ==
  IF in.peer_id \in DOMAIN t.peers /\ t.peers[in.peer_id].uid = uid
  THEN moved_since(t.peers[in.peer_id], in)
  ELSE NoBytes

-----------------------------------------------------------------------------
(* Announces: srv_insert_peer and its two callers.                         *)

\* write_db_users sends two queries; each may fail, and the buffers are erased anyway.
\* (peersOwed, usersOwed) are the buffers' contents when it runs.
credit_users(table, usersOwed) ==
  [u \in DOMAIN table \cup DOMAIN usersOwed |->
     IF u \notin DOMAIN table
     THEN [pass |-> "none", version |-> 0, can_leech |-> TRUE, peers_limit |-> 0,
           wait_time |-> 0, bytes |-> usersOwed[u]]
     ELSE [table[u] EXCEPT !.bytes = Plus(@, Get(usersOwed, u))]]

send_db_users(peersOwed, usersOwed) ==
  \E peersSent, usersSent \in BOOLEAN :
    /\ dbPeers' = IF peersSent THEN Upsert(dbPeers, peersOwed) ELSE dbPeers
    /\ dbUsers' = IF usersSent THEN credit_users(dbUsers, usersOwed) ELSE dbUsers
    /\ faults' = faults + Count(~peersSent /\ DOMAIN peersOwed # {})
                        + Count(~usersSent /\ DOMAIN usersOwed # {})
    /\ faults' <= MaxFaults

flush_db_users(peersOwed, usersOwed) ==
  /\ send_db_users(peersOwed, usersOwed)
  /\ owedPeers' = Empty /\ owedRows' = 0 /\ owedUsers' = Empty

buffer_full(rows) == rows > BufferRows

\* Appending the announce to the two buffers, and sending them when they are full.
owe(t, in, uid) ==
  LET moved == delta(t, in, uid)
      peersOwed == Upsert(owedPeers, Put(Empty, <<t.tid, uid>>, moved))
      usersOwed == IF moved = NoBytes THEN owedUsers
                   ELSE Upsert(owedUsers, Put(Empty, uid, moved))
  IN IF buffer_full(owedRows + 1)
     THEN flush_db_users(peersOwed, usersOwed)
     ELSE /\ owedPeers' = peersOwed /\ owedRows' = owedRows + 1 /\ owedUsers' = usersOwed
          /\ UNCHANGED <<dbPeers, dbUsers, faults>>

\* Refusals that leave the tracker as it was.
refused(in, uid) ==
  \/ config.offline
  \/ ~config.anonymous_announce /\ uid = 0
  \/ ~config.auto_register /\ in.info_hash \notin DOMAIN torrents
  \/ in.left /\ uid # 0 /\ ~users[uid].can_leech

must_wait(t, in, uid) ==
  in.left /\ uid # 0 /\ users[uid].wait_time # 0 /\ t.ctime + users[uid].wait_time > now

leeching(t, uid) == {p \in Role(t, TRUE) : t.peers[p].uid = uid}

over_limit_by_one(t, in, uid) ==
  /\ in.peer_id \notin DOMAIN t.peers
  /\ in.left /\ uid # 0 /\ users[uid].peers_limit # 0
  /\ Cardinality(leeching(t, uid)) > users[uid].peers_limit
over_limit(t, in, uid) ==
  /\ in.peer_id \notin DOMAIN t.peers
  /\ in.left /\ uid # 0 /\ users[uid].peers_limit # 0
  /\ Cardinality(leeching(t, uid)) >= users[uid].peers_limit

\* g_torrents[info_hash]: the entry is made before the last two checks can refuse.
found_torrent(h) == IF h \in DOMAIN torrents THEN torrents[h] ELSE new_torrent(now)

srv_insert_peer(in, uid) ==
  LET t == found_torrent(in.info_hash)
  IN /\ ~refused(in, uid)
     /\ UNCHANGED <<up, now, config, tid_end, users, passes, dbTorrents, nextTid, siteOps, missed>>
     /\ \/ /\ must_wait(t, in, uid) \/ over_limit(t, in, uid)
           /\ torrents' = Put(torrents, in.info_hash, t)
           /\ UNCHANGED <<owed, dbUsers, dbPeers, faults>>
        \/ /\ ~must_wait(t, in, uid) /\ ~over_limit(t, in, uid)
           /\ in.event = "completed" => t.completed < MaxCompleted
           /\ torrents' = Put(torrents, in.info_hash, enter(t, in, uid, now))
           /\ IF uid # 0 /\ t.tid # 0
              THEN owe(t, in, uid)
              ELSE UNCHANGED <<owed, dbUsers, dbPeers, faults>>

\* A credential: a torrent_pass of the users table, or one derived from a uid, its
\* torrent_pass_version and the tracker's private key.
find_user_by_torrent_pass(pass, uid, version) ==
  IF uid \in DOMAIN users /\ users[uid].version = version THEN uid
  ELSE IF pass \in DOMAIN passes THEN passes[pass] ELSE 0

valid(in) == in.event = "completed" => ~in.left

announce_http(in, pass, uid, version) ==
  up /\ valid(in) /\ srv_insert_peer(in, find_user_by_torrent_pass(pass, uid, version))

announce_udp(in) == up /\ config.anonymous_announce /\ srv_insert_peer(in, 0)

-----------------------------------------------------------------------------
(* Housekeeping.                                                           *)

clean_up ==
  /\ up
  /\ torrents' = [h \in DOMAIN torrents |-> expire(torrents[h], now - PeerTimeout)]
  /\ UNCHANGED <<up, now, config, tid_end, users, passes, owed, db, faults, siteOps, missed>>

read_config ==
  /\ up
  /\ config' \in Config
  /\ UNCHANGED <<up, now, memory, owed, db, faults, siteOps, missed>>

loaded_torrent(row, i) ==
  [peers |-> Empty, leechers |-> 0, seeders |-> 0, completed |-> row.completed, tid |-> i,
   ctime |-> row.ctime, dirty |-> FALSE]

\* The rows a select from tid "from" on returns whose torrent is not known yet.
unseen(rows, known, from) == {i \in DOMAIN rows : i >= from /\ rows[i].info_hash \notin known}
loaded(rows, known, from) ==
  LET new == unseen(rows, known, from)
  IN [h \in {rows[i].info_hash : i \in new} |->
        LET i == CHOOSE i \in new : rows[i].info_hash = h
        IN loaded_torrent(rows[i], i)]
tid_end_beyond(rows, from) ==
  LET ends == {from} \cup {i + 2 : i \in {j \in DOMAIN rows : j >= from}}
  IN CHOOSE n \in ends : \A m \in ends : m <= n
tid_end_after(rows, from) ==
  LET ends == {from} \cup {i + 1 : i \in {j \in DOMAIN rows : j >= from}}
  IN CHOOSE n \in ends : \A m \in ends : m <= n

Without(f, S) == Restrict(f, DOMAIN f \ S)
Union(f, g) == [k \in DOMAIN f \cup DOMAIN g |-> IF k \in DOMAIN f THEN f[k] ELSE g[k]]
flagged == {i \in DOMAIN dbTorrents : dbTorrents[i].flagged}
hashes_of(tids) == {dbTorrents[i].info_hash : i \in tids}
\* The torrents in memory once those of the rows tids are erased.
keeping_all(tids) == torrents
keeping(tids) == Without(torrents, hashes_of(tids))

\* kept: the torrents in memory, rows: the table, when the select runs.
select_torrents(kept, rows, from) ==
  /\ torrents' = Union(kept, loaded(rows, DOMAIN kept, from))
  /\ tid_end' = tid_end_after(rows, from)

\* A row is erased from memory before it is deleted from the table; a failing
\* query ends the task.  With auto_register a non-empty g_torrents is never reloaded.
read_db_torrents ==
  /\ up
  /\ UNCHANGED <<up, now, config, users, passes, owed, dbUsers, dbPeers, nextTid, siteOps>>
  /\ \/ /\ config.auto_register /\ torrents = Empty
        /\ select_torrents(torrents, dbTorrents, tid_end)
        /\ UNCHANGED <<dbTorrents, faults, missed>>
     \/ /\ ~config.auto_register
        /\ LET rows == Without(dbTorrents, flagged)
           IN /\ select_torrents(keeping(flagged), rows, tid_end)
              /\ dbTorrents' = rows
        /\ UNCHANGED <<faults, missed>>
     \/ /\ ~config.auto_register /\ faults < MaxFaults
        /\ \E deleted \in SUBSET flagged :
             \E last \in IF deleted = flagged THEN {{}} ELSE {{i} : i \in flagged \ deleted} :
               /\ torrents' = keeping(deleted \cup last)
               /\ dbTorrents' = Without(dbTorrents, deleted)
        /\ faults' = faults + 1 /\ missed' = TRUE
        /\ UNCHANGED tid_end

attributes(row) == [version |-> row.version, can_leech |-> row.can_leech,
                    peers_limit |-> row.peers_limit, wait_time |-> row.wait_time]

\* The pass maps the rows allow: of two rows with one pass the last read wins.
pass_maps_kept(old, rows) ==
  {Union(m, old) : m \in [{rows[u].pass : u \in DOMAIN rows} \ {"none"} -> DOMAIN rows]}
pass_maps(old, rows) ==
  {m \in [{rows[u].pass : u \in DOMAIN rows} \ {"none"} -> DOMAIN rows] :
     \A p \in DOMAIN m : rows[m[p]].pass = p}

\* The mark and sweep leaves exactly the users of the table.
read_db_users ==
  /\ up
  /\ users' = [u \in DOMAIN dbUsers |-> attributes(dbUsers[u])]
  /\ passes' \in pass_maps(passes, dbUsers)
  /\ UNCHANGED <<up, now, config, torrents, tid_end, owed, db, faults, siteOps, missed>>

\* write_db_torrents walks the dirty torrents; those in "done" it has handled: inserted
\* if they had no tid, appended to the buffer, marked clean.  The buffer goes out in batches,
\* and those of the torrents in "lost" never reached the table: the query failed, or an insert
\* failed (the database did, or the table holds the info hash already: faults counts that
\* once, as it may come again and again) and ended the task with the buffer unsent.
dirty_torrents_new == {h \in DOMAIN torrents : torrents[h].dirty /\ torrents[h].tid = 0}
dirty_torrents == {h \in DOMAIN torrents : torrents[h].dirty}
fresh(done) == {h \in done : torrents[h].tid = 0}
new_tids(hs) ==
  {f \in [hs -> nextTid..(nextTid + Cardinality(hs) - 1)] :
     \A g, h \in hs : f[g] = f[h] => g = h}
tid_of(h, ids) == IF torrents[h].tid = 0 THEN ids[h] ELSE torrents[h].tid

with_counts(row, leechers, seeders, completed) ==
  [info_hash |-> row.info_hash, leechers |-> leechers, seeders |-> seeders,
   completed |-> completed, ctime |-> row.ctime, flagged |-> row.flagged]
inserted(done, ids) ==
  Union(dbTorrents,
        [i \in {ids[h] : h \in fresh(done)} |->
           [info_hash |-> CHOOSE h \in fresh(done) : ids[h] = i, leechers |-> 0, seeders |-> 0,
            completed |-> 0, ctime |-> now, flagged |-> FALSE]])
stored(rows, sent, ids) ==
  [i \in DOMAIN rows \cup {tid_of(h, ids) : h \in sent} |->
     IF \E h \in sent : tid_of(h, ids) = i
     THEN LET t == torrents[CHOOSE h \in sent : tid_of(h, ids) = i]
              row == IF i \in DOMAIN rows THEN rows[i]
                     ELSE [info_hash |-> "none", ctime |-> 0, flagged |-> FALSE]
          IN with_counts(row, t.leechers, t.seeders, t.completed)
     ELSE rows[i]]

store_torrents(done, lost, ids) ==
  /\ hashes_of(DOMAIN dbTorrents) \cap fresh(done) = {}
  /\ nextTid + Cardinality(fresh(done)) <= MaxTid + 1
  /\ \/ /\ done = dirty_torrents
        /\ faults' = faults + Count(lost # {}) /\ missed' = (missed \/ lost # {})
     \/ /\ \E h \in fresh(dirty_torrents \ done) :
             faults' = faults + Count(faults = 0 \/ h \notin hashes_of(DOMAIN dbTorrents))
        /\ missed' = TRUE
  /\ faults' <= MaxFaults
  /\ dbTorrents' = stored(inserted(done, ids), done \ lost, ids)
  /\ nextTid' = nextTid + Cardinality(fresh(done))

cleaned(t, id) == [t EXCEPT !.tid = id, !.dirty = FALSE]

write_db_torrents ==
  /\ up
  /\ \E done \in SUBSET dirty_torrents : \E lost \in SUBSET done, ids \in new_tids(fresh(done)) :
       /\ store_torrents(done, lost, ids)
       /\ torrents' = [h \in DOMAIN torrents |->
                         IF h \in done THEN cleaned(torrents[h], tid_of(h, ids)) ELSE torrents[h]]
  /\ UNCHANGED <<up, now, config, tid_end, users, passes, owed, dbUsers, dbPeers, siteOps>>

write_db_users ==
  /\ up
  /\ flush_db_users(owedPeers, owedUsers)
  /\ UNCHANGED <<up, now, config, memory, dbTorrents, nextTid, siteOps, missed>>

-----------------------------------------------------------------------------
(* Start, stop, crash; the clock; the site that shares the database.       *)

forget ==
  /\ torrents' = Empty /\ tid_end' = 0 /\ users' = Empty /\ passes' = Empty
  /\ owedPeers' = Empty /\ owedRows' = 0 /\ owedUsers' = Empty

zeroed_not(rows) == rows
zeroed(rows) == [i \in DOMAIN rows |-> with_counts(rows[i], 0, 0, rows[i].completed)]

\* srv_run up to its main loop.  A failing read of the torrents or the users leaves them
\* empty, with some of the flagged rows deleted; a failing update ends the process (no step).
start ==
  /\ ~up /\ up' = TRUE /\ missed' = FALSE
  /\ config' \in Config
  /\ \E torrentsRead, usersRead \in BOOLEAN :
       /\ \E gone \in SUBSET flagged :
            /\ config'.auto_register => gone = {}
            /\ torrentsRead /\ ~config'.auto_register => gone = flagged
            /\ dbTorrents' = zeroed(Without(dbTorrents, gone))
       /\ torrents' = IF torrentsRead THEN loaded(dbTorrents', {}, 0) ELSE Empty
       /\ tid_end' = IF torrentsRead THEN tid_end_after(dbTorrents', 0) ELSE 0
       /\ IF usersRead
          THEN /\ users' = [u \in DOMAIN dbUsers |-> attributes(dbUsers[u])]
               /\ passes' \in pass_maps(Empty, dbUsers)
          ELSE users' = Empty /\ passes' = Empty
       /\ faults' = faults + Count(~torrentsRead) + Count(~usersRead)
       /\ faults' <= MaxFaults
  /\ UNCHANGED <<now, owed, dbUsers, dbPeers, nextTid, siteOps>>

\* SIGTERM: the two writes, then the process ends.  (A failing write of the users
\* is that failing write_db_users followed by a crash.)
stop ==
  /\ up /\ up' = FALSE
  /\ \E done \in SUBSET dirty_torrents : \E lost \in SUBSET done, ids \in new_tids(fresh(done)) :
       store_torrents(done, lost, ids)
  /\ dbPeers' = Upsert(dbPeers, owedPeers)
  /\ dbUsers' = credit_users(dbUsers, owedUsers)
  /\ forget
  /\ UNCHANGED <<now, config, siteOps>>

crash ==
  /\ up /\ up' = FALSE
  /\ faults < MaxFaults /\ faults' = faults + 1
  /\ forget
  /\ UNCHANGED <<now, config, db, siteOps, missed>>

tick ==
  /\ now < MaxTime /\ now' = now + 1
  /\ UNCHANGED <<up, config, memory, owed, db, faults, siteOps, missed>>

site_op ==
  /\ siteOps < MaxSiteOps /\ siteOps' = siteOps + 1
  /\ UNCHANGED <<up, now, config, memory, owed, dbPeers, faults, missed>>

with_bytes(row, bytes) ==
  [pass |-> row.pass, version |-> row.version, can_leech |-> row.can_leech,
   peers_limit |-> row.peers_limit, wait_time |-> row.wait_time, bytes |-> bytes]
site_set_user(u, row) ==
  /\ site_op
  /\ dbUsers' = Put(dbUsers, u, with_bytes(row, IF u \in DOMAIN dbUsers THEN dbUsers[u].bytes
                                                 ELSE NoBytes))
  /\ UNCHANGED <<dbTorrents, nextTid>>
site_remove_user(u) ==
  /\ site_op /\ u \in DOMAIN dbUsers
  /\ dbUsers' = Without(dbUsers, {u})
  /\ UNCHANGED <<dbTorrents, nextTid>>

site_row(h) == [info_hash |-> h, leechers |-> 0, seeders |-> 0, completed |-> 0,
                ctime |-> now, flagged |-> FALSE]
site_insert_torrent(h) ==
  /\ site_op /\ h \notin hashes_of(DOMAIN dbTorrents) /\ nextTid <= MaxTid
  /\ dbTorrents' = Put(dbTorrents, nextTid, site_row(h)) /\ nextTid' = nextTid + 1
  /\ UNCHANGED dbUsers
site_flag_torrent(i) ==
  /\ site_op /\ i \in DOMAIN dbTorrents
  /\ dbTorrents' = [dbTorrents EXCEPT ![i].flagged = TRUE]
  /\ UNCHANGED <<dbUsers, nextTid>>

-----------------------------------------------------------------------------
Init ==
  /\ up = FALSE /\ now = 1 /\ config \in Config
  /\ torrents = Empty /\ tid_end = 0 /\ users = Empty /\ passes = Empty
  /\ owedPeers = Empty /\ owedRows = 0 /\ owedUsers = Empty
  /\ \E listed \in SUBSET Hash : \E row \in [1..Cardinality(listed) -> listed] :
       /\ Cardinality(listed) <= MaxTid
       /\ \A h \in listed : \E i \in 1..Cardinality(listed) : row[i] = h
       /\ dbTorrents = [i \in 1..Cardinality(listed) |->
                          [info_hash |-> row[i], leechers |-> 0, seeders |-> 0, completed |-> 0,
                           ctime |-> 1, flagged |-> FALSE]]
       /\ nextTid = Cardinality(listed) + 1
  /\ \E row \in [Uid -> UserRow] : dbUsers = [u \in Uid |-> with_bytes(row[u], NoBytes)]
  /\ dbPeers = Empty /\ faults = 0 /\ siteOps = 0 /\ missed = FALSE

Announce ==
  \E in \in Input :
    \/ announce_udp(in)
    \/ \E pass \in Pass \cup {"none"}, uid \in Uid \cup {0}, version \in {r.version : r \in UserRow} :
         announce_http(in, pass, uid, version)
Housekeeping ==
  clean_up \/ read_config \/ read_db_torrents \/ read_db_users
  \/ write_db_torrents \/ write_db_users
Site ==
  \/ \E u \in Uid : site_remove_user(u) \/ \E row \in UserRow : site_set_user(u, row)
  \/ \E h \in Hash : site_insert_torrent(h)
  \/ \E i \in Tid : site_flag_torrent(i)

Next == Announce \/ Housekeeping \/ start \/ stop \/ crash \/ tick \/ Site
Spec == Init /\ [][Next]_vars

\* The main loop comes round within five seconds and runs the housekeeping task that is
\* due; the service manager restarts the process.
FairSpec ==
  Spec /\ WF_vars(clean_up) /\ WF_vars(read_db_torrents) /\ WF_vars(write_db_torrents)
       /\ WF_vars(start)

-----------------------------------------------------------------------------
(* Properties.                                                             *)

\* Every variable has its type.
ProcessOK ==
  /\ up \in BOOLEAN /\ now \in 1..MaxTime /\ config \in Config
  /\ faults \in 0..MaxFaults /\ siteOps \in 0..MaxSiteOps
  /\ missed \in BOOLEAN
TorrentsOK ==
  /\ DOMAIN torrents \subseteq Hash \cup {"none"}
  /\ \A h \in DOMAIN torrents : IsTorrent(torrents[h])
  /\ tid_end \in Nat
UsersOK == IsMap(users, Uid, User) /\ IsMap(passes, Pass, Uid)
OwedOK ==
  /\ IsMap(owedPeers, Tid \X Uid, Bytes) /\ IsMap(owedUsers, Uid, Bytes)
  /\ owedRows \in 0..BufferRows
RowsOK == IsMap(dbTorrents, Tid, TorrentRow) /\ nextTid \in 1..(MaxTid + 1)
AccountsOK == IsMap(dbUsers, Uid, AccountRow) /\ IsMap(dbPeers, Tid \X Uid, Bytes)
TypeOK == ProcessOK /\ TorrentsOK /\ UsersOK /\ OwedOK /\ RowsOK /\ AccountsOK

\* The seeder and leecher counts a torrent announces and scrapes are the numbers of its
\* seeding and leeching peers: srv_insert_peer and clean_up keep two running counters
\* beside the peer table, across role changes, stops, timeouts and re-announces.
counts_match(t) ==
  /\ t.leechers = Cardinality(Role(t, TRUE))
  /\ t.seeders = Cardinality(Role(t, FALSE))
CountersMatchPeers == \A h \in DOMAIN torrents : counts_match(torrents[h])

\* No torrent_pass points at a user that read_db_users swept away.
PassesNameLiveUsers == \A p \in DOMAIN passes : passes[p] \in DOMAIN users

\* A torrent in memory that has a tid is the torrent of that row of xbt_torrents, so
\* write_db_torrents never overwrites another torrent's row nor re-creates a deleted one:
\* across inserts, deletes of flagged rows that fail half way, crashes and restarts.
TidsNameOwnRows ==
  \A h \in DOMAIN torrents :
    torrents[h].tid # 0 => /\ torrents[h].tid \in DOMAIN dbTorrents
                           /\ dbTorrents[torrents[h].tid].info_hash = h

\* Without auto_register only torrents of the table are tracked, as the site's
\* documentation says (htdocs/tracker/index.php, "Auto Register").
OnlyListedTracked ==
  ~config.auto_register => DOMAIN torrents \subseteq {dbTorrents[i].info_hash : i \in DOMAIN dbTorrents}

\* The row of a torrent that is not dirty shows the counts in memory, as long as none of the
\* tracker's queries about torrents has failed since it started: nothing that changes them
\* forgets to mark the torrent dirty, nothing marks it clean that did not reach the table,
\* and a start corrects what a crash or failed queries before it have left in the table.
shown(rows, t) ==
  /\ t.tid \in DOMAIN rows
  /\ rows[t.tid].leechers = t.leechers /\ rows[t.tid].seeders = t.seeders
  /\ rows[t.tid].completed = t.completed
StoredCountsCurrent ==
  ~missed => \A h \in DOMAIN torrents : ~torrents[h].dirty => shown(dbTorrents, torrents[h])

\* A peer that joins a torrent as a leecher never brings its user above peers_limit,
\* whatever the torrent's other peers of that user have become in the meantime.
JoinsWithin ==
  \A h \in DOMAIN torrents' : \A u \in DOMAIN users :
    LET before == IF h \in DOMAIN torrents THEN DOMAIN torrents[h].peers ELSE {}
        after == leeching(torrents'[h], u)
    IN after \ before # {} /\ users[u].peers_limit # 0
         => Cardinality(after) <= users[u].peers_limit
LimitOnJoin == [][JoinsWithin]_vars

tracked(h) == h \in DOMAIN torrents
listed_unflagged(h) == \E i \in DOMAIN dbTorrents : dbTorrents[i].info_hash = h /\ ~dbTorrents[i].flagged
listed_flagged(h) == \E i \in DOMAIN dbTorrents : dbTorrents[i].info_hash = h /\ dbTorrents[i].flagged

\* What a tracked torrent owes xbt_torrents reaches its row, or the torrent goes, unless a
\* query fails or the process crashes first: write_db_torrents clears the flag before it
\* sends the query, so what a failing one carried is owed no more.  After a failure the next
\* change is written again.
settled(h) == tracked(h) => shown(dbTorrents, torrents[h])
DirtyIsWritten ==
  \A h \in Hash : \A n \in 0..MaxFaults :
    tracked(h) /\ torrents[h].dirty /\ faults = n ~> settled(h) \/ faults > n

\* A torrent the site lists is eventually tracked, or the site flags it first.
ListedIsTracked == \A h \in Hash : listed_unflagged(h) ~> tracked(h) \/ ~listed_unflagged(h)

\* A torrent the site flags is eventually gone from memory and table.
FlaggedIsDeleted == \A h \in Hash : listed_flagged(h) ~> ~listed_flagged(h) /\ ~tracked(h)

\* A peer that stopped announcing is eventually dropped from the torrent.
silent(h, p) ==
  /\ tracked(h) /\ p \in DOMAIN torrents[h].peers
  /\ torrents[h].peers[p].mtime < now - PeerTimeout
SilentPeerDropped == \A h \in Hash : \A p \in PeerId : silent(h, p) ~> ~silent(h, p)
=============================================================================
