---------------------------- MODULE TrackerProofs ----------------------------
(***************************************************************************)
(* Proofs about Tracker and TrackerClients for every value of their        *)
(* constants.  First lemmas about the operators on one torrent, then the   *)
(* invariants of Spec, then what the clients of SpecClients are credited   *)
(* with.                                                                   *)
(***************************************************************************)
EXTENDS TrackerClients, FiniteSetTheorems, WellFoundedInduction, NatInduction, TLAPS

-----------------------------------------------------------------------------
(* One torrent.                                                            *)

\* What every torrent of the tracker satisfies: its type, and counters that agree with its peers.
GoodTorrent(t) == IsTorrent(t) /\ counts_match(t)

\* The peers of one role are finitely many.
LEMMA RoleFinite ==
  ASSUME NEW t, IsTorrent(t), NEW left
  PROVE  IsFiniteSet(Role(t, left))
<1>1. Role(t, left) \in SUBSET PeerId BY DEF IsTorrent, IsMap, Role
<1> QED BY <1>1, FS_Subset, DataAssumption

\* A torrent that g_torrents[] has just made has no peers and counts none.
LEMMA NewTorrentGood ==
  ASSUME NEW time \in Nat
  PROVE  GoodTorrent(new_torrent(time))
<1> DEFINE t == new_torrent(time)
<1>1. IsTorrent(t) BY BoundsAssumption DEF new_torrent, IsTorrent, IsMap, Empty
<1>2. \A left \in BOOLEAN : Role(t, left) = {} BY DEF Role, new_torrent, Empty
<1>3. Cardinality({}) = 0 BY FS_EmptySet
<1>4. counts_match(t) BY <1>2, <1>3 DEF counts_match, new_torrent
<1> QED BY <1>1, <1>4 DEF GoodTorrent

\* Inserting and writing torrents changes neither peers nor counters.
LEMMA CleanedGood ==
  ASSUME NEW t, GoodTorrent(t), NEW id \in 0..MaxTid
  PROVE  GoodTorrent(cleaned(t, id))
<1>1. /\ cleaned(t, id).peers = t.peers
      /\ cleaned(t, id).leechers = t.leechers
      /\ cleaned(t, id).seeders = t.seeders
      /\ IsTorrent(cleaned(t, id))
  BY DEF GoodTorrent, IsTorrent, cleaned
<1>2. \A left : Role(cleaned(t, id), left) = Role(t, left) BY <1>1 DEF Role
<1> QED BY <1>1, <1>2 DEF GoodTorrent, counts_match

\* An accepted announce keeps the type of its torrent.
LEMMA EnterTyped ==
  ASSUME NEW t, GoodTorrent(t), NEW in \in Input, NEW uid \in Uid \cup {0}, NEW time \in Nat
  PROVE  IsTorrent(enter(t, in, uid, time))
<1> DEFINE p == in.peer_id
           peer == [left |-> in.left, uid |-> uid, downloaded |-> in.downloaded,
                    uploaded |-> in.uploaded, mtime |-> time]
           e == enter(t, in, uid, time)
<1>1. p \in PeerId /\ peer \in Peer
  BY BoundsAssumption DEF Input, Peer
<1>2. IsMap(t.peers, PeerId, Peer) BY DEF GoodTorrent, IsTorrent
<1>3. IsMap(Restrict(t.peers, DOMAIN t.peers \ {p}), PeerId, Peer)
  BY <1>2 DEF IsMap, Restrict
<1>4. IsMap(Put(t.peers, p, peer), PeerId, Peer)
  BY <1>1, <1>2 DEF IsMap, Put
<1>5. IsMap(e.peers, PeerId, Peer)
  <2>1. CASE in.event = "stopped" BY <2>1, <1>3 DEF enter
  <2>2. CASE in.event # "stopped" BY <2>2, <1>4 DEF enter
  <2> QED BY <2>1, <2>2
<1>6. e \in [peers: {e.peers}, leechers: Int, seeders: Int, completed: Nat,
             tid: 0..MaxTid, ctime: Nat, dirty: BOOLEAN]
  <2>2. /\ t.leechers \in Int /\ t.seeders \in Int /\ t.completed \in Nat
        /\ t.tid \in 0..MaxTid /\ t.ctime \in Nat
    BY DEF GoodTorrent, IsTorrent
  <2>3. /\ e.leechers \in Int /\ e.seeders \in Int /\ e.completed \in Nat
        /\ e.tid \in 0..MaxTid /\ e.ctime \in Nat /\ e.dirty \in BOOLEAN
    <3> DEFINE fewerL == leaves(t, p, TRUE)
               fewerS == leaves(t, p, FALSE)
               moreL == Count(in.event # "stopped" /\ in.left)
               moreS == Count(in.event # "stopped" /\ ~in.left)
               moreC == Count(in.event = "completed")
    <3>1. fewerL \in Nat /\ fewerS \in Nat /\ moreL \in Nat /\ moreS \in Nat /\ moreC \in Nat
      BY DEF leaves, Count
    <3>2. /\ e.leechers = t.leechers - fewerL + moreL
          /\ e.seeders = t.seeders - fewerS + moreS
          /\ e.completed = t.completed + moreC
          /\ e.tid = t.tid /\ e.ctime = t.ctime
      BY DEF enter
    <3>3. e.dirty \in BOOLEAN BY Zenon DEF enter
    <3> HIDE DEF e, fewerL, fewerS, moreL, moreS, moreC
    <3> QED BY <2>2, <3>1, <3>2, <3>3
  <2>4. e = [peers |-> e.peers, leechers |-> e.leechers, seeders |-> e.seeders,
             completed |-> e.completed, tid |-> e.tid, ctime |-> e.ctime, dirty |-> e.dirty]
    BY DEF enter
  <2> HIDE DEF e
  <2> QED BY <2>3, <2>4
<1> QED BY <1>5, <1>6 DEF IsTorrent

\* An accepted announce moves its peer from the role it had, if any, to the role it has
\* now, if any, and no other peer.
LEMMA EnterRole ==
  ASSUME NEW t, GoodTorrent(t), NEW in \in Input, NEW uid, NEW time, NEW left \in BOOLEAN
  PROVE  Role(enter(t, in, uid, time), left) =
           IF in.event # "stopped" /\ in.left = left
           THEN Role(t, left) \cup {in.peer_id}
           ELSE Role(t, left) \ {in.peer_id}
<1>1. CASE in.event = "stopped" BY <1>1 DEF enter, Role, Restrict
<1>2. CASE in.event # "stopped"
  <2> DEFINE peer == [left |-> in.left, uid |-> uid, downloaded |-> in.downloaded,
                      uploaded |-> in.uploaded, mtime |-> time]
  <2>1. enter(t, in, uid, time).peers = Put(t.peers, in.peer_id, peer)
    BY <1>2 DEF enter
  <2>2. Role(enter(t, in, uid, time), left) =
          {p \in DOMAIN t.peers \cup {in.peer_id} :
             IF p = in.peer_id THEN in.left = left ELSE t.peers[p].left = left}
    BY <2>1 DEF Role, Put
  <2> QED BY <1>2, <2>2 DEF Role
<1> QED BY <1>1, <1>2

\* An accepted announce adds to and takes from the counters exactly what it does to the peers.
LEMMA EnterGood ==
  ASSUME NEW t, GoodTorrent(t), NEW in \in Input, NEW uid \in Uid \cup {0}, NEW time \in Nat
  PROVE  GoodTorrent(enter(t, in, uid, time))
<1> DEFINE p == in.peer_id
           e == enter(t, in, uid, time)
           joins(left) == in.event # "stopped" /\ in.left = left
<1>1. ASSUME NEW left \in BOOLEAN
      PROVE  Cardinality(Role(e, left)) =
               Cardinality(Role(t, left)) - leaves(t, p, left) + Count(joins(left))
  <2>1. IsFiniteSet(Role(t, left)) BY RoleFinite DEF GoodTorrent
  <2>2. /\ Cardinality(Role(t, left)) \in Nat
        /\ Cardinality(Role(t, left) \cup {p}) =
             IF p \in Role(t, left) THEN Cardinality(Role(t, left))
             ELSE Cardinality(Role(t, left)) + 1
        /\ Cardinality(Role(t, left) \ {p}) =
             IF p \in Role(t, left) THEN Cardinality(Role(t, left)) - 1
             ELSE Cardinality(Role(t, left))
    BY <2>1, FS_CardinalityType, FS_AddElement, FS_RemoveElement
  <2>3. Role(e, left) = IF joins(left) THEN Role(t, left) \cup {p} ELSE Role(t, left) \ {p}
    BY EnterRole
  <2> QED BY <2>2, <2>3 DEF leaves, Count
<1>2. in.left \in BOOLEAN BY DEF Input
<1>3. /\ e.leechers = t.leechers - leaves(t, p, TRUE) + Count(joins(TRUE))
      /\ e.seeders = t.seeders - leaves(t, p, FALSE) + Count(joins(FALSE))
  BY <1>2 DEF enter, Count
<1>4. counts_match(e)
  BY <1>1, <1>3 DEF counts_match, GoodTorrent
<1> QED BY <1>4, EnterTyped DEF GoodTorrent

\* clean_up takes the peers it drops off the counter of their role.
LEMMA ExpireGood ==
  ASSUME NEW t, GoodTorrent(t), NEW limit \in Int
  PROVE  GoodTorrent(expire(t, limit))
<1> DEFINE gone == stale(t, limit)
           e == expire(t, limit)
<1>1. e.peers = Restrict(t.peers, DOMAIN t.peers \ gone) BY DEF expire
<1>2. ASSUME NEW left \in BOOLEAN
      PROVE  /\ Cardinality(Role(e, left)) =
                  Cardinality(Role(t, left)) - Cardinality(gone \cap Role(t, left))
             /\ Cardinality(gone \cap Role(t, left)) \in Nat
  <2>1. Role(e, left) = Role(t, left) \ gone BY <1>1 DEF Role, Restrict
  <2>2. IsFiniteSet(Role(t, left)) BY RoleFinite DEF GoodTorrent
  <2>3. gone \cap Role(t, left) = Role(t, left) \cap gone OBVIOUS
  <2>4. IsFiniteSet(Role(t, left) \cap gone) BY <2>2, FS_Intersection
  <2>5. Cardinality(Role(t, left) \ gone) =
          Cardinality(Role(t, left)) - Cardinality(Role(t, left) \cap gone)
    BY <2>2, FS_Difference
  <2>6. Cardinality(Role(t, left) \cap gone) \in Nat BY <2>4, FS_CardinalityType
  <2> HIDE DEF gone, e
  <2> QED BY <2>1, <2>3, <2>5, <2>6
<1>3. /\ e.leechers = t.leechers - Cardinality(gone \cap Role(t, TRUE))
      /\ e.seeders = t.seeders - Cardinality(gone \cap Role(t, FALSE))
  BY DEF expire
<1>4. IsTorrent(e)
  <2>1. IsMap(e.peers, PeerId, Peer)
    BY <1>1 DEF GoodTorrent, IsTorrent, IsMap, Restrict
  <2>2. e \in [peers: {e.peers}, leechers: Int, seeders: Int, completed: Nat,
               tid: 0..MaxTid, ctime: Nat, dirty: BOOLEAN]
    <3>1. /\ t.leechers \in Int /\ t.seeders \in Int /\ t.completed \in Nat
          /\ t.tid \in 0..MaxTid /\ t.ctime \in Nat
      BY DEF GoodTorrent, IsTorrent
    <3>2. /\ e.leechers \in Int /\ e.seeders \in Int /\ e.completed \in Nat
          /\ e.tid \in 0..MaxTid /\ e.ctime \in Nat
      <4>1. e.completed = t.completed /\ e.tid = t.tid /\ e.ctime = t.ctime BY DEF expire
      <4>2. /\ Cardinality(gone \cap Role(t, TRUE)) \in Nat
            /\ Cardinality(gone \cap Role(t, FALSE)) \in Nat
        BY <1>2
      <4> HIDE DEF e, gone
      <4> QED BY <3>1, <4>1, <4>2, <1>3
    <3>3. e = [peers |-> e.peers, leechers |-> e.leechers, seeders |-> e.seeders,
               completed |-> e.completed, tid |-> e.tid, ctime |-> e.ctime, dirty |-> e.dirty]
      BY Zenon DEF expire
    <3>4. e.dirty \in BOOLEAN BY Zenon DEF expire
    <3> HIDE DEF e
    <3> QED BY <3>2, <3>3, <3>4
  <2> QED BY <2>1, <2>2 DEF IsTorrent
<1>5. counts_match(e) BY <1>2, <1>3 DEF counts_match, GoodTorrent
<1> QED BY <1>4, <1>5 DEF GoodTorrent

\* A row of xbt_torrents becomes a torrent without peers.
LEMMA LoadedGood ==
  ASSUME NEW rows, IsMap(rows, Tid, TorrentRow), NEW known, NEW from,
         NEW h \in DOMAIN loaded(rows, known, from)
  PROVE  /\ h \in Hash \cup {"none"}
         /\ GoodTorrent(loaded(rows, known, from)[h])
         /\ loaded(rows, known, from)[h].tid \in DOMAIN rows
         /\ rows[loaded(rows, known, from)[h].tid].info_hash = h
<1> DEFINE new == unseen(rows, known, from)
           i == CHOOSE i \in new : rows[i].info_hash = h
           t == loaded_torrent(rows[i], i)
<1>1. /\ i \in new /\ rows[i].info_hash = h
      /\ loaded(rows, known, from)[h] = t
  BY DEF loaded
<1>2. i \in Tid /\ rows[i] \in TorrentRow /\ i \in DOMAIN rows
  BY <1>1 DEF unseen, IsMap
<1>3. h \in Hash \cup {"none"} BY <1>1, <1>2 DEF TorrentRow
<1> HIDE DEF i
<1>4. IsTorrent(t)
  BY <1>2, BoundsAssumption DEF loaded_torrent, IsTorrent, IsMap, Empty, TorrentRow, Tid
<1>5. \A left : Role(t, left) = {} BY DEF Role, loaded_torrent, Empty
<1>6. counts_match(t) BY <1>5, FS_EmptySet DEF counts_match, loaded_torrent
<1>7. t.tid = i BY DEF loaded_torrent
<1> QED BY <1>1, <1>2, <1>3, <1>4, <1>6, <1>7 DEF GoodTorrent

-----------------------------------------------------------------------------
(* Maps of byte counts.                                                    *)

\* Adding a buffer to a table keeps the type.
LEMMA UpsertTyped ==
  ASSUME NEW S, NEW f, NEW g, IsMap(f, S, Bytes), IsMap(g, S, Bytes)
  PROVE  IsMap(Upsert(f, g), S, Bytes)
<1>1. \A k : Get(f, k) \in Bytes /\ Get(g, k) \in Bytes
  BY DEF IsMap, Get, NoBytes, Bytes
<1>2. \A a, b \in Bytes : Plus(a, b) \in Bytes BY DEF Plus, Bytes
<1> QED BY <1>1, <1>2 DEF Upsert, IsMap

\* Crediting users keeps the type; a credit for a deleted user makes a row of defaults.
LEMMA CreditTyped ==
  ASSUME NEW table, IsMap(table, Uid, AccountRow), NEW owing, IsMap(owing, Uid, Bytes)
  PROVE  IsMap(credit_users(table, owing), Uid, AccountRow)
<1>1. \A u : Get(owing, u) \in Bytes BY DEF IsMap, Get, NoBytes, Bytes
<1>2. \A a, b \in Bytes : Plus(a, b) \in Bytes BY DEF Plus, Bytes
<1>3. \A row \in AccountRow, b \in Bytes :
        [row EXCEPT !.bytes = Plus(@, b)] \in AccountRow
  BY <1>2 DEF AccountRow
<1>4. \A b \in Bytes : [pass |-> "none", version |-> 0, can_leech |-> TRUE, peers_limit |-> 0,
                         wait_time |-> 0, bytes |-> b] \in AccountRow
  BY DEF AccountRow
<1> DEFINE new == credit_users(table, owing)
<1>5. \A u \in DOMAIN table \cup DOMAIN owing : new[u] \in AccountRow
  <2> SUFFICES ASSUME NEW u \in DOMAIN table \cup DOMAIN owing PROVE new[u] \in AccountRow
    OBVIOUS
  <2>1. CASE u \notin DOMAIN table BY <2>1, <1>4 DEF credit_users, IsMap
  <2>2. CASE u \in DOMAIN table BY <2>2, <1>1, <1>3 DEF credit_users, IsMap
  <2> QED BY <2>1, <2>2
<1>6. /\ DOMAIN new = DOMAIN table \cup DOMAIN owing
      /\ new = [u \in DOMAIN table \cup DOMAIN owing |-> new[u]]
  BY DEF credit_users
<1> HIDE DEF new
<1>7. IsMap(new, Uid, AccountRow) BY <1>5, <1>6 DEF IsMap
<1> QED BY <1>7 DEF new

\* One entry of a buffer.
LEMMA EntryTyped ==
  ASSUME NEW S, NEW k \in S, NEW b \in Bytes
  PROVE  IsMap(Put(Empty, k, b), S, Bytes)
BY DEF IsMap, Put, Empty

\* An announce never takes bytes off an account.
LEMMA DeltaTyped ==
  ASSUME NEW t, GoodTorrent(t), NEW in \in Input, NEW uid
  PROVE  delta(t, in, uid) \in Bytes
<1>1. NoBytes \in Bytes BY DEF NoBytes, Bytes
<1>2. in.downloaded \in Nat /\ in.uploaded \in Nat BY BoundsAssumption DEF Input
<1>3. \A p \in DOMAIN t.peers : t.peers[p].downloaded \in Nat /\ t.peers[p].uploaded \in Nat
  BY DEF GoodTorrent, IsTorrent, IsMap, Peer
<1> QED BY <1>1, <1>2, <1>3 DEF delta, moved_since, Bytes

-----------------------------------------------------------------------------
(* The inductive invariant: the types, with the counters of every torrent, *)
(* the rows of the torrents and the owners of the passes.                  *)

TorrentsGood ==
  /\ DOMAIN torrents \subseteq Hash \cup {"none"}
  /\ \A h \in DOMAIN torrents : GoodTorrent(torrents[h])
  /\ tid_end \in Nat
  /\ TidsNameOwnRows
UsersGood == UsersOK /\ PassesNameLiveUsers
RowsGood == RowsOK /\ \A i \in DOMAIN dbTorrents : i < nextTid
Good == ProcessOK /\ TorrentsGood /\ UsersGood /\ OwedOK /\ RowsGood /\ AccountsOK

\* The invariant gives what the theorems state.
LEMMA GoodGives ==
  Good => TypeOK /\ CountersMatchPeers /\ PassesNameLiveUsers /\ TidsNameOwnRows
BY DEF Good, TorrentsGood, UsersGood, RowsGood, TypeOK, TorrentsOK, CountersMatchPeers, GoodTorrent

\* A torrent replaced or added under its own info hash and tid keeps the torrents good.
LEMMA PutTorrent ==
  ASSUME TorrentsGood, NEW h \in Hash, NEW t, GoodTorrent(t),
         t.tid = IF h \in DOMAIN torrents THEN torrents[h].tid ELSE 0,
         torrents' = Put(torrents, h, t), UNCHANGED <<tid_end, dbTorrents>>
  PROVE  TorrentsGood'
<1>1. DOMAIN torrents' = DOMAIN torrents \cup {h}
      /\ \A g \in DOMAIN torrents' : torrents'[g] = IF g = h THEN t ELSE torrents[g]
  BY DEF Put
<1>2. \A g \in DOMAIN torrents' : GoodTorrent(torrents'[g])
  BY <1>1 DEF TorrentsGood
<1>3. TidsNameOwnRows' BY <1>1 DEF TorrentsGood, TidsNameOwnRows
<1> QED BY <1>1, <1>2, <1>3 DEF TorrentsGood

\* The torrent an announce is about, old or new.
LEMMA FoundTorrentGood ==
  ASSUME Good, NEW h \in Hash
  PROVE  /\ GoodTorrent(found_torrent(h))
         /\ found_torrent(h).tid = IF h \in DOMAIN torrents THEN torrents[h].tid ELSE 0
<1>1. GoodTorrent(new_torrent(now)) BY NewTorrentGood, BoundsAssumption DEF Good, ProcessOK
<1>2. new_torrent(now).tid = 0 BY DEF new_torrent
<1> QED BY <1>1, <1>2 DEF found_torrent, Good, TorrentsGood

\* Sending the buffered updates, from the main loop or from a full buffer.
LEMMA FlushKeeps ==
  ASSUME Good, NEW peersOwed, IsMap(peersOwed, Tid \X Uid, Bytes),
         NEW usersOwed, IsMap(usersOwed, Uid, Bytes),
         flush_db_users(peersOwed, usersOwed)
  PROVE  OwedOK' /\ AccountsOK' /\ faults' \in 0..MaxFaults
<1>1. PICK peersSent \in BOOLEAN, usersSent \in BOOLEAN :
        /\ dbPeers' = IF peersSent THEN Upsert(dbPeers, peersOwed) ELSE dbPeers
        /\ dbUsers' = IF usersSent THEN credit_users(dbUsers, usersOwed) ELSE dbUsers
        /\ faults' = faults + Count(~peersSent /\ DOMAIN peersOwed # {})
                            + Count(~usersSent /\ DOMAIN usersOwed # {})
        /\ faults' <= MaxFaults
  BY DEF flush_db_users, send_db_users
<1>2. IsMap(dbPeers', Tid \X Uid, Bytes)
  BY <1>1, UpsertTyped DEF Good, AccountsOK
<1>3. IsMap(credit_users(dbUsers, usersOwed), Uid, AccountRow)
  BY CreditTyped DEF Good, AccountsOK
<1>4. AccountsOK' BY <1>1, <1>2, <1>3 DEF Good, AccountsOK
<1>5. faults' \in 0..MaxFaults
  <2> DEFINE a == Count(~peersSent /\ DOMAIN peersOwed # {})
             b == Count(~usersSent /\ DOMAIN usersOwed # {})
  <2>1. a \in Nat /\ b \in Nat BY DEF Count
  <2>2. faults' = faults + a + b /\ faults' <= MaxFaults BY <1>1
  <2> HIDE DEF a, b
  <2> QED BY <2>1, <2>2, BoundsAssumption DEF Good, ProcessOK
<1>6. OwedOK' BY BoundsAssumption DEF flush_db_users, OwedOK, IsMap, Empty
<1> QED BY <1>4, <1>5, <1>6

\* What an announce appends to the buffers.
LEMMA OweKeeps ==
  ASSUME Good, NEW t, GoodTorrent(t), t.tid # 0, NEW in \in Input, NEW uid \in Uid,
         owe(t, in, uid)
  PROVE  OwedOK' /\ AccountsOK' /\ faults' \in 0..MaxFaults
<1> DEFINE bytes == delta(t, in, uid)
           peersOwed == Upsert(owedPeers, Put(Empty, <<t.tid, uid>>, bytes))
           usersOwed == IF bytes = NoBytes THEN owedUsers
                        ELSE Upsert(owedUsers, Put(Empty, uid, bytes))
<1>1. bytes \in Bytes BY DeltaTyped
<1>2. <<t.tid, uid>> \in Tid \X Uid BY BoundsAssumption DEF GoodTorrent, IsTorrent, Tid
<1>3. IsMap(peersOwed, Tid \X Uid, Bytes)
  BY <1>1, <1>2, EntryTyped, UpsertTyped DEF Good, OwedOK
<1>4. IsMap(usersOwed, Uid, Bytes)
  BY <1>1, EntryTyped, UpsertTyped DEF Good, OwedOK
<1>5. IF owedRows + 1 > BufferRows
      THEN flush_db_users(peersOwed, usersOwed)
      ELSE /\ owedPeers' = peersOwed /\ owedRows' = owedRows + 1 /\ owedUsers' = usersOwed
           /\ UNCHANGED <<dbPeers, dbUsers, faults>>
  BY DEF owe, buffer_full
<1> HIDE DEF peersOwed, usersOwed
<1>6. CASE owedRows + 1 > BufferRows BY <1>3, <1>4, <1>5, <1>6, FlushKeeps
<1>7. CASE ~(owedRows + 1 > BufferRows)
  BY <1>3, <1>4, <1>5, <1>7, BoundsAssumption DEF Good, OwedOK, AccountsOK, ProcessOK
<1> QED BY <1>6, <1>7

-----------------------------------------------------------------------------
(* The steps.                                                              *)

\* Whoever announces is a user in memory, or nobody.
LEMMA AnnounceBy ==
  ASSUME Good, Announce
  PROVE  \E in \in Input, uid \in DOMAIN users \cup {0} : srv_insert_peer(in, uid)
<1>1. PICK in \in Input :
        \/ announce_udp(in)
        \/ \E pass \in Pass \cup {"none"}, uid \in Uid \cup {0},
              version \in {r.version : r \in UserRow} : announce_http(in, pass, uid, version)
  BY DEF Announce
<1>2. CASE announce_udp(in) BY <1>2 DEF announce_udp
<1>3. ASSUME NEW pass, NEW uid, NEW version, announce_http(in, pass, uid, version)
      PROVE  \E u \in DOMAIN users \cup {0} : srv_insert_peer(in, u)
  <2>1. find_user_by_torrent_pass(pass, uid, version) \in DOMAIN users \cup {0}
    BY DEF find_user_by_torrent_pass, Good, UsersGood, PassesNameLiveUsers
  <2> QED BY <1>3, <2>1 DEF announce_http
<1> QED BY <1>1, <1>2, <1>3

LEMMA AnnounceStep ==
  ASSUME Good, NEW in \in Input, NEW uid \in DOMAIN users \cup {0}, srv_insert_peer(in, uid)
  PROVE  Good'
<1> DEFINE t == found_torrent(in.info_hash)
<1>1. in.info_hash \in Hash /\ uid \in Uid \cup {0}
  BY DEF Input, Good, UsersGood, UsersOK, IsMap
<1>2. GoodTorrent(t) /\ t.tid = IF in.info_hash \in DOMAIN torrents
                                THEN torrents[in.info_hash].tid ELSE 0
  BY <1>1, FoundTorrentGood
<1>3. UNCHANGED <<up, now, config, tid_end, users, passes, dbTorrents, nextTid, siteOps, missed>>
  BY DEF srv_insert_peer
<1> HIDE DEF t
<1>4. CASE /\ torrents' = Put(torrents, in.info_hash, t)
           /\ UNCHANGED <<owed, dbUsers, dbPeers, faults>>
  <2>1. TorrentsGood' BY <1>1, <1>2, <1>3, <1>4, PutTorrent DEF Good
  <2> QED BY <2>1, <1>3, <1>4
       DEF Good, owed, ProcessOK, UsersGood, UsersOK, PassesNameLiveUsers, OwedOK, RowsGood, RowsOK, AccountsOK
<1>5. CASE /\ torrents' = Put(torrents, in.info_hash, enter(t, in, uid, now))
           /\ IF uid # 0 /\ t.tid # 0 THEN owe(t, in, uid)
              ELSE UNCHANGED <<owed, dbUsers, dbPeers, faults>>
  <2>1. now \in Nat BY BoundsAssumption DEF Good, ProcessOK
  <2>2. GoodTorrent(enter(t, in, uid, now)) BY <1>1, <1>2, <2>1, EnterGood
  <2>3. enter(t, in, uid, now).tid = t.tid BY DEF enter
  <2>4. TorrentsGood' BY <1>1, <1>2, <1>3, <1>5, <2>2, <2>3, PutTorrent DEF Good
  <2>5. OwedOK' /\ AccountsOK' /\ faults' \in 0..MaxFaults
    <3>1. CASE uid # 0 /\ t.tid # 0
      <4>1. uid \in Uid BY <1>1, <3>1
      <4> QED BY <1>2, <1>5, <3>1, <4>1, OweKeeps
    <3>2. CASE ~(uid # 0 /\ t.tid # 0)
      BY <1>5, <3>2 DEF owed, Good, ProcessOK, OwedOK, AccountsOK
    <3> QED BY <3>1, <3>2
  <2> QED BY <2>4, <2>5, <1>3
       DEF Good, ProcessOK, UsersGood, UsersOK, PassesNameLiveUsers, RowsGood, RowsOK
<1> QED BY <1>4, <1>5 DEF srv_insert_peer, t

LEMMA CleanUpStep == ASSUME Good, clean_up PROVE Good'
<1> DEFINE limit == now - PeerTimeout
<1>1. limit \in Int BY BoundsAssumption DEF Good, ProcessOK
<1>2. /\ DOMAIN torrents' = DOMAIN torrents
      /\ \A h \in DOMAIN torrents : torrents'[h] = expire(torrents[h], limit)
  BY DEF clean_up
<1>3. UNCHANGED <<up, now, config, tid_end, users, passes, owed, db, faults, siteOps, missed>>
  BY DEF clean_up
<1> HIDE DEF limit
<1>4. \A h \in DOMAIN torrents : GoodTorrent(torrents'[h])
  BY <1>1, <1>2, ExpireGood DEF Good, TorrentsGood
<1>5. \A h \in DOMAIN torrents : torrents'[h].tid = torrents[h].tid
  <2>1. ASSUME NEW t PROVE expire(t, limit).tid = t.tid BY DEF expire
  <2> QED BY <1>2, <2>1
<1>6. TorrentsGood'
  BY <1>2, <1>3, <1>4, <1>5 DEF Good, TorrentsGood, TidsNameOwnRows, db
<1> QED BY <1>3, <1>6
     DEF Good, owed, db, ProcessOK, UsersGood, UsersOK, PassesNameLiveUsers, OwedOK, RowsGood, RowsOK, AccountsOK

LEMMA ReadConfigStep == ASSUME Good, read_config PROVE Good'
BY DEF read_config, Good, memory, owed, db, ProcessOK, TorrentsGood, TidsNameOwnRows, UsersGood,
       UsersOK, PassesNameLiveUsers, OwedOK, RowsGood, RowsOK, AccountsOK

\* What read_db_users makes of the table.
LEMMA UsersFromTable ==
  ASSUME AccountsOK, users' = [u \in DOMAIN dbUsers |-> attributes(dbUsers[u])],
         NEW old, passes' \in pass_maps(old, dbUsers)
  PROVE  UsersGood'
<1>1. \A row \in AccountRow : attributes(row) \in User BY DEF AccountRow, attributes, User
<1>2. IsMap(users', Uid, User) BY <1>1 DEF AccountsOK, IsMap
<1>3. passes' \in [{dbUsers[u].pass : u \in DOMAIN dbUsers} \ {"none"} -> DOMAIN dbUsers]
  BY DEF pass_maps
<1>4. {dbUsers[u].pass : u \in DOMAIN dbUsers} \ {"none"} \subseteq Pass
  BY DEF AccountsOK, IsMap, AccountRow
<1>5. IsMap(passes', Pass, Uid) BY <1>3, <1>4 DEF IsMap, AccountsOK
<1>6. PassesNameLiveUsers' BY <1>3 DEF PassesNameLiveUsers
<1> QED BY <1>2, <1>5, <1>6 DEF UsersGood, UsersOK

LEMMA ReadUsersStep == ASSUME Good, read_db_users PROVE Good'
<1>1. UsersGood' BY UsersFromTable DEF read_db_users, Good
<1> QED BY <1>1 DEF read_db_users, Good, owed, db, ProcessOK, TorrentsGood, TidsNameOwnRows, OwedOK,
                    RowsGood, RowsOK, AccountsOK

LEMMA WriteUsersStep == ASSUME Good, write_db_users PROVE Good'
<1>1. OwedOK' /\ AccountsOK' /\ faults' \in 0..MaxFaults
  BY FlushKeeps DEF write_db_users, Good, OwedOK
<1> QED BY <1>1 DEF write_db_users, Good, memory, ProcessOK, TorrentsGood, TidsNameOwnRows,
                    UsersGood, UsersOK, PassesNameLiveUsers, RowsGood, RowsOK

\* A bounded set of numbers that is not empty has a largest one.
LEMMA MaxExists ==
  ASSUME NEW b \in Nat, NEW S \in SUBSET (0..b), S # {}
  PROVE  \E n \in S : \A m \in S : m <= n
<1> DEFINE T == {b - m : m \in S}
           R == OpToRel(<, Nat)
<1>1. T \subseteq Nat /\ T # {}
  <2>1. \A m \in S : b - m \in Nat OBVIOUS
  <2>2. PICK m \in S : TRUE OBVIOUS
  <2>3. b - m \in T OBVIOUS
  <2> QED BY <2>1, <2>3
<1>2. IsWellFoundedOn(R, Nat) BY NatLessThanWellFounded
<1> HIDE DEF R
<1>3. PICK x \in T : \A y \in T : ~ (<<y, x>> \in R) BY <1>1, <1>2, WFMin
<1>4. \A y \in T : <<y, x>> \in R <=> y < x BY <1>1 DEF R, OpToRel
<1>5. PICK n \in S : x = b - n OBVIOUS
<1>6. \A m \in S : ~ (b - m < b - n) BY <1>3, <1>4, <1>5
<1> QED BY <1>6

\* Where g_tid_end moves to.
LEMMA TidEndTyped ==
  ASSUME NEW rows, IsMap(rows, Tid, TorrentRow), NEW from \in Nat
  PROVE  tid_end_after(rows, from) \in Nat
<1> DEFINE S == {j \in DOMAIN rows : j >= from}
           ends == {from} \cup {i + 1 : i \in S}
<1>1. S \in SUBSET (1..MaxTid) BY DEF IsMap, Tid
<1>2. ends \in SUBSET (0..(MaxTid + 1 + from)) /\ ends # {}
  BY <1>1, BoundsAssumption
<1>3. MaxTid + 1 + from \in Nat BY BoundsAssumption
<1>4. \E n \in ends : \A m \in ends : m <= n
  <2> HIDE DEF ends
  <2> QED BY <1>2, <1>3, MaxExists
<1>5. tid_end_after(rows, from) \in ends BY <1>4 DEF tid_end_after
<1> QED BY <1>2, <1>5

\* Loading rows into good torrents that stay in the table.
LEMMA SelectKeeps ==
  ASSUME NEW kept, NEW rows, IsMap(rows, Tid, TorrentRow), NEW from \in Nat,
         DOMAIN kept \subseteq Hash \cup {"none"},
         \A h \in DOMAIN kept : GoodTorrent(kept[h]),
         \A h \in DOMAIN kept : kept[h].tid # 0 => /\ kept[h].tid \in DOMAIN rows
                                                   /\ rows[kept[h].tid].info_hash = h,
         torrents' = Union(kept, loaded(rows, DOMAIN kept, from)),
         tid_end' = tid_end_after(rows, from), dbTorrents' = rows
  PROVE  TorrentsGood'
<1> DEFINE new == loaded(rows, DOMAIN kept, from)
<1>1. /\ DOMAIN torrents' = DOMAIN kept \cup DOMAIN new
      /\ \A h \in DOMAIN torrents' :
           torrents'[h] = IF h \in DOMAIN kept THEN kept[h] ELSE new[h]
  BY DEF Union
<1>2. \A h \in DOMAIN new : /\ h \in Hash \cup {"none"} /\ GoodTorrent(new[h])
                            /\ new[h].tid \in DOMAIN rows /\ rows[new[h].tid].info_hash = h
  BY LoadedGood
<1> HIDE DEF new
<1>3. tid_end' \in Nat BY TidEndTyped
<1>4. TidsNameOwnRows' BY <1>1, <1>2 DEF TidsNameOwnRows
<1> QED BY <1>1, <1>2, <1>3, <1>4 DEF TorrentsGood

\* Deleting rows keeps the table's type.
LEMMA WithoutRows ==
  ASSUME RowsGood, NEW S
  PROVE  /\ IsMap(Without(dbTorrents, S), Tid, TorrentRow)
         /\ \A i \in DOMAIN Without(dbTorrents, S) : i < nextTid
BY DEF RowsGood, RowsOK, IsMap, Without, Restrict

\* Erasing a row's torrent together with the row leaves every other torrent its row.
LEMMA ErasedKeeps ==
  ASSUME TorrentsGood, NEW deleted, NEW erased, deleted \subseteq erased,
         deleted \subseteq DOMAIN dbTorrents, NEW kept, NEW rows,
         kept = keeping(erased), rows = Without(dbTorrents, deleted)
  PROVE  /\ DOMAIN kept \subseteq Hash \cup {"none"}
         /\ \A h \in DOMAIN kept : GoodTorrent(kept[h])
         /\ \A h \in DOMAIN kept : kept[h].tid # 0 => /\ kept[h].tid \in DOMAIN rows
                                                      /\ rows[kept[h].tid].info_hash = h
<1>1. /\ DOMAIN kept = DOMAIN torrents \ hashes_of(erased)
      /\ \A h \in DOMAIN kept : kept[h] = torrents[h]
      /\ DOMAIN rows = DOMAIN dbTorrents \ deleted
      /\ \A i \in DOMAIN rows : rows[i] = dbTorrents[i]
  BY DEF keeping, Without, Restrict
<1>2. \A i \in deleted : dbTorrents[i].info_hash \in hashes_of(erased) BY DEF hashes_of
<1>3. \A h \in DOMAIN torrents :
        torrents[h].tid # 0 => /\ torrents[h].tid \in DOMAIN dbTorrents
                               /\ dbTorrents[torrents[h].tid].info_hash = h
  BY DEF TorrentsGood, TidsNameOwnRows
<1>4. \A h \in DOMAIN kept : kept[h].tid # 0 => kept[h].tid \notin deleted
  BY <1>1, <1>2, <1>3
<1>5. \A h \in DOMAIN kept : kept[h].tid # 0 => /\ kept[h].tid \in DOMAIN rows
                                                /\ rows[kept[h].tid].info_hash = h
  BY <1>1, <1>3, <1>4
<1>6. DOMAIN kept \subseteq Hash \cup {"none"} BY <1>1 DEF TorrentsGood
<1>7. \A h \in DOMAIN kept : GoodTorrent(kept[h])
  <2>1. \A h \in DOMAIN torrents : GoodTorrent(torrents[h]) BY DEF TorrentsGood
  <2> QED BY <1>1, <2>1
<1> QED BY <1>5, <1>6, <1>7

LEMMA ReadTorrentsStep == ASSUME Good, read_db_torrents PROVE Good'
<1>1. UNCHANGED <<up, now, config, users, passes, owed, dbUsers, dbPeers, nextTid, siteOps>>
  BY DEF read_db_torrents
<1>2. CASE /\ torrents = Empty
           /\ select_torrents(torrents, dbTorrents, tid_end) /\ UNCHANGED <<dbTorrents, faults, missed>>
  <2>1. TorrentsGood'
    BY <1>2, SelectKeeps
       DEF select_torrents, Good, TorrentsGood, RowsGood, RowsOK, TidsNameOwnRows
  <2>2. UNCHANGED <<dbTorrents, faults, missed>> BY <1>2
  <2>3. RowsGood' BY <1>1, <2>2 DEF Good, RowsGood, RowsOK
  <2> QED BY <1>1, <2>1, <2>2, <2>3
       DEF Good, owed, ProcessOK, UsersGood, UsersOK, PassesNameLiveUsers, OwedOK, RowsGood, RowsOK, AccountsOK
<1>3. CASE /\ select_torrents(keeping(flagged),
                              Without(dbTorrents, flagged), tid_end)
           /\ dbTorrents' = Without(dbTorrents, flagged) /\ UNCHANGED <<faults, missed>>
  <2> DEFINE kept == keeping(flagged)
             rows == Without(dbTorrents, flagged)
  <2>1. flagged \subseteq DOMAIN dbTorrents BY DEF flagged
  <2>2. IsMap(rows, Tid, TorrentRow) /\ \A i \in DOMAIN rows : i < nextTid
    BY WithoutRows DEF Good
  <2>7. /\ kept = keeping(flagged) /\ rows = Without(dbTorrents, flagged)
        /\ flagged \subseteq flagged /\ TorrentsGood
    BY DEF Good
  <2> HIDE DEF kept, rows
  <2>3. /\ DOMAIN kept \subseteq Hash \cup {"none"}
        /\ \A h \in DOMAIN kept : GoodTorrent(kept[h])
        /\ \A h \in DOMAIN kept : kept[h].tid # 0 => /\ kept[h].tid \in DOMAIN rows
                                                     /\ rows[kept[h].tid].info_hash = h
    BY <2>1, <2>7, ErasedKeeps
  <2>4. tid_end \in Nat BY DEF Good, TorrentsGood
  <2>5. /\ torrents' = Union(kept, loaded(rows, DOMAIN kept, tid_end))
        /\ tid_end' = tid_end_after(rows, tid_end) /\ dbTorrents' = rows
    BY <1>3 DEF select_torrents, kept, rows
  <2>6. TorrentsGood' BY <2>2, <2>3, <2>4, <2>5, SelectKeeps
  <2> QED BY <1>1, <1>3, <2>2, <2>5, <2>6
       DEF Good, owed, ProcessOK, UsersGood, UsersOK, PassesNameLiveUsers, OwedOK, RowsGood, RowsOK, AccountsOK
<1>4. CASE /\ faults < MaxFaults /\ faults' = faults + 1 /\ missed' = TRUE /\ UNCHANGED tid_end
           /\ \E deleted \in SUBSET flagged, last \in SUBSET flagged :
                /\ torrents' = keeping(deleted \cup last)
                /\ dbTorrents' = Without(dbTorrents, deleted)
  <2>1. PICK deleted \in SUBSET flagged, last \in SUBSET flagged :
          /\ torrents' = keeping(deleted \cup last)
          /\ dbTorrents' = Without(dbTorrents, deleted)
    BY <1>4
  <2>2. deleted \subseteq DOMAIN dbTorrents BY DEF flagged
  <2>3. /\ DOMAIN torrents' \subseteq Hash \cup {"none"}
        /\ \A h \in DOMAIN torrents' : GoodTorrent(torrents'[h])
        /\ \A h \in DOMAIN torrents' :
             torrents'[h].tid # 0 => /\ torrents'[h].tid \in DOMAIN dbTorrents'
                                     /\ dbTorrents'[torrents'[h].tid].info_hash = h
    BY <2>1, <2>2, ErasedKeeps DEF Good
  <2>4. TorrentsGood' BY <1>4, <2>3 DEF Good, TorrentsGood, TidsNameOwnRows
  <2>5. RowsGood'
    BY <1>1, <2>1, WithoutRows DEF Good, RowsGood, RowsOK
  <2>6. faults' \in 0..MaxFaults BY <1>4, BoundsAssumption DEF Good, ProcessOK
  <2>7. ProcessOK' BY <1>1, <1>4, <2>6 DEF Good, ProcessOK
  <2> QED BY <1>1, <2>4, <2>5, <2>7
       DEF Good, owed, UsersGood, UsersOK, PassesNameLiveUsers, OwedOK, AccountsOK
<1>5. ASSUME \E deleted \in SUBSET flagged :
               \E last \in IF deleted = flagged THEN {{}} ELSE {{i} : i \in flagged \ deleted} :
                 /\ torrents' = keeping(deleted \cup last)
                 /\ dbTorrents' = Without(dbTorrents, deleted)
      PROVE  \E deleted \in SUBSET flagged, last \in SUBSET flagged :
                 /\ torrents' = keeping(deleted \cup last)
                 /\ dbTorrents' = Without(dbTorrents, deleted)
  <2>1. \A deleted \in SUBSET flagged :
          (IF deleted = flagged THEN {{}} ELSE {{i} : i \in flagged \ deleted}) \subseteq SUBSET flagged
    OBVIOUS
  <2> QED BY <1>5, <2>1
<1> QED BY <1>2, <1>3, <1>4, <1>5 DEF read_db_torrents

\* A row with other counts.
LEMMA WithCountsTyped ==
  ASSUME NEW row \in TorrentRow, NEW l \in Int, NEW s \in Int, NEW c \in Nat
  PROVE  /\ with_counts(row, l, s, c) \in TorrentRow
         /\ with_counts(row, l, s, c).info_hash = row.info_hash
BY DEF with_counts, TorrentRow

\* What write_db_torrents makes of the table: every row it had is there with its info hash,
\* and each torrent written names a row of its own info hash.
LEMMA StoredRows ==
  ASSUME Good, NEW done \in SUBSET dirty_torrents, NEW lost,
         NEW ids \in new_tids(fresh(done)), store_torrents(done, lost, ids)
  PROVE  /\ RowsGood' /\ faults' \in 0..MaxFaults /\ missed' \in BOOLEAN
         /\ \A i \in DOMAIN dbTorrents : /\ i \in DOMAIN dbTorrents'
                                         /\ dbTorrents'[i].info_hash = dbTorrents[i].info_hash
         /\ \A h \in done : /\ tid_of(h, ids) \in Tid /\ tid_of(h, ids) \in DOMAIN dbTorrents'
                            /\ dbTorrents'[tid_of(h, ids)].info_hash = h
<1> DEFINE new == fresh(done)
           rows == inserted(done, ids)
           n == Cardinality(new)
           entry(i) == [info_hash |-> CHOOSE h \in new : ids[h] = i, leechers |-> 0,
                        seeders |-> 0, completed |-> 0, ctime |-> now, flagged |-> FALSE]
<1>1. /\ done \subseteq DOMAIN torrents /\ new \subseteq done
      /\ new \subseteq Hash \cup {"none"}
  BY DEF dirty_torrents, fresh, Good, TorrentsGood
<1>2. IsFiniteSet(new) /\ n \in Nat
  <2>1. IsFiniteSet(Hash \cup {"none"}) BY DataAssumption, FS_AddElement
  <2>2. IsFiniteSet(new) BY <1>1, <2>1, FS_Subset
  <2> QED BY <2>2, FS_CardinalityType
<1>3. /\ nextTid \in 1..(MaxTid + 1) /\ nextTid + n <= MaxTid + 1
      /\ dbTorrents' = stored(rows, done \ lost, ids) /\ nextTid' = nextTid + n
  BY DEF store_torrents, Good, RowsGood, RowsOK
<1>4. /\ \A h \in new : ids[h] \in nextTid..(nextTid + n - 1)
      /\ \A g, h \in new : ids[g] = ids[h] => g = h
  BY DEF new_tids
<1>5. \A h \in new : ids[h] \in Tid /\ ids[h] < nextTid' /\ ids[h] \notin DOMAIN dbTorrents
  <2> HIDE DEF n, new
  <2> QED BY <1>2, <1>3, <1>4, BoundsAssumption DEF Tid, Good, RowsGood
<1>6. \A i \in DOMAIN dbTorrents : i \in Tid /\ i < nextTid' /\ dbTorrents[i] \in TorrentRow
  <2>1. \A i \in DOMAIN dbTorrents : i \in Tid /\ i < nextTid /\ dbTorrents[i] \in TorrentRow
    BY DEF Good, RowsGood, RowsOK, IsMap
  <2> HIDE DEF n
  <2> QED BY <2>1, <1>2, <1>3, BoundsAssumption DEF Tid
<1>7. /\ DOMAIN rows = DOMAIN dbTorrents \cup {ids[h] : h \in new}
      /\ \A i \in DOMAIN dbTorrents : rows[i] = dbTorrents[i]
      /\ \A i \in DOMAIN rows : i \notin DOMAIN dbTorrents => rows[i] = entry(i)
  BY DEF inserted, Union
<1>8. \A h \in new : (CHOOSE g \in new : ids[g] = ids[h]) = h BY <1>4
<1>9. \A h \in new : /\ ids[h] \in DOMAIN rows /\ rows[ids[h]].info_hash = h
                     /\ rows[ids[h]] \in TorrentRow
  <2> SUFFICES ASSUME NEW h \in new
               PROVE  /\ ids[h] \in DOMAIN rows /\ rows[ids[h]].info_hash = h
                      /\ rows[ids[h]] \in TorrentRow
    OBVIOUS
  <2>1. ids[h] \in DOMAIN rows /\ rows[ids[h]] = entry(ids[h]) BY <1>5, <1>7
  <2>2. entry(ids[h]).info_hash = h BY <1>8
  <2>3. h \in Hash \cup {"none"} /\ now \in Nat
    BY <1>1, BoundsAssumption DEF Good, ProcessOK
  <2>5. entry(ids[h]) = [info_hash |-> h, leechers |-> 0, seeders |-> 0, completed |-> 0,
                         ctime |-> now, flagged |-> FALSE]
    BY <1>8
  <2>4. entry(ids[h]) \in TorrentRow
    <3> HIDE DEF entry
    <3> QED BY <2>3, <2>5 DEF TorrentRow
  <2> HIDE DEF rows, entry, new
  <2> QED BY <2>1, <2>2, <2>4
<1>10. \A i \in DOMAIN rows : i \in Tid /\ i < nextTid' /\ rows[i] \in TorrentRow
  <2> HIDE DEF rows, new, entry
  <2> QED BY <1>5, <1>6, <1>7, <1>9
<1>11. \A h \in done : /\ tid_of(h, ids) \in DOMAIN rows
                       /\ rows[tid_of(h, ids)].info_hash = h
  <2> SUFFICES ASSUME NEW h \in done
               PROVE  /\ tid_of(h, ids) \in DOMAIN rows /\ rows[tid_of(h, ids)].info_hash = h
    OBVIOUS
  <2>1. CASE torrents[h].tid = 0
    <3>1. h \in new BY <2>1 DEF fresh
    <3>2. tid_of(h, ids) = ids[h] BY <2>1 DEF tid_of
    <3> HIDE DEF rows, new, entry
    <3> QED BY <3>1, <3>2, <1>9
  <2>2. CASE torrents[h].tid # 0
    <3>1. torrents[h].tid \in DOMAIN dbTorrents /\ dbTorrents[torrents[h].tid].info_hash = h
      BY <1>1, <2>2 DEF Good, TorrentsGood, TidsNameOwnRows
    <3>2. tid_of(h, ids) = torrents[h].tid BY <2>2 DEF tid_of
    <3> HIDE DEF rows, new, entry
    <3> QED BY <3>1, <3>2, <1>7
  <2> QED BY <2>1, <2>2
<1>12. DOMAIN dbTorrents' = DOMAIN rows
  <2>1. DOMAIN dbTorrents' = DOMAIN rows \cup {tid_of(h, ids) : h \in done \ lost}
    BY <1>3 DEF stored
  <2> HIDE DEF rows, new, entry
  <2> QED BY <2>1, <1>11
<1>13. \A i \in DOMAIN rows : /\ dbTorrents'[i] \in TorrentRow
                              /\ dbTorrents'[i].info_hash = rows[i].info_hash
  <2> SUFFICES ASSUME NEW i \in DOMAIN rows
               PROVE  /\ dbTorrents'[i] \in TorrentRow
                      /\ dbTorrents'[i].info_hash = rows[i].info_hash
    OBVIOUS
  <2> DEFINE sent == {h \in done \ lost : tid_of(h, ids) = i}
             t == torrents[CHOOSE h \in done \ lost : tid_of(h, ids) = i]
             row == rows[i]
             written == with_counts(row, t.leechers, t.seeders, t.completed)
  <2>1. dbTorrents'[i] = IF \E h \in done \ lost : tid_of(h, ids) = i THEN written ELSE row
    BY <1>3 DEF stored
  <2>2. row \in TorrentRow BY <1>10
  <2>3. CASE ~ \E h \in done \ lost : tid_of(h, ids) = i
    <3> HIDE DEF row, written
    <3>1. dbTorrents'[i] = row BY <2>1, <2>3
    <3> QED BY <2>2, <3>1 DEF row
  <2>4. CASE \E h \in done \ lost : tid_of(h, ids) = i
    <3>1. PICK h \in done : t = torrents[h]
      <4> DEFINE g == CHOOSE h \in done \ lost : tid_of(h, ids) = i
      <4>1. g \in done BY <2>4
      <4>2. t = torrents[g] OBVIOUS
      <4> QED BY <4>1, <4>2
    <3>2. IsTorrent(torrents[h]) BY <1>1 DEF Good, TorrentsGood, GoodTorrent
    <3>3. t.leechers \in Int /\ t.seeders \in Int /\ t.completed \in Nat
      BY <3>1, <3>2 DEF IsTorrent
    <3> HIDE DEF row, t
    <3>4. written \in TorrentRow /\ written.info_hash = row.info_hash
      BY <2>2, <3>3, WithCountsTyped
    <3>5. dbTorrents'[i] = written BY <2>1, <2>4
    <3> HIDE DEF written
    <3> QED BY <3>4, <3>5 DEF row
  <2> QED BY <2>3, <2>4
<1>14. dbTorrents' = [i \in DOMAIN dbTorrents' |-> dbTorrents'[i]] BY <1>3 DEF stored
<1>15. RowsGood'
  <2>1. IsMap(dbTorrents', Tid, TorrentRow)
    <3> HIDE DEF rows, new, entry
    <3> QED BY <1>10, <1>12, <1>13, <1>14 DEF IsMap
  <2>2. nextTid' \in 1..(MaxTid + 1)
    <3> HIDE DEF n
    <3> QED BY <1>2, <1>3, BoundsAssumption
  <2>3. \A i \in DOMAIN dbTorrents' : i < nextTid' BY <1>10, <1>12
  <2> QED BY <2>1, <2>2, <2>3 DEF RowsGood, RowsOK
<1>16. faults' \in 0..MaxFaults
  <2>1. \E b \in BOOLEAN : faults' = faults + Count(b) BY DEF store_torrents
  <2>2. faults' <= MaxFaults BY DEF store_torrents
  <2> QED BY <2>1, <2>2, BoundsAssumption DEF Count, Good, ProcessOK
<1>19. missed' \in BOOLEAN
  <2>1. missed' = (missed \/ lost # {}) \/ missed' = TRUE BY DEF store_torrents
  <2> QED BY <2>1
<1>17. \A i \in DOMAIN dbTorrents : /\ i \in DOMAIN dbTorrents'
                                    /\ dbTorrents'[i].info_hash = dbTorrents[i].info_hash
  <2> HIDE DEF rows, new, entry
  <2> QED BY <1>7, <1>12, <1>13
<1>18. \A h \in done : /\ tid_of(h, ids) \in Tid /\ tid_of(h, ids) \in DOMAIN dbTorrents'
                       /\ dbTorrents'[tid_of(h, ids)].info_hash = h
  <2> HIDE DEF rows, new, entry
  <2> QED BY <1>10, <1>11, <1>12, <1>13
<1> QED BY <1>15, <1>16, <1>17, <1>18, <1>19

\* Writing torrents, all or some of them, with queries that fail or not.
LEMMA WriteTorrentsStep == ASSUME Good, write_db_torrents PROVE Good'
<1>0. PICK done \in SUBSET dirty_torrents :
        \E lost \in SUBSET done, ids \in new_tids(fresh(done)) :
          /\ store_torrents(done, lost, ids)
          /\ torrents' = [h \in DOMAIN torrents |->
                            IF h \in done THEN cleaned(torrents[h], tid_of(h, ids)) ELSE torrents[h]]
  BY DEF write_db_torrents
<1>1. PICK lost \in SUBSET done, ids \in new_tids(fresh(done)) :
        /\ store_torrents(done, lost, ids)
        /\ torrents' = [h \in DOMAIN torrents |->
                          IF h \in done THEN cleaned(torrents[h], tid_of(h, ids)) ELSE torrents[h]]
  BY <1>0
<1>2. UNCHANGED <<up, now, config, tid_end, users, passes, owed, dbUsers, dbPeers, siteOps>>
  BY DEF write_db_torrents
<1>3. /\ RowsGood' /\ faults' \in 0..MaxFaults /\ missed' \in BOOLEAN
      /\ \A i \in DOMAIN dbTorrents : /\ i \in DOMAIN dbTorrents'
                                      /\ dbTorrents'[i].info_hash = dbTorrents[i].info_hash
      /\ \A h \in done : /\ tid_of(h, ids) \in Tid /\ tid_of(h, ids) \in DOMAIN dbTorrents'
                         /\ dbTorrents'[tid_of(h, ids)].info_hash = h
  BY <1>1, StoredRows
<1>4. /\ DOMAIN torrents' = DOMAIN torrents
      /\ \A h \in DOMAIN torrents :
           torrents'[h] = IF h \in done THEN cleaned(torrents[h], tid_of(h, ids)) ELSE torrents[h]
  BY <1>1
<1>5. \A h \in DOMAIN torrents : GoodTorrent(torrents[h]) BY DEF Good, TorrentsGood
<1>6. \A h \in DOMAIN torrents : GoodTorrent(torrents'[h])
  <2>1. \A h \in done : tid_of(h, ids) \in 0..MaxTid BY <1>3, BoundsAssumption DEF Tid
  <2> QED BY <1>4, <1>5, <2>1, CleanedGood
<1>7. \A h \in DOMAIN torrents :
        torrents'[h].tid = IF h \in done THEN tid_of(h, ids) ELSE torrents[h].tid
  <2>1. ASSUME NEW h \in DOMAIN torrents
        PROVE  cleaned(torrents[h], tid_of(h, ids)).tid = tid_of(h, ids)
    BY <1>5, <2>1 DEF cleaned, GoodTorrent, IsTorrent
  <2> QED BY <1>4, <2>1
<1>8. TidsNameOwnRows'
  BY <1>3, <1>4, <1>7 DEF TidsNameOwnRows, Good, TorrentsGood
<1>9. TorrentsGood' BY <1>2, <1>4, <1>6, <1>8 DEF Good, TorrentsGood
<1> QED BY <1>2, <1>3, <1>9
     DEF Good, owed, ProcessOK, UsersGood, UsersOK, PassesNameLiveUsers, OwedOK, AccountsOK

\* What memory holds while the process does not run.
LEMMA ForgetKeeps ==
  ASSUME forget PROVE TorrentsGood' /\ UsersGood' /\ OwedOK'
BY BoundsAssumption DEF forget, TorrentsGood, TidsNameOwnRows, UsersGood, UsersOK,
   PassesNameLiveUsers, OwedOK, IsMap, Empty

LEMMA StopStep == ASSUME Good, stop PROVE Good'
<1>1. TorrentsGood' /\ UsersGood' /\ OwedOK' BY ForgetKeeps DEF stop
<1>2. RowsGood' /\ faults' \in 0..MaxFaults /\ missed' \in BOOLEAN BY StoredRows DEF stop
<1>3. AccountsOK' BY UpsertTyped, CreditTyped DEF stop, Good, OwedOK, AccountsOK
<1> QED BY <1>1, <1>2, <1>3 DEF stop, Good, ProcessOK

LEMMA CrashStep == ASSUME Good, crash PROVE Good'
<1>1. TorrentsGood' /\ UsersGood' /\ OwedOK' BY ForgetKeeps DEF crash
<1>2. faults' \in 0..MaxFaults BY BoundsAssumption DEF crash, Good, ProcessOK
<1> QED BY <1>1, <1>2 DEF crash, Good, ProcessOK, RowsGood, RowsOK, AccountsOK, db

\* The update that zeroes the counts at startup.
LEMMA ZeroedRows ==
  ASSUME NEW rows, IsMap(rows, Tid, TorrentRow)
  PROVE  IsMap(zeroed(rows), Tid, TorrentRow) /\ DOMAIN zeroed(rows) = DOMAIN rows
<1>1. \A row \in TorrentRow : with_counts(row, 0, 0, row.completed) \in TorrentRow
  BY WithCountsTyped DEF TorrentRow
<1>2. \A i \in DOMAIN rows : zeroed(rows)[i] \in TorrentRow BY <1>1 DEF zeroed, IsMap
<1>3. DOMAIN zeroed(rows) = DOMAIN rows /\ zeroed(rows) = [i \in DOMAIN rows |-> zeroed(rows)[i]]
  BY DEF zeroed
<1> QED BY <1>2, <1>3 DEF IsMap

LEMMA StartStep == ASSUME Good, start PROVE Good'
<1>1. PICK torrentsRead \in BOOLEAN, usersRead \in BOOLEAN :
        /\ \E gone \in SUBSET flagged : dbTorrents' = zeroed(Without(dbTorrents, gone))
        /\ torrents' = IF torrentsRead THEN loaded(dbTorrents', {}, 0) ELSE Empty
        /\ tid_end' = IF torrentsRead THEN tid_end_after(dbTorrents', 0) ELSE 0
        /\ IF usersRead
           THEN /\ users' = [u \in DOMAIN dbUsers |-> attributes(dbUsers[u])]
                /\ passes' \in pass_maps(Empty, dbUsers)
           ELSE users' = Empty /\ passes' = Empty
        /\ faults' = faults + Count(~torrentsRead) + Count(~usersRead)
        /\ faults' <= MaxFaults
  BY DEF start
<1>2. PICK gone : dbTorrents' = zeroed(Without(dbTorrents, gone)) BY <1>1
<1>3. IsMap(dbTorrents', Tid, TorrentRow) /\ \A i \in DOMAIN dbTorrents' : i < nextTid
  BY <1>2, WithoutRows, ZeroedRows DEF Good
<1>4. RowsGood' BY <1>3 DEF start, Good, RowsGood, RowsOK
<1>5. tid_end' \in Nat BY <1>1, <1>3, TidEndTyped
<1>6. TorrentsGood'
  <2>1. CASE torrentsRead
    <3>1. \A h \in DOMAIN torrents' :
            /\ h \in Hash \cup {"none"} /\ GoodTorrent(torrents'[h])
            /\ torrents'[h].tid \in DOMAIN dbTorrents'
            /\ dbTorrents'[torrents'[h].tid].info_hash = h
      BY <1>1, <1>3, <2>1, LoadedGood
    <3> QED BY <3>1, <1>5 DEF TorrentsGood, TidsNameOwnRows
  <2>2. CASE ~torrentsRead
    BY <1>1, <1>5, <2>2 DEF TorrentsGood, TidsNameOwnRows, Empty
  <2> QED BY <2>1, <2>2
<1>7. UsersGood'
  <2>1. CASE usersRead BY <1>1, <2>1, UsersFromTable DEF Good
  <2>2. CASE ~usersRead
    BY <1>1, <2>2 DEF UsersGood, UsersOK, PassesNameLiveUsers, IsMap, Empty
  <2> QED BY <2>1, <2>2
<1>8. faults' \in 0..MaxFaults
  BY <1>1, BoundsAssumption DEF Count, Good, ProcessOK
<1> QED BY <1>4, <1>6, <1>7, <1>8 DEF start, Good, owed, ProcessOK, OwedOK, AccountsOK

LEMMA TickStep == ASSUME Good, tick PROVE Good'
<1>1. now' \in 1..MaxTime BY BoundsAssumption DEF tick, Good, ProcessOK
<1> QED BY <1>1 DEF tick, Good, memory, owed, db, ProcessOK, TorrentsGood, TidsNameOwnRows, UsersGood,
                    UsersOK, PassesNameLiveUsers, OwedOK, RowsGood, RowsOK, AccountsOK

\* An update of the users table by the site.
LEMMA SiteUsersStep ==
  ASSUME Good, site_op, AccountsOK', UNCHANGED <<dbTorrents, nextTid>> PROVE Good'
<1>1. siteOps' \in 0..MaxSiteOps BY BoundsAssumption DEF site_op, Good, ProcessOK
<1> QED BY <1>1 DEF site_op, Good, memory, owed, ProcessOK, TorrentsGood, TidsNameOwnRows, UsersGood,
                    UsersOK, PassesNameLiveUsers, OwedOK, RowsGood, RowsOK

\* An update of the torrents table by the site that keeps every row's info hash.
LEMMA SiteRowsStep ==
  ASSUME Good, site_op, RowsGood', UNCHANGED dbUsers,
         \A i \in DOMAIN dbTorrents : /\ i \in DOMAIN dbTorrents'
                                      /\ dbTorrents'[i].info_hash = dbTorrents[i].info_hash
  PROVE  Good'
<1>1. siteOps' \in 0..MaxSiteOps BY BoundsAssumption DEF site_op, Good, ProcessOK
<1>2. TorrentsGood' BY DEF site_op, memory, Good, TorrentsGood, TidsNameOwnRows
<1> QED BY <1>1, <1>2 DEF site_op, Good, memory, owed, ProcessOK, UsersGood,
                          UsersOK, PassesNameLiveUsers, OwedOK, AccountsOK

LEMMA SiteStep == ASSUME Good, Site PROVE Good'
<1>1. ASSUME NEW u \in Uid, site_remove_user(u) PROVE Good'
  <2>1. AccountsOK' BY <1>1 DEF site_remove_user, site_op, Good, AccountsOK, Without, Restrict, IsMap
  <2> QED BY <1>1, <2>1, SiteUsersStep DEF site_remove_user
<1>2. ASSUME NEW u \in Uid, NEW row \in UserRow, site_set_user(u, row) PROVE Good'
  <2> DEFINE bytes == IF u \in DOMAIN dbUsers THEN dbUsers[u].bytes ELSE NoBytes
             account == with_bytes(row, bytes)
  <2>1. bytes \in Bytes BY DEF Good, AccountsOK, IsMap, AccountRow, NoBytes, Bytes
  <2>2. row \in UserAttributes BY DataAssumption
  <2> HIDE DEF bytes
  <2>3. account \in AccountRow BY <2>1, <2>2 DEF with_bytes, UserAttributes, AccountRow
  <2>4. dbUsers' = Put(dbUsers, u, account) BY <1>2 DEF site_set_user, bytes
  <2> HIDE DEF account
  <2>5. AccountsOK' BY <1>2, <2>3, <2>4 DEF site_set_user, site_op, Good, AccountsOK, Put, IsMap
  <2> QED BY <1>2, <2>5, SiteUsersStep DEF site_set_user
<1>3. ASSUME NEW h \in Hash, site_insert_torrent(h) PROVE Good'
  <2> DEFINE row == site_row(h)
  <2>1. row \in TorrentRow
    BY BoundsAssumption DEF site_row, TorrentRow, Good, ProcessOK
  <2>2. /\ dbTorrents' = Put(dbTorrents, nextTid, row) /\ nextTid' = nextTid + 1
        /\ nextTid \in 1..MaxTid
    BY <1>3, BoundsAssumption DEF site_insert_torrent, Good, RowsGood, RowsOK
  <2> HIDE DEF row
  <2>3. IsMap(dbTorrents', Tid, TorrentRow)
    BY <2>1, <2>2 DEF Good, RowsGood, RowsOK, IsMap, Put, Tid
  <2>4. nextTid' \in 1..(MaxTid + 1) BY <2>2, BoundsAssumption
  <2>5. /\ DOMAIN dbTorrents' = DOMAIN dbTorrents \cup {nextTid}
        /\ \A i \in DOMAIN dbTorrents : i # nextTid /\ i \in Tid
    BY <2>2 DEF Put, Good, RowsGood, RowsOK, IsMap
  <2>6. \A i \in DOMAIN dbTorrents' : i < nextTid'
    BY <2>2, <2>5, BoundsAssumption DEF Good, RowsGood, Tid
  <2>7. RowsGood' BY <2>3, <2>4, <2>6 DEF RowsGood, RowsOK
  <2>8. \A i \in DOMAIN dbTorrents : /\ i \in DOMAIN dbTorrents'
                                     /\ dbTorrents'[i].info_hash = dbTorrents[i].info_hash
    BY <2>2, <2>5 DEF Put
  <2> QED BY <1>3, <2>7, <2>8, SiteRowsStep DEF site_insert_torrent
<1>4. ASSUME NEW i \in Tid, site_flag_torrent(i) PROVE Good'
  <2>1. /\ i \in DOMAIN dbTorrents /\ DOMAIN dbTorrents' = DOMAIN dbTorrents
        /\ dbTorrents' = [dbTorrents EXCEPT ![i].flagged = TRUE]
        /\ IsMap(dbTorrents, Tid, TorrentRow)
    BY <1>4 DEF site_flag_torrent, Good, RowsGood, RowsOK
  <2>2. \A j \in DOMAIN dbTorrents : /\ dbTorrents'[j] \in TorrentRow
                                     /\ dbTorrents'[j].info_hash = dbTorrents[j].info_hash
    BY <2>1 DEF IsMap, TorrentRow
  <2>3. dbTorrents' = [j \in DOMAIN dbTorrents' |-> dbTorrents'[j]] BY <2>1
  <2>4. IsMap(dbTorrents', Tid, TorrentRow) BY <2>1, <2>2, <2>3 DEF IsMap
  <2>5. RowsGood' BY <1>4, <2>1, <2>4 DEF site_flag_torrent, Good, RowsGood, RowsOK
  <2> QED BY <1>4, <2>1, <2>2, <2>5, SiteRowsStep DEF site_flag_torrent
<1> QED BY <1>1, <1>2, <1>3, <1>4 DEF Site

\* The tables the site has set up before the tracker first runs.
LEMMA InitGood == ASSUME Init PROVE Good
<1>1. ProcessOK
  <2>1. up \in BOOLEAN /\ missed \in BOOLEAN /\ config \in Config BY Zenon DEF Init
  <2>2. now \in 1..MaxTime /\ faults \in 0..MaxFaults /\ siteOps \in 0..MaxSiteOps
    <3>1. now = 1 /\ faults = 0 /\ siteOps = 0 BY DEF Init
    <3> QED BY <3>1, BoundsAssumption
  <2> QED BY <2>1, <2>2 DEF ProcessOK
<1>2. TorrentsGood BY DEF Init, TorrentsGood, TidsNameOwnRows, Empty
<1>3. UsersGood BY DEF Init, UsersGood, UsersOK, PassesNameLiveUsers, IsMap, Empty
<1>4. OwedOK BY BoundsAssumption DEF Init, OwedOK, IsMap, Empty
<1>5. RowsGood
  <2>1. PICK listed \in SUBSET Hash : \E row \in [1..Cardinality(listed) -> listed] :
          /\ Cardinality(listed) <= MaxTid
          /\ dbTorrents = [i \in 1..Cardinality(listed) |->
                             [info_hash |-> row[i], leechers |-> 0, seeders |-> 0,
                              completed |-> 0, ctime |-> 1, flagged |-> FALSE]]
          /\ nextTid = Cardinality(listed) + 1
    BY DEF Init
  <2> DEFINE n == Cardinality(listed)
  <2>2. PICK row \in [1..n -> listed] :
          /\ n <= MaxTid /\ nextTid = n + 1
          /\ dbTorrents = [i \in 1..n |->
                             [info_hash |-> row[i], leechers |-> 0, seeders |-> 0,
                              completed |-> 0, ctime |-> 1, flagged |-> FALSE]]
    BY <2>1
  <2>3. n \in Nat BY DataAssumption, FS_Subset, FS_CardinalityType
  <2> HIDE DEF n
  <2>4. /\ DOMAIN dbTorrents = 1..n
        /\ \A i \in 1..n : dbTorrents[i] \in TorrentRow
    BY <2>2 DEF TorrentRow
  <2>5. dbTorrents = [i \in DOMAIN dbTorrents |-> dbTorrents[i]] BY <2>2
  <2>6. IsMap(dbTorrents, Tid, TorrentRow)
    BY <2>2, <2>3, <2>4, <2>5, BoundsAssumption DEF IsMap, Tid
  <2>7. nextTid \in 1..(MaxTid + 1) /\ \A i \in DOMAIN dbTorrents : i < nextTid
    BY <2>2, <2>3, <2>4, BoundsAssumption
  <2> QED BY <2>6, <2>7 DEF RowsGood, RowsOK
<1>6. AccountsOK
  <2>1. PICK row \in [Uid -> UserRow] : dbUsers = [u \in Uid |-> with_bytes(row[u], NoBytes)]
    BY DEF Init
  <2>2. \A r \in UserRow : with_bytes(r, NoBytes) \in AccountRow
    BY DataAssumption DEF with_bytes, UserAttributes, AccountRow, NoBytes, Bytes
  <2>3. IsMap(dbUsers, Uid, AccountRow) BY <2>1, <2>2 DEF IsMap
  <2> QED BY <2>3 DEF Init, AccountsOK, IsMap, Empty
<1> QED BY <1>1, <1>2, <1>3, <1>4, <1>5, <1>6 DEF Good

\* Every step keeps the invariant.
LEMMA NextKeepsGood == Good /\ [Next]_vars => Good'
<1> SUFFICES ASSUME Good, [Next]_vars PROVE Good' OBVIOUS
<1>1. CASE Announce
  <2>1. PICK in \in Input, uid \in DOMAIN users \cup {0} : srv_insert_peer(in, uid)
    BY <1>1, AnnounceBy
  <2> QED BY <2>1, AnnounceStep
<1>2. CASE Housekeeping
  BY <1>2, CleanUpStep, ReadConfigStep, ReadTorrentsStep, ReadUsersStep, WriteTorrentsStep,
     WriteUsersStep DEF Housekeeping
<1>3. CASE start BY <1>3, StartStep
<1>4. CASE stop BY <1>4, StopStep
<1>5. CASE crash BY <1>5, CrashStep
<1>6. CASE tick BY <1>6, TickStep
<1>7. CASE Site BY <1>7, SiteStep
<1>8. CASE UNCHANGED vars
  BY <1>8 DEF vars, memory, owed, db, Good, ProcessOK, TorrentsGood, TidsNameOwnRows, UsersGood,
              UsersOK, PassesNameLiveUsers, OwedOK, RowsGood, RowsOK, AccountsOK
<1> QED BY <1>1, <1>2, <1>3, <1>4, <1>5, <1>6, <1>7, <1>8 DEF Next

LEMMA AlwaysGood == Spec => []Good
<1>1. Init => Good BY InitGood
<1> QED BY <1>1, NextKeepsGood, PTL DEF Spec

-----------------------------------------------------------------------------
(* The theorems.                                                           *)

\* Every variable of the tracker has its type, whatever the constants.
THEOREM TypeCorrect == Spec => []TypeOK
BY AlwaysGood, GoodGives, PTL

\* The seeders and leechers a torrent shows are the peers it has in that role, for any number
\* of torrents, peers and announces (srv_insert_peer, clean_up, restarts).
THEOREM CountersCorrect == Spec => []CountersMatchPeers
BY AlwaysGood, GoodGives, PTL

\* No torrent_pass ever names a user that read_db_users dropped.
THEOREM PassesCorrect == Spec => []PassesNameLiveUsers
BY AlwaysGood, GoodGives, PTL

\* A torrent writes its counts to the row of its own info hash and to no other, through
\* failing queries, deletions by the site, crashes and restarts.
THEOREM TidsCorrect == Spec => []TidsNameOwnRows
BY AlwaysGood, GoodGives, PTL

-----------------------------------------------------------------------------
(* The counts in the table.  Rows of one info hash would let an erased     *)
(* torrent come back with the counts of its other row, and a row that      *)
(* shows peers of a torrent that is not in memory would be loaded as it is.*)

RowsApart ==
  \A i, j \in DOMAIN dbTorrents : dbTorrents[i].info_hash = dbTorrents[j].info_hash => i = j
\* A row without peers.
unused(row) == row.leechers = 0 /\ row.seeders = 0
UntrackedUnused ==
  up /\ ~missed =>
    \A i \in DOMAIN dbTorrents :
      dbTorrents[i].info_hash \notin DOMAIN torrents => unused(dbTorrents[i])
CleanShown == ~missed => \A h \in DOMAIN torrents : ~torrents[h].dirty => shown(dbTorrents, torrents[h])
Stored == RowsApart /\ UntrackedUnused /\ CleanShown

LEMMA CleanIsCurrent == CleanShown <=> StoredCountsCurrent
BY DEF CleanShown, StoredCountsCurrent, shown

\* Steps that leave the table alone and what they change in memory dirty.
Unsaid(s, t) ==
  s.dirty \/ /\ s.dirty = t.dirty /\ s.tid = t.tid /\ s.leechers = t.leechers
             /\ s.seeders = t.seeders /\ s.completed = t.completed
LEMMA MarkedStored ==
  ASSUME Stored, UNCHANGED dbTorrents, up' = up, missed' = missed,
         DOMAIN torrents \subseteq DOMAIN torrents',
         \A h \in DOMAIN torrents' :
           \/ torrents'[h].dirty
           \/ h \in DOMAIN torrents /\ Unsaid(torrents'[h], torrents[h])
  PROVE  Stored'
<1>1. RowsApart' BY DEF Stored, RowsApart
<1>2. UntrackedUnused' BY DEF Stored, UntrackedUnused
<1>3. CleanShown' BY DEF Stored, CleanShown, shown, Unsaid
<1> QED BY <1>1, <1>2, <1>3 DEF Stored

LEMMA UntouchedStored ==
  ASSUME Stored, UNCHANGED <<dbTorrents, torrents, up, missed>>
  PROVE  Stored'
BY DEF Stored, RowsApart, UntrackedUnused, CleanShown, shown

LEMMA AnnounceStored ==
  ASSUME Good, Stored, NEW in \in Input, NEW uid \in DOMAIN users \cup {0}, srv_insert_peer(in, uid)
  PROVE  Stored'
<1> DEFINE t == found_torrent(in.info_hash)
           e == enter(t, in, uid, now)
<1>1. UNCHANGED <<dbTorrents, up, missed>> BY DEF srv_insert_peer
<1>3. \/ torrents' = Put(torrents, in.info_hash, t)
      \/ torrents' = Put(torrents, in.info_hash, e)
  BY DEF srv_insert_peer
<1>4. e.dirty = TRUE BY DEF enter
<1>5. t.dirty = TRUE \/ (in.info_hash \in DOMAIN torrents /\ t = torrents[in.info_hash])
  BY DEF found_torrent, new_torrent
<1> HIDE DEF t, e
<1>6. PICK new \in {t, e} : torrents' = Put(torrents, in.info_hash, new) BY <1>3
<1>7. DOMAIN torrents' = DOMAIN torrents \cup {in.info_hash}
      /\ \A h \in DOMAIN torrents' : torrents'[h] = IF h = in.info_hash THEN new ELSE torrents[h]
  BY <1>6 DEF Put
<1>8. ASSUME NEW h \in DOMAIN torrents'
      PROVE  \/ torrents'[h].dirty
             \/ h \in DOMAIN torrents /\ Unsaid(torrents'[h], torrents[h])
  <2>1. CASE h = in.info_hash /\ new = e BY <1>4, <1>7, <2>1
  <2>2. CASE h = in.info_hash /\ new = t
    <3>1. torrents'[h] = t BY <1>7, <2>2
    <3> QED BY <1>5, <2>2, <3>1 DEF Unsaid
  <2>3. CASE h # in.info_hash BY <1>7, <2>3 DEF Unsaid
  <2> QED BY <1>6, <2>1, <2>2, <2>3
<1> QED BY <1>1, <1>7, <1>8, MarkedStored

LEMMA CleanUpStored == ASSUME Good, Stored, clean_up PROVE Stored'
<1>1. UNCHANGED <<dbTorrents, up, missed>> BY DEF clean_up, db
<1>2. DOMAIN torrents' = DOMAIN torrents
      /\ \A h \in DOMAIN torrents : torrents'[h] = expire(torrents[h], now - PeerTimeout)
  BY DEF clean_up
<1>3. ASSUME NEW t, GoodTorrent(t), NEW limit PROVE Unsaid(expire(t, limit), t)
  <2> DEFINE gone == stale(t, limit)
             a == Cardinality(gone \cap Role(t, TRUE))
             b == Cardinality(gone \cap Role(t, FALSE))
             e == expire(t, limit)
  <2>1. e.leechers = t.leechers - a /\ e.seeders = t.seeders - b
        /\ e.tid = t.tid /\ e.completed = t.completed
    BY DEF expire
  <2>4. (gone # {} => e.dirty) /\ (gone = {} => e.dirty = t.dirty)
    <3>1. e.dirty = (t.dirty \/ gone # {}) /\ t.dirty \in BOOLEAN
      BY <1>3 DEF expire, GoodTorrent, IsTorrent
    <3> HIDE DEF gone, e
    <3>2. CASE gone # {} BY <3>1, <3>2
    <3>3. CASE gone = {} BY <3>1, <3>3
    <3> QED BY <3>2, <3>3
  <2>2. t.leechers \in Int /\ t.seeders \in Int /\ t.dirty \in BOOLEAN
    BY <1>3 DEF GoodTorrent, IsTorrent
  <2>3. gone = {} => a = 0 /\ b = 0
    <3> HIDE DEF gone
    <3>1. gone = {} => gone \cap Role(t, TRUE) = {} /\ gone \cap Role(t, FALSE) = {} OBVIOUS
    <3> QED BY <3>1, FS_EmptySet
  <2> HIDE DEF gone, a, b, e
  <2>5. gone = {} => e.leechers = t.leechers /\ e.seeders = t.seeders BY <2>1, <2>2, <2>3
  <2>6. Unsaid(e, t) BY <2>1, <2>4, <2>5 DEF Unsaid
  <2> QED BY <2>6 DEF e
<1>4. \A h \in DOMAIN torrents' : Unsaid(torrents'[h], torrents[h])
  BY <1>2, <1>3 DEF Good, TorrentsGood
<1> QED BY <1>1, <1>2, <1>4, MarkedStored

\* Rows that are read become torrents whose counts they show, if none of them shows peers.
LEMMA LoadedShown ==
  ASSUME NEW rows, NEW known, NEW from, NEW h \in DOMAIN loaded(rows, known, from),
         \A i \in DOMAIN rows : rows[i].info_hash \notin known => unused(rows[i])
  PROVE  shown(rows, loaded(rows, known, from)[h]) /\ h \notin known
<1> DEFINE new == unseen(rows, known, from)
           i == CHOOSE i \in new : rows[i].info_hash = h
           t == loaded_torrent(rows[i], i)
<1>1. i \in new /\ rows[i].info_hash = h /\ loaded(rows, known, from)[h] = t
  BY DEF loaded
<1> HIDE DEF i
<1>2. i \in DOMAIN rows /\ h \notin known BY <1>1 DEF unseen
<1>3. unused(rows[i]) BY <1>1, <1>2
<1>4. t.tid = i /\ t.leechers = 0 /\ t.seeders = 0 /\ t.completed = rows[i].completed
  BY DEF loaded_torrent
<1> QED BY <1>1, <1>2, <1>3, <1>4 DEF shown, unused

LEMMA SelectStored ==
  ASSUME NEW kept, NEW rows, NEW from,
         torrents' = Union(kept, loaded(rows, DOMAIN kept, from)), dbTorrents' = rows,
         \A i, j \in DOMAIN rows : rows[i].info_hash = rows[j].info_hash => i = j,
         \A i \in DOMAIN rows : rows[i].info_hash \notin DOMAIN kept => unused(rows[i]),
         \A h \in DOMAIN kept : ~kept[h].dirty => shown(rows, kept[h])
  PROVE  Stored'
<1> DEFINE new == loaded(rows, DOMAIN kept, from)
<1>1. /\ DOMAIN torrents' = DOMAIN kept \cup DOMAIN new
      /\ \A h \in DOMAIN torrents' :
           torrents'[h] = IF h \in DOMAIN kept THEN kept[h] ELSE new[h]
  BY DEF Union
<1>2. \A h \in DOMAIN new : shown(rows, new[h]) BY LoadedShown
<1> HIDE DEF new
<1>3. RowsApart' BY DEF RowsApart
<1>4. UntrackedUnused' BY <1>1 DEF UntrackedUnused
<1>5. CleanShown' BY <1>1, <1>2 DEF CleanShown
<1> QED BY <1>3, <1>4, <1>5 DEF Stored

\* After a failure only that the rows are of different torrents matters.
LEMMA FailedStored ==
  ASSUME Stored, NEW S, dbTorrents' = Without(dbTorrents, S), missed'
  PROVE  Stored'
<1>1. DOMAIN dbTorrents' \subseteq DOMAIN dbTorrents
      /\ \A i \in DOMAIN dbTorrents' : dbTorrents'[i] = dbTorrents[i]
  BY DEF Without, Restrict
<1> QED BY <1>1 DEF Stored, RowsApart, UntrackedUnused, CleanShown

LEMMA ReadTorrentsStored == ASSUME Good, Stored, read_db_torrents PROVE Stored'
<1>1. up /\ up' = up BY DEF read_db_torrents
<1>2. CASE /\ torrents = Empty
           /\ select_torrents(torrents, dbTorrents, tid_end) /\ UNCHANGED <<dbTorrents, faults, missed>>
  <2>1. torrents' = Union(torrents, loaded(dbTorrents, DOMAIN torrents, tid_end))
        /\ dbTorrents' = dbTorrents /\ missed' = missed
    BY <1>2 DEF select_torrents
  <2>2. CASE ~missed
    <3>1. /\ \A i, j \in DOMAIN dbTorrents : dbTorrents[i].info_hash = dbTorrents[j].info_hash => i = j
          /\ \A i \in DOMAIN dbTorrents :
               dbTorrents[i].info_hash \notin DOMAIN torrents => unused(dbTorrents[i])
          /\ \A h \in DOMAIN torrents : ~torrents[h].dirty => shown(dbTorrents, torrents[h])
      BY <1>1, <2>2 DEF Stored, RowsApart, UntrackedUnused, CleanShown
    <3> QED BY <2>1, <3>1, SelectStored
  <2>3. CASE missed BY <2>1, <2>3 DEF Stored, RowsApart, UntrackedUnused, CleanShown
  <2> QED BY <2>2, <2>3
<1>3. CASE /\ select_torrents(keeping(flagged), Without(dbTorrents, flagged), tid_end)
           /\ dbTorrents' = Without(dbTorrents, flagged) /\ UNCHANGED <<faults, missed>>
  <2> DEFINE kept == keeping(flagged)
             rows == Without(dbTorrents, flagged)
  <2>1. torrents' = Union(kept, loaded(rows, DOMAIN kept, tid_end)) /\ dbTorrents' = rows
    BY <1>3 DEF select_torrents
  <2>2. CASE missed BY <1>3, <2>2, FailedStored
  <2>3. CASE ~missed
    <3>1. /\ DOMAIN kept = DOMAIN torrents \ hashes_of(flagged)
          /\ \A h \in DOMAIN kept : kept[h] = torrents[h]
          /\ DOMAIN rows = DOMAIN dbTorrents \ flagged
          /\ \A i \in DOMAIN rows : rows[i] = dbTorrents[i]
      BY DEF keeping, Without, Restrict
    <3>2. \A i \in flagged : dbTorrents[i].info_hash \in hashes_of(flagged) /\ i \in DOMAIN dbTorrents
      BY DEF hashes_of, flagged
    <3>3. \A i \in DOMAIN rows : rows[i].info_hash \notin hashes_of(flagged)
      BY <3>1 DEF hashes_of, flagged, Stored, RowsApart
    <3> HIDE DEF kept, rows
    <3>4. \A i, j \in DOMAIN rows : rows[i].info_hash = rows[j].info_hash => i = j
      BY <3>1 DEF Stored, RowsApart
    <3>5. \A i \in DOMAIN rows : rows[i].info_hash \notin DOMAIN kept => unused(rows[i])
      BY <1>1, <2>3, <3>1, <3>3 DEF Stored, UntrackedUnused
    <3>6. ASSUME NEW h \in DOMAIN kept, ~kept[h].dirty PROVE shown(rows, kept[h])
      <4>1. h \in DOMAIN torrents /\ h \notin hashes_of(flagged) /\ kept[h] = torrents[h] BY <3>1
      <4>2. shown(dbTorrents, torrents[h]) BY <2>3, <3>6, <4>1 DEF Stored, CleanShown
      <4> DEFINE i == torrents[h].tid
      <4>3. i \in DOMAIN dbTorrents BY <4>2 DEF shown
      <4>4. i # 0 BY <4>3 DEF Good, RowsGood, RowsOK, IsMap, Tid
      <4>5. dbTorrents[i].info_hash = h
        BY <4>1, <4>4 DEF Good, TorrentsGood, TidsNameOwnRows
      <4>6. i \notin flagged BY <3>2, <4>1, <4>5
      <4>7. i \in DOMAIN rows /\ rows[i] = dbTorrents[i] BY <3>1, <4>3, <4>6
      <4> QED BY <4>1, <4>2, <4>7 DEF shown
    <3> QED BY <2>1, <3>4, <3>5, <3>6, SelectStored
  <2> QED BY <2>2, <2>3
<1>4. ASSUME missed' = TRUE, NEW S, dbTorrents' = Without(dbTorrents, S) PROVE Stored'
  BY <1>4, FailedStored
<1> QED BY <1>2, <1>3, <1>4 DEF read_db_torrents

\* What write_db_torrents makes of the counts: the torrents it sent show theirs, the rows of
\* all others are as they were, and no info hash gets a second row.
LEMMA StoredCounts ==
  ASSUME Good, RowsApart, NEW done \in SUBSET dirty_torrents, NEW lost,
         NEW ids \in new_tids(fresh(done)), store_torrents(done, lost, ids)
  PROVE  /\ RowsApart'
         /\ \A h \in done \ lost :
              LET row == dbTorrents'[tid_of(h, ids)]
              IN /\ row.leechers = torrents[h].leechers /\ row.seeders = torrents[h].seeders
                 /\ row.completed = torrents[h].completed
         /\ \A i \in DOMAIN dbTorrents' :
              (\A h \in done : tid_of(h, ids) # i) => i \in DOMAIN dbTorrents /\ dbTorrents'[i] = dbTorrents[i]
<1> DEFINE new == fresh(done)
           rows == inserted(done, ids)
<1>1. /\ \A i \in DOMAIN dbTorrents : /\ i \in DOMAIN dbTorrents'
                                       /\ dbTorrents'[i].info_hash = dbTorrents[i].info_hash
      /\ \A h \in done : /\ tid_of(h, ids) \in DOMAIN dbTorrents'
                          /\ dbTorrents'[tid_of(h, ids)].info_hash = h
  BY StoredRows
<1>2. /\ dbTorrents' = stored(rows, done \ lost, ids)
      /\ hashes_of(DOMAIN dbTorrents) \cap new = {}
  BY DEF store_torrents
<1>3. /\ DOMAIN rows = DOMAIN dbTorrents \cup {ids[h] : h \in new}
      /\ \A i \in DOMAIN dbTorrents : rows[i] = dbTorrents[i]
  BY DEF inserted, Union
<1>4. /\ new \subseteq done /\ \A h \in new : tid_of(h, ids) = ids[h]
      /\ \A h \in done \ new : tid_of(h, ids) \in DOMAIN dbTorrents
  <2>1. new \subseteq done /\ \A h \in new : tid_of(h, ids) = ids[h] BY DEF fresh, tid_of
  <2>2. ASSUME NEW h \in done \ new PROVE tid_of(h, ids) \in DOMAIN dbTorrents
    <3>1. torrents[h].tid # 0 /\ h \in DOMAIN torrents BY DEF fresh, dirty_torrents
    <3> QED BY <3>1 DEF tid_of, Good, TorrentsGood, TidsNameOwnRows
  <2> QED BY <2>1, <2>2
<1>5. DOMAIN dbTorrents' = DOMAIN rows
  <2>1. DOMAIN dbTorrents' = DOMAIN rows \cup {tid_of(h, ids) : h \in done \ lost}
    BY <1>2 DEF stored
  <2> HIDE DEF rows, new
  <2>2. \A h \in done : tid_of(h, ids) \in DOMAIN rows BY <1>3, <1>4
  <2> QED BY <2>1, <2>2
<1>6. \A i \in DOMAIN dbTorrents' :
        dbTorrents'[i] = IF \E h \in done \ lost : tid_of(h, ids) = i
                         THEN LET t == torrents[CHOOSE h \in done \ lost : tid_of(h, ids) = i]
                                  row == rows[i]
                              IN with_counts(row, t.leechers, t.seeders, t.completed)
                         ELSE rows[i]
  BY <1>2, <1>5 DEF stored
<1> HIDE DEF new, rows
<1>7. ASSUME NEW g \in done, NEW h \in done, tid_of(g, ids) = tid_of(h, ids) PROVE g = h
  BY <1>1, <1>7
<1>8. ASSUME NEW h \in done \ lost
      PROVE  LET row == dbTorrents'[tid_of(h, ids)]
             IN /\ row.leechers = torrents[h].leechers /\ row.seeders = torrents[h].seeders
                /\ row.completed = torrents[h].completed
  <2> DEFINE i == tid_of(h, ids)
             g == CHOOSE g \in done \ lost : tid_of(g, ids) = i
             t == torrents[g]
  <2>1. i \in DOMAIN dbTorrents' BY <1>1
  <2>2. g \in done \ lost /\ tid_of(g, ids) = i OBVIOUS
  <2>3. g = h BY <1>7, <2>2
  <2>4. dbTorrents'[i] = with_counts(rows[i], t.leechers, t.seeders, t.completed) BY <1>6, <2>1
  <2>5. t = torrents[h] BY <2>3
  <2> HIDE DEF t, g, i
  <2>6. dbTorrents'[i].leechers = t.leechers /\ dbTorrents'[i].seeders = t.seeders
        /\ dbTorrents'[i].completed = t.completed
    BY <2>4 DEF with_counts
  <2> QED BY <2>5, <2>6 DEF i
<1>9. ASSUME NEW i \in DOMAIN dbTorrents', \A h \in done : tid_of(h, ids) # i
      PROVE  i \in DOMAIN dbTorrents /\ dbTorrents'[i] = dbTorrents[i]
  <2>1. i \in DOMAIN dbTorrents BY <1>3, <1>4, <1>5, <1>9
  <2>2. dbTorrents'[i] = rows[i] BY <1>6, <1>9
  <2> QED BY <1>3, <2>1, <2>2
<1>10. RowsApart'
  <2> SUFFICES ASSUME NEW i \in DOMAIN dbTorrents', NEW j \in DOMAIN dbTorrents',
                      dbTorrents'[i].info_hash = dbTorrents'[j].info_hash
               PROVE  i = j
    BY DEF RowsApart
  <2>1. ASSUME NEW k \in DOMAIN dbTorrents, NEW h \in new
        PROVE  dbTorrents'[k].info_hash # dbTorrents'[ids[h]].info_hash
    <3>1. dbTorrents'[ids[h]].info_hash = h /\ dbTorrents'[k].info_hash = dbTorrents[k].info_hash
      BY <1>1, <1>4
    <3>2. dbTorrents[k].info_hash \in hashes_of(DOMAIN dbTorrents) BY DEF hashes_of
    <3> QED BY <1>2, <3>1, <3>2
  <2>2. CASE i \in DOMAIN dbTorrents /\ j \in DOMAIN dbTorrents BY <1>1, <2>2 DEF RowsApart
  <2>3. ASSUME NEW g \in new, NEW h \in new, i = ids[g], j = ids[h] PROVE i = j
    BY <1>1, <1>4, <2>3
  <2> QED BY <1>3, <1>5, <2>1, <2>2, <2>3
<1> QED BY <1>8, <1>9, <1>10

LEMMA WriteTorrentsStored == ASSUME Good, Stored, write_db_torrents PROVE Stored'
<1>0. PICK done \in SUBSET dirty_torrents :
        \E lost \in SUBSET done, ids \in new_tids(fresh(done)) :
          /\ store_torrents(done, lost, ids)
          /\ torrents' = [h \in DOMAIN torrents |->
                            IF h \in done THEN cleaned(torrents[h], tid_of(h, ids)) ELSE torrents[h]]
  BY DEF write_db_torrents
<1>1. PICK lost \in SUBSET done, ids \in new_tids(fresh(done)) :
        /\ store_torrents(done, lost, ids)
        /\ torrents' = [h \in DOMAIN torrents |->
                          IF h \in done THEN cleaned(torrents[h], tid_of(h, ids)) ELSE torrents[h]]
  BY <1>0
<1>2. /\ RowsApart'
      /\ \A h \in done \ lost :
           LET row == dbTorrents'[tid_of(h, ids)]
           IN /\ row.leechers = torrents[h].leechers /\ row.seeders = torrents[h].seeders
              /\ row.completed = torrents[h].completed
      /\ \A i \in DOMAIN dbTorrents' :
           (\A h \in done : tid_of(h, ids) # i) => i \in DOMAIN dbTorrents /\ dbTorrents'[i] = dbTorrents[i]
  BY <1>1, StoredCounts DEF Stored
<1>3. /\ \A i \in DOMAIN dbTorrents : i \in DOMAIN dbTorrents'
      /\ \A h \in done : /\ tid_of(h, ids) \in DOMAIN dbTorrents'
                          /\ dbTorrents'[tid_of(h, ids)].info_hash = h
  BY <1>1, StoredRows
<1>4. /\ DOMAIN torrents' = DOMAIN torrents /\ done \subseteq DOMAIN torrents
      /\ \A h \in DOMAIN torrents :
           torrents'[h] = IF h \in done THEN cleaned(torrents[h], tid_of(h, ids)) ELSE torrents[h]
  BY <1>1 DEF dirty_torrents
<1>5. up' = up BY DEF write_db_torrents
<1>6. ASSUME ~missed' PROVE ~missed /\ lost = {}
  <2>1. missed' = (missed \/ lost # {}) \/ missed' = TRUE BY <1>1 DEF store_torrents
  <2> QED BY <1>6, <2>1
<1>7. UntrackedUnused'
  <2> SUFFICES ASSUME up, ~missed', NEW i \in DOMAIN dbTorrents',
                      dbTorrents'[i].info_hash \notin DOMAIN torrents
               PROVE  unused(dbTorrents'[i])
    BY <1>4, <1>5 DEF UntrackedUnused
  <2>1. \A h \in done : tid_of(h, ids) # i BY <1>3, <1>4
  <2>2. i \in DOMAIN dbTorrents /\ dbTorrents'[i] = dbTorrents[i] BY <1>2, <2>1
  <2> QED BY <1>6, <2>2 DEF Stored, UntrackedUnused
<1>8. CleanShown'
  <2> SUFFICES ASSUME ~missed', NEW h \in DOMAIN torrents, ~torrents'[h].dirty
               PROVE  shown(dbTorrents', torrents'[h])
    BY <1>4 DEF CleanShown
  <2>1. CASE h \in done
    <3> DEFINE i == tid_of(h, ids)
               t == torrents[h]
               c == torrents'[h]
    <3>1. h \in done \ lost BY <1>6, <2>1
    <3>2. IsTorrent(t) BY DEF Good, TorrentsGood, GoodTorrent
    <3>3. c = cleaned(t, i) BY <1>4, <2>1
    <3>4. i \in DOMAIN dbTorrents' BY <1>3, <2>1
    <3>5. /\ dbTorrents'[i].leechers = t.leechers /\ dbTorrents'[i].seeders = t.seeders
          /\ dbTorrents'[i].completed = t.completed
      BY <1>2, <3>1
    <3> HIDE DEF i, t, c
    <3>6. /\ c.tid = i /\ c.leechers = t.leechers /\ c.seeders = t.seeders
          /\ c.completed = t.completed
      BY <3>2, <3>3 DEF cleaned, IsTorrent
    <3>7. shown(dbTorrents', c) BY <3>4, <3>5, <3>6 DEF shown
    <3> QED BY <3>7 DEF c
  <2>2. CASE h \notin done
    <3> DEFINE i == torrents[h].tid
    <3>1. torrents'[h] = torrents[h] BY <1>4, <2>2
    <3>2. shown(dbTorrents, torrents[h]) BY <1>6, <3>1 DEF Stored, CleanShown
    <3>3. i \in DOMAIN dbTorrents BY <3>2 DEF shown
    <3>4. i # 0 BY <3>3 DEF Good, RowsGood, RowsOK, IsMap, Tid
    <3>5. dbTorrents[i].info_hash = h BY <3>4 DEF Good, TorrentsGood, TidsNameOwnRows
    <3>6. dbTorrents'[i].info_hash = h BY <1>1, <3>3, <3>5, StoredRows
    <3>7. \A g \in done : tid_of(g, ids) # i BY <1>3, <2>2, <3>6
    <3>8. i \in DOMAIN dbTorrents' /\ dbTorrents'[i] = dbTorrents[i] BY <1>2, <1>3, <3>3, <3>7
    <3> QED BY <3>1, <3>2, <3>8 DEF shown
  <2> QED BY <2>1, <2>2
<1> QED BY <1>2, <1>7, <1>8 DEF Stored

LEMMA ForgottenStored ==
  ASSUME RowsApart', torrents' = Empty, up' = FALSE
  PROVE  Stored'
BY DEF Stored, UntrackedUnused, CleanShown, Empty

LEMMA StartStored == ASSUME Good, Stored, start PROVE Stored'
<1>1. PICK torrentsRead \in BOOLEAN, usersRead \in BOOLEAN :
        /\ \E gone \in SUBSET flagged : dbTorrents' = zeroed(Without(dbTorrents, gone))
        /\ torrents' = IF torrentsRead THEN loaded(dbTorrents', {}, 0) ELSE Empty
  BY DEF start
<1>2. PICK gone : dbTorrents' = zeroed(Without(dbTorrents, gone)) BY <1>1
<1> DEFINE rows == Without(dbTorrents, gone)
<1>3. DOMAIN rows \subseteq DOMAIN dbTorrents /\ \A i \in DOMAIN rows : rows[i] = dbTorrents[i]
  BY DEF Without, Restrict
<1>4. DOMAIN dbTorrents' = DOMAIN rows
      /\ \A i \in DOMAIN rows : dbTorrents'[i] = with_counts(rows[i], 0, 0, rows[i].completed)
  BY <1>2 DEF zeroed
<1> HIDE DEF rows
<1>5. \A i \in DOMAIN dbTorrents' : /\ unused(dbTorrents'[i])
                                    /\ dbTorrents'[i].info_hash = dbTorrents[i].info_hash
  BY <1>3, <1>4 DEF with_counts, unused
<1>6. RowsApart' BY <1>3, <1>4, <1>5 DEF Stored, RowsApart
<1>7. UntrackedUnused' BY <1>5 DEF UntrackedUnused
<1>8. CASE torrentsRead
  <2>1. torrents' = loaded(dbTorrents', {}, 0) BY <1>1, <1>8
  <2>2. \A h \in DOMAIN torrents' : shown(dbTorrents', torrents'[h]) BY <1>5, <2>1, LoadedShown
  <2>3. CleanShown' BY <2>2 DEF CleanShown
  <2> QED BY <1>6, <1>7, <2>3 DEF Stored
<1>9. CASE ~torrentsRead
  <2>1. torrents' = Empty BY <1>1, <1>9
  <2> QED BY <1>6, <1>7, <2>1 DEF Stored, CleanShown, Empty
<1> QED BY <1>8, <1>9

LEMMA SiteStored == ASSUME Good, Stored, Site PROVE Stored'
<1>1. UNCHANGED <<up, torrents, missed>>
  BY DEF Site, site_remove_user, site_set_user, site_insert_torrent, site_flag_torrent, site_op, memory
<1>2. CASE UNCHANGED dbTorrents BY <1>1, <1>2, UntouchedStored
<1>3. ASSUME NEW h \in Hash, site_insert_torrent(h) PROVE Stored'
  <2> DEFINE row == site_row(h)
  <2>1. dbTorrents' = Put(dbTorrents, nextTid, row) /\ h \notin hashes_of(DOMAIN dbTorrents)
    BY <1>3 DEF site_insert_torrent
  <2>2. row.info_hash = h /\ unused(row) BY DEF site_row, unused
  <2>3. nextTid \notin DOMAIN dbTorrents
    <3>1. nextTid \in Nat /\ \A i \in DOMAIN dbTorrents : i < nextTid BY DEF Good, RowsGood, RowsOK
    <3> QED BY <3>1
  <2> HIDE DEF row
  <2>4. DOMAIN dbTorrents' = DOMAIN dbTorrents \cup {nextTid}
        /\ dbTorrents'[nextTid] = row /\ \A i \in DOMAIN dbTorrents : dbTorrents'[i] = dbTorrents[i]
    BY <2>1, <2>3 DEF Put
  <2>5. \A i \in DOMAIN dbTorrents : dbTorrents[i].info_hash # h BY <2>1 DEF hashes_of
  <2>6. RowsApart' BY <2>2, <2>4, <2>5 DEF Stored, RowsApart
  <2>7. UntrackedUnused' BY <1>1, <2>2, <2>4 DEF Stored, UntrackedUnused
  <2>8. CleanShown' BY <1>1, <2>4 DEF Stored, CleanShown, shown
  <2> QED BY <2>6, <2>7, <2>8 DEF Stored
<1>4. ASSUME NEW i \in Tid, site_flag_torrent(i) PROVE Stored'
  <2>1. /\ i \in DOMAIN dbTorrents /\ DOMAIN dbTorrents' = DOMAIN dbTorrents
        /\ dbTorrents' = [dbTorrents EXCEPT ![i].flagged = TRUE]
        /\ IsMap(dbTorrents, Tid, TorrentRow)
    BY <1>4 DEF site_flag_torrent, Good, RowsGood, RowsOK
  <2>2. \A j \in DOMAIN dbTorrents :
          /\ dbTorrents'[j].info_hash = dbTorrents[j].info_hash
          /\ dbTorrents'[j].leechers = dbTorrents[j].leechers
          /\ dbTorrents'[j].seeders = dbTorrents[j].seeders
          /\ dbTorrents'[j].completed = dbTorrents[j].completed
    BY <2>1 DEF IsMap, TorrentRow
  <2>3. RowsApart' BY <2>1, <2>2 DEF Stored, RowsApart
  <2>4. UntrackedUnused' BY <1>1, <2>1, <2>2 DEF Stored, UntrackedUnused, unused
  <2>5. CleanShown' BY <1>1, <2>1, <2>2 DEF Stored, CleanShown, shown
  <2> QED BY <2>3, <2>4, <2>5 DEF Stored
<1> QED BY <1>2, <1>3, <1>4 DEF Site, site_remove_user, site_set_user

LEMMA InitStored == ASSUME Init PROVE Stored
<1>1. torrents = Empty /\ up = FALSE BY Zenon DEF Init
<1>2. RowsApart
  <2>1. PICK listed \in SUBSET Hash : \E row \in [1..Cardinality(listed) -> listed] :
          /\ \A h \in listed : \E i \in 1..Cardinality(listed) : row[i] = h
          /\ dbTorrents = [i \in 1..Cardinality(listed) |->
                             [info_hash |-> row[i], leechers |-> 0, seeders |-> 0,
                              completed |-> 0, ctime |-> 1, flagged |-> FALSE]]
    BY DEF Init
  <2> DEFINE n == Cardinality(listed)
  <2>2. PICK row \in [1..n -> listed] :
          /\ \A h \in listed : \E i \in 1..n : row[i] = h
          /\ dbTorrents = [i \in 1..n |->
                             [info_hash |-> row[i], leechers |-> 0, seeders |-> 0,
                              completed |-> 0, ctime |-> 1, flagged |-> FALSE]]
    BY <2>1
  <2>3. n \in Nat BY DataAssumption, FS_Subset, FS_CardinalityType
  <2>4. row \in Surjection(1..n, listed)
    <3> HIDE DEF n
    <3> QED BY <2>2 DEF Surjection
  <2>5. IsFiniteSet(1..n) /\ Cardinality(1..n) = n
    <3> HIDE DEF n
    <3> QED BY <2>3, FS_Interval
  <2>6. row \in Injection(1..n, listed)
    <3>1. Cardinality(1..n) = Cardinality(listed) BY <2>5
    <3> HIDE DEF n
    <3> QED BY <2>4, <2>5, <3>1, FS_SurjSameCardinalityImpliesInj
  <2>7. \A i, j \in 1..n : row[i] = row[j] => i = j BY <2>6 DEF Injection, IsInjective
  <2>8. DOMAIN dbTorrents = 1..n /\ \A i \in 1..n : dbTorrents[i].info_hash = row[i] BY <2>2
  <2> HIDE DEF n
  <2> QED BY <2>7, <2>8 DEF RowsApart
<1> QED BY <1>1, <1>2 DEF Stored, UntrackedUnused, CleanShown, Empty

LEMMA NextStored == Good /\ Stored /\ [Next]_vars => Stored'
<1> SUFFICES ASSUME Good, Stored, [Next]_vars PROVE Stored' OBVIOUS
<1>1. CASE Announce
  <2>1. PICK in \in Input, uid \in DOMAIN users \cup {0} : srv_insert_peer(in, uid)
    BY <1>1, AnnounceBy
  <2> QED BY <2>1, AnnounceStored
<1>2. CASE write_db_users BY <1>2, UntouchedStored DEF write_db_users, memory
<1>3. CASE read_config \/ read_db_users \/ tick \/ UNCHANGED vars
  BY <1>3, UntouchedStored DEF read_config, read_db_users, tick, vars, memory, db
<1>4. CASE Housekeeping
  BY <1>2, <1>3, <1>4, CleanUpStored, ReadTorrentsStored, WriteTorrentsStored DEF Housekeeping
<1>5. CASE start BY <1>5, StartStored
<1>6. CASE stop
  <2>1. RowsApart' BY <1>6, StoredCounts DEF stop, Stored
  <2> QED BY <1>6, <2>1, ForgottenStored DEF stop, forget
<1>7. CASE crash
  <2>1. RowsApart' BY <1>7 DEF crash, db, Stored, RowsApart
  <2> QED BY <1>7, <2>1, ForgottenStored DEF crash, forget
<1>8. CASE Site BY <1>8, SiteStored
<1> QED BY <1>1, <1>3, <1>4, <1>5, <1>6, <1>7, <1>8 DEF Next

\* As long as none of its queries about torrents failed since the process started, a torrent
\* that is not dirty shows its counts in the table (write_db_torrents, clean_up,
\* srv_insert_peer, read_db_torrents): a start zeroes what stops and crashes leave there.
THEOREM StoredCorrect == Spec => []StoredCountsCurrent
<1>1. Stored => StoredCountsCurrent BY CleanIsCurrent DEF Stored
<1>2. Init => Stored BY InitStored
<1> QED BY <1>1, <1>2, NextStored, AlwaysGood, PTL DEF Spec

-----------------------------------------------------------------------------
(* Users stay within their limits when they join.                          *)

\* Where no torrent has a peer it had not, nobody joins.
LEMMA NobodyJoins ==
  ASSUME \A h \in DOMAIN torrents' :
           \/ DOMAIN torrents'[h].peers = {}
           \/ h \in DOMAIN torrents /\ DOMAIN torrents'[h].peers \subseteq DOMAIN torrents[h].peers
  PROVE  JoinsWithin
BY DEF JoinsWithin, leeching, Role

LEMMA AnnounceJoins ==
  ASSUME Good, NEW in \in Input, NEW uid \in DOMAIN users \cup {0}, srv_insert_peer(in, uid)
  PROVE  JoinsWithin
<1> DEFINE g == in.info_hash
           p == in.peer_id
           t == found_torrent(g)
           e == enter(t, in, uid, now)
<1>1. g \in Hash /\ p \in PeerId BY DEF Input
<1>2. GoodTorrent(t) BY <1>1, FoundTorrentGood
<1>3. DOMAIN t.peers = IF g \in DOMAIN torrents THEN DOMAIN torrents[g].peers ELSE {}
  BY DEF found_torrent, new_torrent, Empty
<1>4. \/ torrents' = Put(torrents, g, t)
      \/ torrents' = Put(torrents, g, e) /\ ~over_limit(t, in, uid)
  BY DEF srv_insert_peer
<1> HIDE DEF t
<1>5. CASE torrents' = Put(torrents, g, t)
  <2>1. \A h \in DOMAIN torrents' : IF h = g THEN torrents'[h] = t
                                   ELSE h \in DOMAIN torrents /\ torrents'[h] = torrents[h]
    BY <1>5 DEF Put
  <2> QED BY <1>3, <2>1, NobodyJoins
<1>6. CASE torrents' = Put(torrents, g, e) /\ ~over_limit(t, in, uid)
  <2>1. \A h \in DOMAIN torrents' : IF h = g THEN torrents'[h] = e
                                   ELSE h \in DOMAIN torrents /\ torrents'[h] = torrents[h]
    BY <1>6 DEF Put
  <2>2. CASE in.event = "stopped"
    <3>1. DOMAIN e.peers \subseteq DOMAIN t.peers BY <2>2 DEF enter, Restrict
    <3> QED BY <1>3, <2>1, <3>1, NobodyJoins
  <2>3. CASE in.event # "stopped"
    <3> DEFINE peer == [left |-> in.left, uid |-> uid, downloaded |-> in.downloaded,
                        uploaded |-> in.uploaded, mtime |-> now]
    <3>1. e.peers = Put(t.peers, p, peer) BY <2>3 DEF enter
    <3>2. /\ DOMAIN e.peers = DOMAIN t.peers \cup {p}
          /\ \A q \in DOMAIN e.peers : e.peers[q] = IF q = p THEN peer ELSE t.peers[q]
      BY <3>1 DEF Put
    <3> HIDE DEF e
    <3>3. ASSUME NEW u \in DOMAIN users, leeching(e, u) \ DOMAIN t.peers # {}, users[u].peers_limit # 0
          PROVE  Cardinality(leeching(e, u)) <= users[u].peers_limit
      <4>1. p \notin DOMAIN t.peers /\ p \in leeching(e, u) BY <3>2, <3>3 DEF leeching, Role
      <4>2. peer.left = TRUE /\ peer.uid = u BY <3>2, <4>1 DEF leeching, Role
      <4>3. in.left /\ uid = u BY <4>2
      <4>4. u # 0 /\ users[u].peers_limit \in Nat
        BY DataAssumption DEF Good, UsersGood, UsersOK, IsMap, User
      <4>5. ~(Cardinality(leeching(t, u)) >= users[u].peers_limit)
        BY <1>6, <3>3, <4>1, <4>3, <4>4 DEF over_limit
      <4>6. leeching(e, u) = leeching(t, u) \cup {p} /\ p \notin leeching(t, u)
        BY <3>2, <4>1 DEF leeching, Role
      <4>7. IsFiniteSet(leeching(t, u))
        <5>1. leeching(t, u) \in SUBSET Role(t, TRUE) BY DEF leeching
        <5>2. IsFiniteSet(Role(t, TRUE)) BY <1>2, RoleFinite DEF GoodTorrent
        <5> QED BY <5>1, <5>2, FS_Subset
      <4>8. Cardinality(leeching(e, u)) = Cardinality(leeching(t, u)) + 1
        BY <4>6, <4>7, FS_AddElement
      <4>9. Cardinality(leeching(t, u)) \in Nat BY <4>7, FS_CardinalityType
      <4> QED BY <4>4, <4>5, <4>8, <4>9
    <3>4. ASSUME NEW h \in DOMAIN torrents', NEW u \in DOMAIN users,
                 leeching(torrents'[h], u) \ (IF h \in DOMAIN torrents THEN DOMAIN torrents[h].peers ELSE {}) # {},
                 users[u].peers_limit # 0
          PROVE  Cardinality(leeching(torrents'[h], u)) <= users[u].peers_limit
      <4>1. CASE h = g BY <1>3, <2>1, <3>3, <3>4, <4>1
      <4>2. CASE h # g BY <2>1, <3>4, <4>2 DEF leeching, Role
      <4> QED BY <4>1, <4>2
    <3> QED BY <3>4 DEF JoinsWithin
  <2> QED BY <2>2, <2>3
<1> QED BY <1>4, <1>5, <1>6

\* What is loaded from the table has no peers.
LEMMA LoadedPeerless ==
  ASSUME NEW rows, NEW known, NEW from, NEW h \in DOMAIN loaded(rows, known, from)
  PROVE  DOMAIN loaded(rows, known, from)[h].peers = {}
BY DEF loaded, loaded_torrent, Empty

\* Every peer there is was there before, and the same.
PeersOnlyGo ==
  \A h \in DOMAIN torrents' :
    \/ DOMAIN torrents'[h].peers = {}
    \/ /\ h \in DOMAIN torrents
       /\ \A p \in DOMAIN torrents'[h].peers :
            p \in DOMAIN torrents[h].peers /\ torrents'[h].peers[p] = torrents[h].peers[p]

LEMMA ReadTorrentsPeers == ASSUME read_db_torrents PROVE PeersOnlyGo
<1>1. ASSUME NEW kept, NEW rows, NEW from, torrents' = Union(kept, loaded(rows, DOMAIN kept, from)),
             \A h \in DOMAIN kept : h \in DOMAIN torrents /\ kept[h] = torrents[h]
      PROVE  PeersOnlyGo
  <2> DEFINE new == loaded(rows, DOMAIN kept, from)
  <2>1. \A h \in DOMAIN new : DOMAIN new[h].peers = {} BY LoadedPeerless
  <2> HIDE DEF new
  <2>2. \A h \in DOMAIN torrents' : IF h \in DOMAIN kept THEN torrents'[h] = kept[h]
                                   ELSE h \in DOMAIN new /\ torrents'[h] = new[h]
    BY <1>1 DEF Union, new
  <2> QED BY <1>1, <2>1, <2>2 DEF PeersOnlyGo
<1>2. \A S : \A h \in DOMAIN keeping(S) : h \in DOMAIN torrents /\ keeping(S)[h] = torrents[h]
  BY DEF keeping, Without, Restrict
<1>3. CASE select_torrents(torrents, dbTorrents, tid_end) BY <1>1, <1>3 DEF select_torrents
<1>4. CASE select_torrents(keeping(flagged), Without(dbTorrents, flagged), tid_end)
  <2> DEFINE kept == keeping(flagged)
  <2>1. \A h \in DOMAIN kept : h \in DOMAIN torrents /\ kept[h] = torrents[h] BY <1>2
  <2>2. torrents' = Union(kept, loaded(Without(dbTorrents, flagged), DOMAIN kept, tid_end))
    BY <1>4 DEF select_torrents
  <2> HIDE DEF kept
  <2> QED BY <1>1, <2>1, <2>2
<1>5. ASSUME NEW S, torrents' = keeping(S) PROVE PeersOnlyGo BY <1>2, <1>5 DEF PeersOnlyGo
<1> QED BY <1>3, <1>4, <1>5 DEF read_db_torrents

\* Only announces make peers and change them.
LEMMA QuietPeers ==
  ASSUME Good, Housekeeping \/ start \/ stop \/ crash \/ tick \/ Site
  PROVE  PeersOnlyGo
<1>1. CASE clean_up
  <2>1. \A h \in DOMAIN torrents' : h \in DOMAIN torrents /\ torrents'[h] = expire(torrents[h], now - PeerTimeout)
    BY <1>1 DEF clean_up
  <2>2. ASSUME NEW t, NEW limit, NEW p \in DOMAIN expire(t, limit).peers
        PROVE  p \in DOMAIN t.peers /\ expire(t, limit).peers[p] = t.peers[p]
    BY <2>2 DEF expire, Restrict
  <2> QED BY <2>1, <2>2 DEF PeersOnlyGo
<1>2. CASE write_db_torrents
  <2>1. PICK done, lost, ids :
          torrents' = [h \in DOMAIN torrents |->
                         IF h \in done THEN cleaned(torrents[h], tid_of(h, ids)) ELSE torrents[h]]
    BY <1>2 DEF write_db_torrents
  <2>2. \A h \in DOMAIN torrents : \A i : cleaned(torrents[h], i).peers = torrents[h].peers
    BY DEF cleaned, Good, TorrentsGood, GoodTorrent, IsTorrent
  <2>3. \A h \in DOMAIN torrents' : h \in DOMAIN torrents /\ torrents'[h].peers = torrents[h].peers
    BY <2>1, <2>2
  <2> QED BY <2>3 DEF PeersOnlyGo
<1>3. CASE UNCHANGED torrents BY <1>3 DEF PeersOnlyGo
<1>4. CASE read_db_torrents BY <1>4, ReadTorrentsPeers
<1>5. CASE Housekeeping
  BY <1>1, <1>2, <1>3, <1>4, <1>5
     DEF Housekeeping, read_config, read_db_users, write_db_users, memory
<1>6. CASE start
  <2>1. torrents' = Empty \/ torrents' = loaded(dbTorrents', {}, 0) BY <1>6 DEF start
  <2>2. CASE torrents' = Empty BY <2>2 DEF Empty, PeersOnlyGo
  <2>3. CASE torrents' = loaded(dbTorrents', {}, 0) BY <2>3, LoadedPeerless DEF PeersOnlyGo
  <2> QED BY <2>1, <2>2, <2>3
<1>7. CASE stop \/ crash BY <1>7 DEF stop, crash, forget, Empty, PeersOnlyGo
<1>8. CASE tick \/ Site
  BY <1>3, <1>8 DEF tick, memory, Site, site_op, site_set_user, site_remove_user,
                    site_insert_torrent, site_flag_torrent
<1> QED BY <1>5, <1>6, <1>7, <1>8

LEMMA NextJoins == Good /\ [Next]_vars => [JoinsWithin]_vars
<1> SUFFICES ASSUME Good, Next PROVE JoinsWithin OBVIOUS
<1>1. CASE Announce
  <2>1. PICK in \in Input, uid \in DOMAIN users \cup {0} : srv_insert_peer(in, uid)
    BY <1>1, AnnounceBy
  <2> QED BY <2>1, AnnounceJoins
<1>2. CASE ~Announce
  <2>1. PeersOnlyGo BY <1>2, QuietPeers DEF Next
  <2> QED BY <2>1, NobodyJoins DEF PeersOnlyGo
<1> QED BY <1>1, <1>2

\* A peer that joins as a leecher never brings its user above peers_limit (srv_insert_peer), for
\* any users, limits, torrents and peers, whatever the other peers have become.
THEOREM LimitKeptOnJoin == Spec => LimitOnJoin
<1>1. Spec => [][JoinsWithin]_vars BY AlwaysGood, NextJoins, PTL DEF Spec
<1> QED BY <1>1 DEF LimitOnJoin

-----------------------------------------------------------------------------
(* What a line of reports may still be credited with.                      *)

\* A user and its counters, as a client, an announce or a peer shows them.
Counted == [uid: Uid \cup {0}, downloaded: Nat, uploaded: Nat]
Nobody == [uid |-> 0, downloaded |-> 0, uploaded |-> 0]
Side == {"downloaded", "uploaded"}
part(x, side) == IF side = "downloaded" THEN x.downloaded ELSE x.uploaded

\* What user u gets at most when a report y follows the report x; where nobody knows
\* what became of x, all of y may be new.
went_on(x, y) == y.downloaded >= x.downloaded /\ y.uploaded >= x.uploaded
gain(x, y, u, side) ==
  IF y.uid # u THEN 0
  ELSE IF x.uid = u /\ went_on(x, y) THEN part(y, side) - part(x, side) ELSE part(y, side)
\* The tracker credits nothing for the first report it gets of a user.
first_gain(x, y, u, side) == IF x.uid = u THEN gain(x, y, u, side) ELSE 0

\* Whatever of the n reports xs gets through to a tracker that knows the report l, b covers it:
\* w[i] covers those after the i-th.
Enough(l, xs, n, u, side, b) ==
  \E w \in [1..n -> Nat] :
    /\ \A i \in 1..n : i # n => w[i] >= w[i + 1] + gain(xs[i], xs[i + 1], u, side)
    /\ b >= w[1] + first_gain(l, xs[1], u, side)

LEMMA GainNat ==
  ASSUME NEW x \in Counted, NEW y \in Counted, NEW u \in Uid, NEW side \in Side
  PROVE  gain(x, y, u, side) \in Nat /\ first_gain(x, y, u, side) \in Nat
<1>1. gain(x, y, u, side) \in Nat BY DEF gain, went_on, part, Counted
<1> QED BY <1>1 DEF first_gain

\* A report that is lost in between gains nothing.
LEMMA GainAdds ==
  ASSUME NEW x \in Counted, NEW y \in Counted, NEW z \in Counted, NEW u \in Uid, NEW side \in Side
  PROVE  /\ gain(x, z, u, side) <= gain(x, y, u, side) + gain(y, z, u, side)
         /\ first_gain(x, z, u, side) <= first_gain(x, y, u, side) + gain(y, z, u, side)
<1>1. gain(x, z, u, side) <= gain(x, y, u, side) + gain(y, z, u, side)
  BY DEF gain, went_on, part, Counted
<1> QED BY <1>1, GainNat DEF first_gain

\* The first report is gone, and d of the bytes are spent.
LEMMA ShiftEnough ==
  ASSUME NEW n \in Nat, n >= 2, NEW xs \in [1..n -> Counted], NEW ys \in [1..(n - 1) -> Counted],
         \A i \in 1..(n - 1) : ys[i] = xs[i + 1],
         NEW u \in Uid, NEW side \in Side, NEW l \in Counted, NEW k \in Counted, NEW d \in Nat,
         first_gain(k, xs[2], u, side) + d
           <= first_gain(l, xs[1], u, side) + gain(xs[1], xs[2], u, side),
         NEW b \in Nat, Enough(l, xs, n, u, side, b)
  PROVE  b - d \in Nat /\ Enough(k, ys, n - 1, u, side, b - d)
<1>1. PICK w \in [1..n -> Nat] :
        /\ \A i \in 1..n : i # n => w[i] >= w[i + 1] + gain(xs[i], xs[i + 1], u, side)
        /\ b >= w[1] + first_gain(l, xs[1], u, side)
  BY DEF Enough
<1> DEFINE v == [i \in 1..(n - 1) |-> w[i + 1]]
<1>2. v \in [1..(n - 1) -> Nat] BY <1>1
<1>3. ASSUME NEW i \in 1..(n - 1), i # n - 1 PROVE v[i] >= v[i + 1] + gain(ys[i], ys[i + 1], u, side)
  <2>1. i + 1 \in 1..n /\ i + 1 # n /\ i + 1 \in 1..(n - 1) BY <1>3
  <2>2. w[i + 1] >= w[i + 2] + gain(xs[i + 1], xs[i + 2], u, side) BY <1>1, <2>1
  <2>3. ys[i] = xs[i + 1] /\ ys[i + 1] = xs[i + 2] BY <2>1
  <2>4. v[i] = w[i + 1] /\ v[i + 1] = w[i + 2] BY <2>1
  <2> QED BY <2>2, <2>3, <2>4
<1>4. xs[1] \in Counted /\ xs[2] \in Counted /\ 1 \in 1..(n - 1) /\ ys[1] = xs[2] /\ v[1] = w[2] /\ w[2] \in Nat
      /\ w[1] \in Nat
  BY <1>1
<1>5. w[1] >= w[2] + gain(xs[1], xs[2], u, side)
  <2>1. 1 \in 1..n /\ 1 # n BY <1>4
  <2> QED BY <1>1, <2>1
<1> HIDE DEF v
<1> DEFINE fk == first_gain(k, xs[2], u, side)
           fl == first_gain(l, xs[1], u, side)
           g == gain(xs[1], xs[2], u, side)
<1>6. fk \in Nat /\ fl \in Nat /\ g \in Nat BY <1>4, GainNat
<1>7. fk + d <= fl + g /\ b >= w[1] + fl /\ w[1] >= w[2] + g BY <1>1, <1>5
<1> HIDE DEF fk, fl, g
<1>8. b - d \in Nat /\ b - d >= w[2] + fk BY <1>4, <1>6, <1>7
<1> QED BY <1>2, <1>3, <1>4, <1>8 DEF Enough, fk

\* A report more, which gains nothing over the one before it.
LEMMA ExtendEnough ==
  ASSUME NEW n \in Nat \ {0}, NEW xs \in [1..n -> Counted], NEW ys \in [1..(n + 1) -> Counted],
         \A i \in 1..n : ys[i] = xs[i],
         NEW u \in Uid, NEW side \in Side, NEW l \in Counted,
         gain(ys[n], ys[n + 1], u, side) = 0,
         NEW b \in Nat, Enough(l, xs, n, u, side, b)
  PROVE  Enough(l, ys, n + 1, u, side, b)
<1>1. PICK w \in [1..n -> Nat] :
        /\ \A i \in 1..n : i # n => w[i] >= w[i + 1] + gain(xs[i], xs[i + 1], u, side)
        /\ b >= w[1] + first_gain(l, xs[1], u, side)
  BY DEF Enough
<1> DEFINE v == [i \in 1..(n + 1) |-> IF i = n + 1 THEN 0 ELSE w[i]]
<1>2. v \in [1..(n + 1) -> Nat] BY <1>1
<1>3. ASSUME NEW i \in 1..(n + 1), i # n + 1 PROVE v[i] >= v[i + 1] + gain(ys[i], ys[i + 1], u, side)
  <2>1. i \in 1..n /\ v[i] = w[i] /\ w[i] \in Nat BY <1>1, <1>3
  <2>2. CASE i = n
    <3>1. v[i + 1] = 0 BY <2>2
    <3> QED BY <2>1, <2>2, <3>1
  <2>3. CASE i # n
    <3>1. i + 1 \in 1..n /\ v[i + 1] = w[i + 1] BY <2>1, <2>3
    <3> QED BY <1>1, <2>1, <2>3, <3>1
  <2> QED BY <2>2, <2>3
<1>4. 1 \in 1..n /\ v[1] = w[1] /\ ys[1] = xs[1] BY <1>1
<1> HIDE DEF v
<1> QED BY <1>1, <1>2, <1>3, <1>4 DEF Enough

\* The last report is another one, which gains at most m more.
LEMMA ReplaceEnough ==
  ASSUME NEW n \in Nat \ {0}, NEW xs \in [1..n -> Counted], NEW ys \in [1..n -> Counted],
         \A i \in 1..n : i # n => ys[i] = xs[i],
         NEW u \in Uid, NEW side \in Side, NEW l \in Counted, NEW m \in Nat,
         \A x \in Counted : gain(x, ys[n], u, side) <= gain(x, xs[n], u, side) + m,
         NEW b \in Nat, Enough(l, xs, n, u, side, b)
  PROVE  Enough(l, ys, n, u, side, b + m)
<1>1. PICK w \in [1..n -> Nat] :
        /\ \A i \in 1..n : i # n => w[i] >= w[i + 1] + gain(xs[i], xs[i + 1], u, side)
        /\ b >= w[1] + first_gain(l, xs[1], u, side)
  BY DEF Enough
<1> DEFINE v == [i \in 1..n |-> IF i = n THEN w[n] ELSE w[i] + m]
<1>2. v \in [1..n -> Nat] BY <1>1
<1>3. ASSUME NEW i \in 1..n, i # n PROVE v[i] >= v[i + 1] + gain(ys[i], ys[i + 1], u, side)
  <2>1. /\ i + 1 \in 1..n /\ v[i] = w[i] + m /\ w[i] \in Nat /\ w[i + 1] \in Nat /\ ys[i] = xs[i]
        /\ xs[i] \in Counted /\ xs[i + 1] \in Counted /\ ys[i + 1] \in Counted
    BY <1>1, <1>3
  <2>2. w[i] >= w[i + 1] + gain(xs[i], xs[i + 1], u, side) BY <1>1, <1>3
  <2>3. gain(xs[i], xs[i + 1], u, side) \in Nat /\ gain(xs[i], ys[i + 1], u, side) \in Nat BY <2>1, GainNat
  <2>4. CASE i + 1 = n
    <3>1. v[i + 1] = w[i + 1] BY <2>1, <2>4
    <3>2. gain(xs[i], ys[i + 1], u, side) <= gain(xs[i], xs[i + 1], u, side) + m BY <2>1, <2>4
    <3> QED BY <2>1, <2>2, <2>3, <3>1, <3>2
  <2>5. CASE i + 1 # n
    <3>1. v[i + 1] = w[i + 1] + m /\ ys[i + 1] = xs[i + 1] BY <2>1, <2>5
    <3> QED BY <2>1, <2>2, <2>3, <3>1
  <2> QED BY <2>4, <2>5
<1>4. 1 \in 1..n /\ w[1] \in Nat /\ xs[1] \in Counted /\ ys[1] \in Counted BY <1>1
<1>5. first_gain(l, xs[1], u, side) \in Nat /\ first_gain(l, ys[1], u, side) \in Nat BY <1>4, GainNat
<1>6. b + m >= v[1] + first_gain(l, ys[1], u, side)
  <2>1. CASE n = 1
    <3>1. v[1] = w[1] BY <2>1
    <3>2. first_gain(l, ys[1], u, side) <= first_gain(l, xs[1], u, side) + m BY <2>1 DEF first_gain
    <3> QED BY <1>1, <1>4, <1>5, <3>1, <3>2
  <2>2. CASE n # 1
    <3>1. v[1] = w[1] + m /\ ys[1] = xs[1] BY <1>4, <2>2
    <3> QED BY <1>1, <1>4, <1>5, <3>1
  <2> QED BY <2>1, <2>2
<1> HIDE DEF v
<1> QED BY <1>2, <1>3, <1>6 DEF Enough

\* The tracker knows less.
LEMMA ForgetEnough ==
  ASSUME NEW xs, NEW n \in Nat, n >= 1, xs[1] \in Counted, NEW u \in Uid, NEW side \in Side, NEW l \in Counted,
         NEW k, k = l \/ k.uid # u, NEW b \in Nat, Enough(l, xs, n, u, side, b)
  PROVE  Enough(k, xs, n, u, side, b)
<1>1. first_gain(l, xs[1], u, side) \in Nat BY GainNat
<1>2. k = l \/ first_gain(k, xs[1], u, side) = 0 BY DEF first_gain
<1>3. ASSUME NEW w \in [1..n -> Nat], b >= w[1] + first_gain(l, xs[1], u, side)
      PROVE  b >= w[1] + first_gain(k, xs[1], u, side)
  <2>1. w[1] \in Nat OBVIOUS
  <2> QED BY <1>1, <1>2, <1>3, <2>1
<1> QED BY <1>3 DEF Enough

-----------------------------------------------------------------------------
(* The bytes set aside for all torrents of all clients.                    *)

Tokens(b) == {t \in Cbt_file \X Nat : t[2] < b[t[1]]}

LEMMA NoTokens ==
  ASSUME NEW b, \A f \in Cbt_file : b[f] = 0
  PROVE  IsFiniteSet(Tokens(b)) /\ Cardinality(Tokens(b)) = 0
<1>1. Tokens(b) = {} BY DEF Tokens
<1> QED BY <1>1, FS_EmptySet

Shares(b) == b \in [Cbt_file -> Nat] /\ IsFiniteSet(Tokens(b))
\* c are the shares b, where that of f became n.
Changed(b, f, n, c) ==
  Shares(c) /\ Cardinality(Tokens(c)) = Cardinality(Tokens(b)) - b[f] + n

\* Where one share changes, the sum changes by as much.
LEMMA TokensChange ==
  ASSUME NEW b, Shares(b), NEW f \in Cbt_file, NEW n \in Nat
  PROVE  Changed(b, f, n, [b EXCEPT ![f] = n])
<1> DEFINE c == [b EXCEPT ![f] = n]
<1>0. b \in [Cbt_file -> Nat] /\ IsFiniteSet(Tokens(b)) BY DEF Shares
<1> SUFFICES Changed(b, f, n, c) OBVIOUS
<1> DEFINE rest == {t \in Tokens(b) : t[1] # f}
           row(k) == {f} \X (0..(k - 1))
<1>1. c \in [Cbt_file -> Nat] BY <1>0
<1>2. IsFiniteSet(rest) BY <1>0, FS_Subset
<1>3. ASSUME NEW k \in Nat PROVE IsFiniteSet(row(k)) /\ Cardinality(row(k)) = k
  <2>1. IsFiniteSet({f}) /\ Cardinality({f}) = 1 BY FS_Singleton
  <2>2. IsFiniteSet(0..(k - 1)) /\ Cardinality(0..(k - 1)) = k
    <3>1. k - 1 \in Int /\ 0 \in Int OBVIOUS
    <3>2. /\ IsFiniteSet(0..(k - 1))
          /\ Cardinality(0..(k - 1)) = IF 0 > k - 1 THEN 0 ELSE (k - 1) - 0 + 1
      BY <3>1, FS_Interval
    <3> QED BY <3>2
  <2>3. /\ IsFiniteSet({f} \X (0..(k - 1)))
        /\ Cardinality({f} \X (0..(k - 1))) = Cardinality({f}) * Cardinality(0..(k - 1))
    <3> HIDE DEF row
    <3> QED BY <2>1, <2>2, FS_Product
  <2>4. Cardinality(row(k)) = 1 * k BY <2>1, <2>2, <2>3
  <2> QED BY <2>3, <2>4
<1>4. \A k \in Nat : rest \cap row(k) = {} OBVIOUS
<1>5. Tokens(b) = rest \cup row(b[f])
  <2>1. b[f] \in Nat BY <1>0
  <2>2. \A t \in Cbt_file \X Nat : t[1] = f => (t \in Tokens(b) <=> t \in row(b[f]))
    BY <2>1 DEF Tokens
  <2>3. Tokens(b) \subseteq Cbt_file \X Nat /\ row(b[f]) \subseteq Cbt_file \X Nat BY <2>1 DEF Tokens
  <2>4. \A t \in row(b[f]) : t[1] = f OBVIOUS
  <2> HIDE DEF row
  <2> QED BY <2>2, <2>3, <2>4
<1>6. Tokens(c) = rest \cup row(n)
  <2>1. c[f] = n /\ \A g \in Cbt_file : g # f => c[g] = b[g] BY <1>0
  <2> HIDE DEF c
  <2>2. \A t \in Cbt_file \X Nat : t[1] = f => (t \in Tokens(c) <=> t \in row(n))
    BY <2>1 DEF Tokens
  <2>3. Tokens(c) \subseteq Cbt_file \X Nat /\ row(n) \subseteq Cbt_file \X Nat BY DEF Tokens
  <2>4. \A t \in row(n) : t[1] = f OBVIOUS
  <2>5. \A t \in Cbt_file \X Nat : t[1] # f => (t \in Tokens(c) <=> t \in rest)
    BY <2>1 DEF Tokens
  <2>6. rest \subseteq Cbt_file \X Nat BY DEF Tokens
  <2> HIDE DEF row, rest
  <2>7. \A t \in rest : t[1] # f BY DEF rest
  <2> QED BY <2>2, <2>3, <2>4, <2>5, <2>6, <2>7
<1> HIDE DEF rest, row, c
<1>7. ASSUME NEW k \in Nat
      PROVE  IsFiniteSet(rest \cup row(k)) /\ Cardinality(rest \cup row(k)) = Cardinality(rest) + k
  <2>1. Cardinality(rest) \in Nat BY <1>2, FS_CardinalityType
  <2>2. /\ IsFiniteSet(rest \cup row(k))
        /\ Cardinality(rest \cup row(k)) = Cardinality(rest) + Cardinality(row(k)) - Cardinality(rest \cap row(k))
    BY <1>2, <1>3, FS_Union
  <2>3. Cardinality(rest \cap row(k)) = 0 BY <1>4, FS_EmptySet
  <2> QED BY <1>3, <2>1, <2>2, <2>3
<1>8. Cardinality(rest) \in Nat /\ b[f] \in Nat BY <1>0, <1>2, FS_CardinalityType
<1>9. Cardinality(Tokens(b)) = Cardinality(rest) + b[f] BY <1>5, <1>7, <1>8
<1>10. IsFiniteSet(Tokens(c)) /\ Cardinality(Tokens(c)) = Cardinality(rest) + n BY <1>6, <1>7
<1>11. Cardinality(Tokens(c)) = Cardinality(Tokens(b)) - b[f] + n BY <1>8, <1>9, <1>10
<1> QED BY <1>1, <1>10, <1>11 DEF Changed, Shares

-----------------------------------------------------------------------------
(* A user's rows, added up.                                                *)

LEMMA BytesAdd ==
  /\ NoBytes \in Bytes
  /\ \A a, b \in Bytes : Plus(a, b) \in Bytes
  /\ \A a \in Bytes : Plus(a, NoBytes) = a /\ Plus(NoBytes, a) = a
  /\ \A a, b, c \in Bytes : Plus(a, Plus(b, c)) = Plus(Plus(a, b), c)
  /\ \A a, b, c, d \in Bytes : Plus(Plus(a, b), Plus(c, d)) = Plus(Plus(a, c), Plus(b, d))
<1>1. NoBytes \in Bytes BY DEF NoBytes, Bytes
<1>2. \A a, b \in Bytes : Plus(a, b) \in Bytes BY DEF Plus, Bytes
<1>3. \A a \in Bytes : Plus(a, NoBytes) = a /\ Plus(NoBytes, a) = a BY DEF Plus, Bytes, NoBytes
<1>4. \A a, b, c, d \in Bytes : Plus(Plus(a, b), Plus(c, d)) = Plus(Plus(a, c), Plus(b, d))
  BY DEF Plus, Bytes
<1>5. \A a, b, c \in Bytes : Plus(a, Plus(b, c)) = Plus(Plus(a, b), c) BY DEF Plus, Bytes
<1> QED BY <1>1, <1>2, <1>3, <1>4, <1>5

LEMMA GetTyped ==
  ASSUME NEW S, NEW f, IsMap(f, S, Bytes), NEW k
  PROVE  Get(f, k) \in Bytes
BY BytesAdd DEF IsMap, Get

row_sums(s, rows, u, n) ==
  s = [i \in 0..n |-> IF i = 0 THEN NoBytes ELSE Plus(s[i - 1], Get(rows, <<i, u>>))]

LEMMA RowSums ==
  ASSUME NEW rows, NEW u
  PROVE  \E s : row_sums(s, rows, u, MaxTid) /\ rows_of(rows, u) = s[MaxTid]
<1> DEFINE S == {n \in Nat : \E s : row_sums(s, rows, u, n)}
<1>1. 0 \in S
  <2> DEFINE s == [i \in 0..0 |-> NoBytes]
  <2>1. row_sums(s, rows, u, 0) BY DEF row_sums
  <2> QED BY <2>1
<1>2. ASSUME NEW n \in Nat, n \in S PROVE n + 1 \in S
  <2>1. PICK s : row_sums(s, rows, u, n) BY <1>2
  <2> DEFINE next(a, i) == Plus(a, Get(rows, <<i, u>>))
  <2>2. \A i \in 0..n : s[i] = IF i = 0 THEN NoBytes ELSE next(s[i - 1], i) BY <2>1 DEF row_sums
  <2> HIDE DEF next
  <2> DEFINE t == [i \in 0..(n + 1) |-> IF i = n + 1 THEN next(s[n], n + 1) ELSE s[i]]
  <2>3. ASSUME NEW i \in 0..(n + 1) PROVE t[i] = IF i = 0 THEN NoBytes ELSE next(t[i - 1], i)
    <3>1. CASE i = 0 BY <2>2, <3>1
    <3>2. CASE i # 0 /\ i # n + 1
      <4>1. i \in 0..n /\ i - 1 \in 0..n BY <3>2
      <4>2. t[i] = s[i] /\ t[i - 1] = s[i - 1] BY <4>1
      <4> QED BY <2>2, <3>2, <4>1, <4>2
    <3>3. CASE i = n + 1
      <4>1. t[i] = next(s[n], i) /\ t[i - 1] = s[n] BY <3>3
      <4> QED BY <3>3, <4>1
    <3> QED BY <3>1, <3>2, <3>3
  <2>4. t = [i \in 0..(n + 1) |-> t[i]] OBVIOUS
  <2> HIDE DEF t
  <2>5. t = [i \in 0..(n + 1) |-> IF i = 0 THEN NoBytes ELSE next(t[i - 1], i)] BY <2>3, <2>4
  <2>6. row_sums(t, rows, u, n + 1) BY <2>5 DEF row_sums, next
  <2> QED BY <2>6
<1>3. \E s : row_sums(s, rows, u, MaxTid)
  <2>1. Nat \subseteq S BY <1>1, <1>2, Induct
  <2> QED BY <2>1, BoundsAssumption
<1> DEFINE s == CHOOSE sum : sum = [i \in 0..MaxTid |->
                  IF i = 0 THEN NoBytes ELSE Plus(sum[i - 1], Get(rows, <<i, u>>))]
<1>4. row_sums(s, rows, u, MaxTid) BY <1>3 DEF row_sums
<1>5. rows_of(rows, u) = s[MaxTid] BY DEF rows_of
<1> QED BY <1>4, <1>5

LEMMA SumsAre ==
  ASSUME NEW rows, IsMap(rows, Tid \X Uid, Bytes), NEW u
  PROVE  \E s : /\ s[0] = NoBytes /\ rows_of(rows, u) = s[MaxTid]
                /\ \A i \in Tid : s[i] = Plus(s[i - 1], Get(rows, <<i, u>>))
                /\ \A i \in 0..MaxTid : s[i] \in Bytes
<1>1. PICK s : row_sums(s, rows, u, MaxTid) /\ rows_of(rows, u) = s[MaxTid] BY RowSums
<1>2. s[0] = NoBytes /\ \A i \in Tid : s[i] = Plus(s[i - 1], Get(rows, <<i, u>>))
  <2>1. \A i \in 0..MaxTid : s[i] = IF i = 0 THEN NoBytes ELSE Plus(s[i - 1], Get(rows, <<i, u>>))
    BY <1>1 DEF row_sums
  <2>2. 0 \in 0..MaxTid /\ \A i \in Tid : i \in 0..MaxTid /\ i # 0 BY BoundsAssumption DEF Tid
  <2> QED BY <2>1, <2>2
<1> DEFINE S == {n \in Nat : n <= MaxTid => s[n] \in Bytes}
<1>3. 0 \in S BY <1>2, BytesAdd
<1>4. ASSUME NEW n \in Nat, n \in S PROVE n + 1 \in S
  <2>1. CASE n + 1 <= MaxTid
    <3>1. n + 1 \in Tid /\ n <= MaxTid /\ (n + 1) - 1 = n BY <2>1, BoundsAssumption DEF Tid
    <3>2. s[n + 1] = Plus(s[n], Get(rows, <<n + 1, u>>)) BY <1>2, <3>1
    <3>3. s[n] \in Bytes /\ Get(rows, <<n + 1, u>>) \in Bytes BY <1>4, <3>1, GetTyped
    <3>4. s[n + 1] \in Bytes
      <4> DEFINE r == Get(rows, <<n + 1, u>>)
      <4> HIDE DEF r
      <4>1. Plus(s[n], r) \in Bytes BY <3>3, BytesAdd DEF r
      <4> QED BY <3>2, <4>1 DEF r
    <3> QED BY <3>4
  <2>2. CASE ~(n + 1 <= MaxTid) BY <2>2
  <2> QED BY <2>1, <2>2
<1>5. Nat \subseteq S BY <1>3, <1>4, Induct
<1>6. \A i \in 0..MaxTid : s[i] \in Bytes BY <1>5, BoundsAssumption
<1> QED BY <1>1, <1>2, <1>6

\* What a buffer adds to a table it adds to every user's sum.
LEMMA SumOfUpsert ==
  ASSUME NEW f, IsMap(f, Tid \X Uid, Bytes), NEW g, IsMap(g, Tid \X Uid, Bytes), NEW u
  PROVE  /\ rows_of(f, u) \in Bytes /\ rows_of(g, u) \in Bytes
         /\ rows_of(Upsert(f, g), u) = Plus(rows_of(f, u), rows_of(g, u))
<1> DEFINE h == Upsert(f, g)
<1>1. IsMap(h, Tid \X Uid, Bytes) BY UpsertTyped
<1>2. \A k : Get(h, k) = Plus(Get(f, k), Get(g, k))
  <2>1. Plus(NoBytes, NoBytes) = NoBytes BY BytesAdd
  <2> QED BY <2>1 DEF Get, Upsert
<1> HIDE DEF h
<1>3. PICK a : /\ a[0] = NoBytes /\ rows_of(f, u) = a[MaxTid]
               /\ \A i \in Tid : a[i] = Plus(a[i - 1], Get(f, <<i, u>>))
               /\ \A i \in 0..MaxTid : a[i] \in Bytes
  BY SumsAre
<1>4. PICK b : /\ b[0] = NoBytes /\ rows_of(g, u) = b[MaxTid]
               /\ \A i \in Tid : b[i] = Plus(b[i - 1], Get(g, <<i, u>>))
               /\ \A i \in 0..MaxTid : b[i] \in Bytes
  BY SumsAre
<1>5. PICK c : /\ c[0] = NoBytes /\ rows_of(h, u) = c[MaxTid]
               /\ \A i \in Tid : c[i] = Plus(c[i - 1], Get(h, <<i, u>>))
               /\ \A i \in 0..MaxTid : c[i] \in Bytes
  BY <1>1, SumsAre
<1> DEFINE S == {n \in Nat : n <= MaxTid => c[n] = Plus(a[n], b[n])}
<1>6. 0 \in S BY <1>3, <1>4, <1>5, BytesAdd
<1>7. ASSUME NEW n \in Nat, n \in S PROVE n + 1 \in S
  <2>1. CASE n + 1 <= MaxTid
    <3>1. n + 1 \in Tid /\ n <= MaxTid /\ n \in 0..MaxTid /\ (n + 1) - 1 = n
      BY <2>1, BoundsAssumption DEF Tid
    <3> DEFINE k == <<n + 1, u>>
    <3>2. /\ a[n + 1] = Plus(a[n], Get(f, k)) /\ b[n + 1] = Plus(b[n], Get(g, k))
          /\ c[n + 1] = Plus(c[n], Get(h, k))
      BY <1>3, <1>4, <1>5, <3>1
    <3>3. /\ a[n] \in Bytes /\ b[n] \in Bytes /\ Get(f, k) \in Bytes /\ Get(g, k) \in Bytes
          /\ c[n] = Plus(a[n], b[n]) /\ Get(h, k) = Plus(Get(f, k), Get(g, k))
      BY <1>2, <1>3, <1>4, <1>7, <3>1, GetTyped
    <3> HIDE DEF k
    <3>4. c[n + 1] = Plus(a[n + 1], b[n + 1])
      <4>1. \A w, x, y, z \in Bytes : Plus(Plus(w, x), Plus(y, z)) = Plus(Plus(w, y), Plus(x, z))
        BY BytesAdd
      <4>2. Plus(Plus(a[n], b[n]), Plus(Get(f, k), Get(g, k))) = Plus(Plus(a[n], Get(f, k)), Plus(b[n], Get(g, k)))
        BY <3>3, <4>1
      <4> QED BY <3>2, <3>3, <4>2
    <3> QED BY <3>4
  <2>2. CASE ~(n + 1 <= MaxTid) BY <2>2
  <2> QED BY <2>1, <2>2
<1>8. Nat \subseteq S BY <1>6, <1>7, Induct
<1>9. MaxTid \in S /\ MaxTid \in 0..MaxTid BY <1>8, BoundsAssumption
<1> QED BY <1>3, <1>4, <1>5, <1>9 DEF h

\* One row counts for its user only.
LEMMA SumOfEntry ==
  ASSUME NEW i \in Tid, NEW v \in Uid, NEW bytes \in Bytes, NEW u
  PROVE  rows_of(Put(Empty, <<i, v>>, bytes), u) = IF u = v THEN bytes ELSE NoBytes
<1> DEFINE f == Put(Empty, <<i, v>>, bytes)
           m == IF u = v THEN bytes ELSE NoBytes
<1>1. IsMap(f, Tid \X Uid, Bytes) BY EntryTyped
<1>2. \A j \in Tid : Get(f, <<j, u>>) = IF j = i THEN m ELSE NoBytes
  BY DEF Get, Put, Empty
<1>3. m \in Bytes BY BytesAdd
<1> HIDE DEF f, m
<1>4. PICK s : /\ s[0] = NoBytes /\ rows_of(f, u) = s[MaxTid]
               /\ \A j \in Tid : s[j] = Plus(s[j - 1], Get(f, <<j, u>>))
               /\ \A j \in 0..MaxTid : s[j] \in Bytes
  BY <1>1, SumsAre
<1> DEFINE S == {n \in Nat : n <= MaxTid => s[n] = IF n < i THEN NoBytes ELSE m}
<1>5. i \in Nat /\ i >= 1 /\ i <= MaxTid BY BoundsAssumption DEF Tid
<1>6. 0 \in S BY <1>4, <1>5
<1>7. ASSUME NEW n \in Nat, n \in S PROVE n + 1 \in S
  <2>1. CASE n + 1 <= MaxTid
    <3>1. n + 1 \in Tid /\ n <= MaxTid /\ (n + 1) - 1 = n BY <2>1, BoundsAssumption DEF Tid
    <3>2. s[n + 1] = Plus(s[n], IF n + 1 = i THEN m ELSE NoBytes) BY <1>2, <1>4, <3>1
    <3>3. s[n] = IF n < i THEN NoBytes ELSE m BY <1>7, <3>1
    <3>4. CASE n + 1 < i
      <4>1. s[n + 1] = Plus(NoBytes, NoBytes) BY <1>5, <3>2, <3>3, <3>4
      <4> QED BY <3>4, <4>1, BytesAdd
    <3>5. CASE n + 1 = i
      <4>1. s[n + 1] = Plus(NoBytes, m) BY <1>5, <3>2, <3>3, <3>5
      <4>2. s[n + 1] = m BY <1>3, <4>1, BytesAdd
      <4> QED BY <1>5, <3>5, <4>2
    <3>6. CASE n + 1 > i
      <4>1. s[n + 1] = Plus(m, NoBytes) BY <1>5, <3>2, <3>3, <3>6
      <4>2. s[n + 1] = m BY <1>3, <4>1, BytesAdd
      <4> QED BY <1>5, <3>6, <4>2
    <3> QED BY <1>5, <3>4, <3>5, <3>6
  <2>2. CASE ~(n + 1 <= MaxTid) BY <2>2
  <2> QED BY <2>1, <2>2
<1>8. Nat \subseteq S BY <1>6, <1>7, Induct
<1>9. MaxTid \in S BY <1>8, BoundsAssumption
<1>10. rows_of(f, u) = m BY <1>4, <1>5, <1>9, BoundsAssumption
<1> QED BY <1>10 DEF f, m

LEMMA SumOfNone ==
  ASSUME NEW u PROVE rows_of(Empty, u) = NoBytes
<1>1. IsMap(Empty, Tid \X Uid, Bytes) BY DEF IsMap, Empty
<1>2. PICK s : /\ s[0] = NoBytes /\ rows_of(Empty, u) = s[MaxTid]
               /\ \A j \in Tid : s[j] = Plus(s[j - 1], Get(Empty, <<j, u>>))
               /\ \A j \in 0..MaxTid : s[j] \in Bytes
  BY <1>1, SumsAre
<1> DEFINE S == {n \in Nat : n <= MaxTid => s[n] = NoBytes}
<1>3. 0 \in S BY <1>2
<1>4. ASSUME NEW n \in Nat, n \in S PROVE n + 1 \in S
  <2>1. CASE n + 1 <= MaxTid
    <3>1. n + 1 \in Tid /\ n <= MaxTid /\ (n + 1) - 1 = n BY <2>1, BoundsAssumption DEF Tid
    <3>2. Get(Empty, <<n + 1, u>>) = NoBytes BY DEF Get, Empty
    <3> QED BY <1>2, <1>4, <3>1, <3>2, BytesAdd
  <2>2. CASE ~(n + 1 <= MaxTid) BY <2>2
  <2> QED BY <2>1, <2>2
<1>5. Nat \subseteq S BY <1>3, <1>4, Induct
<1> QED BY <1>2, <1>5, BoundsAssumption

-----------------------------------------------------------------------------
(* The accounts, through flushes and announces.                            *)

LEMMA AtMostReflexive == ASSUME NEW a \in Bytes PROVE AtMost(a, a)
BY DEF AtMost, Bytes

LEMMA CreditIsBytes ==
  ASSUME Good, DOMAIN dbUsers = Uid, NEW u \in Uid
  PROVE  dbUsers[u].bytes \in Bytes /\ Get(owedUsers, u) \in Bytes /\ credit(u) \in Bytes
<1>1. dbUsers[u] \in AccountRow BY DEF Good, AccountsOK, IsMap
<1>2. dbUsers[u].bytes \in Bytes BY <1>1 DEF AccountRow
<1>3. Get(owedUsers, u) \in Bytes BY GetTyped DEF Good, OwedOK
<1> QED BY <1>2, <1>3, BytesAdd DEF credit

LEMMA CreditIsBytesNext ==
  ASSUME Good', DOMAIN dbUsers' = Uid, NEW u \in Uid
  PROVE  credit(u)' \in Bytes
<1>1. dbUsers'[u] \in AccountRow BY DEF Good, AccountsOK, IsMap
<1>2. dbUsers'[u].bytes \in Bytes BY <1>1 DEF AccountRow
<1>3. Get(owedUsers', u) \in Bytes BY GetTyped DEF Good, OwedOK
<1> QED BY <1>2, <1>3, BytesAdd DEF credit

LEMMA CreditedRows ==
  ASSUME NEW table, IsMap(table, Uid, AccountRow), DOMAIN table = Uid, NEW owing, IsMap(owing, Uid, Bytes)
  PROVE  /\ DOMAIN credit_users(table, owing) = Uid
         /\ \A u \in Uid : credit_users(table, owing)[u].bytes = Plus(table[u].bytes, Get(owing, u))
<1>1. DOMAIN credit_users(table, owing) = Uid BY DEF credit_users, IsMap
<1>2. ASSUME NEW u \in Uid
      PROVE  credit_users(table, owing)[u].bytes = Plus(table[u].bytes, Get(owing, u))
  <2>1. credit_users(table, owing)[u] = [table[u] EXCEPT !.bytes = Plus(@, Get(owing, u))]
    BY DEF credit_users, IsMap
  <2>2. table[u] \in AccountRow BY DEF IsMap
  <2> QED BY <2>1, <2>2 DEF AccountRow
<1> QED BY <1>1, <1>2

LEMMA EmptyMap ==
  ASSUME NEW S, NEW f, IsMap(f, S, Bytes), DOMAIN f = {}
  PROVE  f = Empty
BY DEF IsMap, Empty

\* The two queries of a flush, each of which may fail.
LEMMA FlushAccounts ==
  ASSUME Good, DOMAIN dbUsers = Uid,
         NEW P, IsMap(P, Tid \X Uid, Bytes), NEW U, IsMap(U, Uid, Bytes), flush_db_users(P, U)
  PROVE  /\ DOMAIN dbUsers' = Uid
         /\ \A u \in Uid : AtMost(credit(u)', Plus(dbUsers[u].bytes, Get(U, u)))
         /\ faults' = 0 =>
              /\ faults = 0
              /\ \A u \in Uid :
                   /\ credit(u)' = Plus(dbUsers[u].bytes, Get(U, u))
                   /\ Plus(rows_of(dbPeers, u), rows_of(owedPeers, u))'
                        = Plus(rows_of(dbPeers, u), rows_of(P, u))
<1>1. PICK peersSent \in BOOLEAN, usersSent \in BOOLEAN :
        /\ dbPeers' = IF peersSent THEN Upsert(dbPeers, P) ELSE dbPeers
        /\ dbUsers' = IF usersSent THEN credit_users(dbUsers, U) ELSE dbUsers
        /\ faults' = faults + Count(~peersSent /\ DOMAIN P # {}) + Count(~usersSent /\ DOMAIN U # {})
  BY DEF flush_db_users, send_db_users
<1>2. owedPeers' = Empty /\ owedUsers' = Empty BY DEF flush_db_users
<1>3. IsMap(dbUsers, Uid, AccountRow) /\ IsMap(dbPeers, Tid \X Uid, Bytes) BY DEF Good, AccountsOK
<1>4. DOMAIN dbUsers' = Uid BY <1>1, <1>3, CreditedRows
<1>5. ASSUME NEW u \in Uid
      PROVE  /\ AtMost(credit(u)', Plus(dbUsers[u].bytes, Get(U, u)))
             /\ usersSent \/ DOMAIN U = {} => credit(u)' = Plus(dbUsers[u].bytes, Get(U, u))
  <2> DEFINE old == dbUsers[u].bytes
             more == Get(U, u)
  <2>1. old \in Bytes /\ more \in Bytes BY CreditIsBytes, GetTyped
  <2>2. Get(owedUsers', u) = NoBytes BY <1>2 DEF Get, Empty
  <2>3. dbUsers'[u].bytes = IF usersSent THEN Plus(old, more) ELSE old BY <1>1, <1>3, CreditedRows
  <2>4. credit(u)' = Plus(dbUsers'[u].bytes, Get(owedUsers', u)) BY DEF credit
  <2>5. DOMAIN U = {} => more = NoBytes BY DEF Get
  <2> HIDE DEF old, more
  <2>6. Plus(old, more) \in Bytes BY <2>1, BytesAdd
  <2>7. credit(u)' = IF usersSent THEN Plus(old, more) ELSE old BY <2>1, <2>2, <2>3, <2>4, <2>6, BytesAdd
  <2>8. AtMost(old, Plus(old, more)) BY <2>1 DEF AtMost, Plus, Bytes
  <2>9. AtMost(credit(u)', Plus(old, more)) BY <2>6, <2>7, <2>8, AtMostReflexive
  <2>10. DOMAIN U = {} => Plus(old, more) = old BY <2>1, <2>5, BytesAdd
  <2> QED BY <2>7, <2>9, <2>10 DEF old, more
<1>6. ASSUME NEW u \in Uid, peersSent \/ DOMAIN P = {}
      PROVE  Plus(rows_of(dbPeers, u), rows_of(owedPeers, u))' = Plus(rows_of(dbPeers, u), rows_of(P, u))
  <2>1. /\ rows_of(dbPeers, u) \in Bytes /\ rows_of(P, u) \in Bytes
        /\ rows_of(Upsert(dbPeers, P), u) = Plus(rows_of(dbPeers, u), rows_of(P, u))
    BY <1>3, SumOfUpsert
  <2>2. rows_of(owedPeers', u) = NoBytes BY <1>2, SumOfNone
  <2>3. Plus(rows_of(dbPeers, u), rows_of(P, u)) \in Bytes BY <2>1, BytesAdd
  <2>4. rows_of(dbPeers', u) = Plus(rows_of(dbPeers, u), rows_of(P, u))
    <3>1. CASE peersSent BY <1>1, <2>1, <3>1
    <3>2. CASE ~peersSent
      <4>1. rows_of(P, u) = NoBytes BY <1>6, <3>2, EmptyMap, SumOfNone
      <4> QED BY <1>1, <2>1, <3>2, <4>1, BytesAdd
    <3> QED BY <3>1, <3>2
  <2> QED BY <2>2, <2>3, <2>4, BytesAdd
<1>7. ASSUME faults' = 0 PROVE faults = 0 /\ (peersSent \/ DOMAIN P = {}) /\ (usersSent \/ DOMAIN U = {})
  <2> DEFINE a == Count(~peersSent /\ DOMAIN P # {})
             b == Count(~usersSent /\ DOMAIN U # {})
  <2>1. a \in {0, 1} /\ b \in {0, 1} BY DEF Count
  <2>2. faults \in Nat BY BoundsAssumption DEF Good, ProcessOK
  <2>3. faults' = faults + a + b BY <1>1
  <2>4. a = 0 /\ b = 0 /\ faults = 0
    <3> HIDE DEF a, b
    <3> QED BY <1>7, <2>1, <2>2, <2>3
  <2>5. \A c \in BOOLEAN : Count(c) = 0 => ~c BY DEF Count
  <2>6. ~(~peersSent /\ DOMAIN P # {}) BY <2>4, <2>5
  <2>7. ~(~usersSent /\ DOMAIN U # {}) BY <2>4, <2>5
  <2> QED BY <2>4, <2>6, <2>7
<1> QED BY <1>4, <1>5, <1>6, <1>7

\* Where neither table nor buffer changes, nothing changes.
LEMMA QuietAccounts ==
  ASSUME AccountsAgree, UNCHANGED <<dbUsers, dbPeers, owedPeers, owedUsers>>, faults' = 0 => faults = 0
  PROVE  AccountsAgree' /\ \A u : credit(u)' = credit(u)
BY DEF AccountsAgree, credit

\* What an announce adds, with the flush it may bring.
LEMMA OweAccounts ==
  ASSUME Good, DOMAIN dbUsers = Uid, AccountsAgree,
         NEW t, GoodTorrent(t), t.tid # 0, NEW in \in Input, NEW uid \in Uid, owe(t, in, uid)
  PROVE  /\ DOMAIN dbUsers' = Uid
         /\ \A u \in Uid : AtMost(credit(u)', Plus(credit(u), IF u = uid THEN delta(t, in, uid) ELSE NoBytes))
         /\ AccountsAgree'
<1> DEFINE bytes == delta(t, in, uid)
           entry == Put(Empty, <<t.tid, uid>>, bytes)
           peersOwed == Upsert(owedPeers, entry)
           usersOwed == IF bytes = NoBytes THEN owedUsers ELSE Upsert(owedUsers, Put(Empty, uid, bytes))
           share(u) == IF u = uid THEN bytes ELSE NoBytes
<1>1. bytes \in Bytes BY DeltaTyped
<1>2. t.tid \in Tid BY BoundsAssumption DEF GoodTorrent, IsTorrent, Tid
<1>3. IF owedRows + 1 > BufferRows
      THEN flush_db_users(peersOwed, usersOwed)
      ELSE owedPeers' = peersOwed /\ owedUsers' = usersOwed /\ UNCHANGED <<dbPeers, dbUsers, faults>>
  BY DEF owe, buffer_full
<1>4. \A u : Get(usersOwed, u) = Plus(Get(owedUsers, u), share(u))
  <2>1. IsMap(owedUsers, Uid, Bytes) BY DEF Good, OwedOK
  <2>2. \A u : Get(owedUsers, u) \in Bytes BY <2>1, GetTyped
  <2>3. \A u : Get(Put(Empty, uid, bytes), u) = share(u) BY DEF Get, Put, Empty
  <2>4. CASE bytes = NoBytes
    <3>1. \A u : share(u) = NoBytes BY <2>4
    <3>2. usersOwed = owedUsers BY <2>4
    <3> HIDE DEF usersOwed, share
    <3> QED BY <2>2, <3>1, <3>2, BytesAdd
  <2>5. CASE bytes # NoBytes
    <3>1. usersOwed = Upsert(owedUsers, Put(Empty, uid, bytes)) BY <2>5
    <3>2. \A f, g : \A u : Get(Upsert(f, g), u) = Plus(Get(f, u), Get(g, u))
      <4>1. Plus(NoBytes, NoBytes) = NoBytes BY BytesAdd
      <4> QED BY <4>1 DEF Get, Upsert
    <3> HIDE DEF usersOwed, share
    <3> QED BY <2>3, <3>1, <3>2
  <2> QED BY <2>4, <2>5
<1>5. IsMap(entry, Tid \X Uid, Bytes) /\ IsMap(peersOwed, Tid \X Uid, Bytes) /\ IsMap(usersOwed, Uid, Bytes)
  <2>1. <<t.tid, uid>> \in Tid \X Uid BY <1>2
  <2> QED BY <1>1, <2>1, EntryTyped, UpsertTyped DEF Good, OwedOK
<1>6. \A u \in Uid : rows_of(peersOwed, u) = Plus(rows_of(owedPeers, u), share(u)) /\ rows_of(owedPeers, u) \in Bytes
  <2> SUFFICES ASSUME NEW u \in Uid
               PROVE  rows_of(peersOwed, u) = Plus(rows_of(owedPeers, u), share(u)) /\ rows_of(owedPeers, u) \in Bytes
    OBVIOUS
  <2>1. rows_of(entry, u) = share(u) BY <1>1, <1>2, SumOfEntry
  <2>2. IsMap(owedPeers, Tid \X Uid, Bytes) BY DEF Good, OwedOK
  <2>3. rows_of(owedPeers, u) \in Bytes /\ rows_of(peersOwed, u) = Plus(rows_of(owedPeers, u), rows_of(entry, u))
    BY <1>5, <2>2, SumOfUpsert
  <2> QED BY <2>1, <2>3
<1>7. \A u \in Uid : share(u) \in Bytes /\ dbUsers[u].bytes \in Bytes /\ Get(owedUsers, u) \in Bytes /\ credit(u) \in Bytes
  BY <1>1, BytesAdd, CreditIsBytes
<1> HIDE DEF entry, peersOwed, usersOwed
<1>8. \A u \in Uid : /\ Plus(dbUsers[u].bytes, Get(usersOwed, u)) = Plus(credit(u), share(u))
                     /\ Plus(credit(u), share(u)) \in Bytes
  <2> SUFFICES ASSUME NEW u \in Uid
               PROVE  /\ Plus(dbUsers[u].bytes, Get(usersOwed, u)) = Plus(credit(u), share(u))
                      /\ Plus(credit(u), share(u)) \in Bytes
    OBVIOUS
  <2> HIDE DEF share
  <2>1. Get(usersOwed, u) = Plus(Get(owedUsers, u), share(u)) BY <1>4
  <2>2. credit(u) = Plus(dbUsers[u].bytes, Get(owedUsers, u)) BY DEF credit
  <2>3. \A a, b, c \in Bytes : Plus(a, Plus(b, c)) = Plus(Plus(a, b), c) BY BytesAdd
  <2>4. Plus(dbUsers[u].bytes, Plus(Get(owedUsers, u), share(u))) = Plus(Plus(dbUsers[u].bytes, Get(owedUsers, u)), share(u))
    BY <1>7, <2>3
  <2>5. Plus(credit(u), share(u)) \in Bytes BY <1>7, BytesAdd
  <2> QED BY <2>1, <2>2, <2>4, <2>5
<1>9. IsMap(dbPeers, Tid \X Uid, Bytes) BY DEF Good, AccountsOK
<1>10. \A u \in Uid : Plus(rows_of(dbPeers, u), rows_of(peersOwed, u))
                        = Plus(Plus(rows_of(dbPeers, u), rows_of(owedPeers, u)), share(u))
  <2> SUFFICES ASSUME NEW u \in Uid
               PROVE  Plus(rows_of(dbPeers, u), rows_of(peersOwed, u))
                        = Plus(Plus(rows_of(dbPeers, u), rows_of(owedPeers, u)), share(u))
    OBVIOUS
  <2>1. rows_of(dbPeers, u) \in Bytes BY <1>5, <1>9, SumOfUpsert
  <2>2. rows_of(peersOwed, u) = Plus(rows_of(owedPeers, u), share(u)) /\ rows_of(owedPeers, u) \in Bytes /\ share(u) \in Bytes
    BY <1>6, <1>7
  <2> HIDE DEF share
  <2>3. \A a, b, c \in Bytes : Plus(a, Plus(b, c)) = Plus(Plus(a, b), c) BY BytesAdd
  <2> QED BY <2>1, <2>2, <2>3
<1>11. /\ DOMAIN dbUsers' = Uid
       /\ \A u \in Uid : AtMost(credit(u)', Plus(credit(u), share(u)))
       /\ faults' = 0 =>
            /\ faults = 0
            /\ \A u \in Uid :
                 /\ credit(u)' = Plus(credit(u), share(u))
                 /\ Plus(rows_of(dbPeers, u), rows_of(owedPeers, u))'
                      = Plus(Plus(rows_of(dbPeers, u), rows_of(owedPeers, u)), share(u))
  <2> HIDE DEF share
  <2>1. CASE owedRows + 1 > BufferRows
    <3>1. flush_db_users(peersOwed, usersOwed) BY <1>3, <2>1
    <3>2. /\ DOMAIN dbUsers' = Uid
          /\ \A u \in Uid : AtMost(credit(u)', Plus(dbUsers[u].bytes, Get(usersOwed, u)))
          /\ faults' = 0 =>
               /\ faults = 0
               /\ \A u \in Uid :
                    /\ credit(u)' = Plus(dbUsers[u].bytes, Get(usersOwed, u))
                    /\ Plus(rows_of(dbPeers, u), rows_of(owedPeers, u))'
                         = Plus(rows_of(dbPeers, u), rows_of(peersOwed, u))
      BY <1>5, <3>1, FlushAccounts
    <3> QED BY <1>8, <1>10, <3>2
  <2>2. CASE ~(owedRows + 1 > BufferRows)
    <3>1. owedPeers' = peersOwed /\ owedUsers' = usersOwed /\ dbPeers' = dbPeers /\ dbUsers' = dbUsers /\ faults' = faults
      BY <1>3, <2>2
    <3>2. \A u \in Uid : credit(u)' = Plus(credit(u), share(u)) BY <1>8, <3>1 DEF credit
    <3>3. \A u \in Uid : AtMost(credit(u)', Plus(credit(u), share(u))) BY <1>8, <3>2, AtMostReflexive
    <3>4. \A u \in Uid : Plus(rows_of(dbPeers, u), rows_of(owedPeers, u))'
                           = Plus(Plus(rows_of(dbPeers, u), rows_of(owedPeers, u)), share(u))
      BY <1>10, <3>1
    <3> QED BY <3>1, <3>2, <3>3, <3>4
  <2> QED BY <2>1, <2>2
<1>12. AccountsAgree'
  <2> HIDE DEF share
  <2> SUFFICES ASSUME faults' = 0, NEW u \in Uid
               PROVE  credit(u)' = Plus(rows_of(dbPeers, u), rows_of(owedPeers, u))'
    BY <1>11 DEF AccountsAgree
  <2>1. credit(u) = Plus(rows_of(dbPeers, u), rows_of(owedPeers, u)) BY <1>11 DEF AccountsAgree
  <2> QED BY <1>11, <2>1
<1> QED BY <1>11, <1>12

-----------------------------------------------------------------------------
(* The line of one Cbt_file: its announces under way, and what it would    *)
(* say next.                                                               *)

Clients == [uid: Uid, downloaded: 0..MaxBytes, uploaded: 0..MaxBytes]
report(a) == [uid |-> a.uid, downloaded |-> a.in.downloaded, uploaded |-> a.in.uploaded]
line(xs, c) == [i \in 1..(Len(xs) + 1) |-> IF i <= Len(xs) THEN report(xs[i]) ELSE c]
Backed(l, xs, c, u, side, b) == Enough(l, line(xs, c), Len(xs) + 1, u, side, b)

LEMMA ReportCounted ==
  /\ Nobody \in Counted /\ Clients \subseteq Counted
  /\ \A a \in Announced : report(a) \in Counted
<1>1. \A a \in Announced : a.in \in Input /\ a.uid \in Uid BY DEF Announced
<1>2. \A in \in Input : in.downloaded \in Nat /\ in.uploaded \in Nat BY BoundsAssumption DEF Input
<1>3. \A a \in Announced : report(a) \in Counted BY <1>1, <1>2 DEF report, Counted
<1>4. Clients \subseteq Counted BY BoundsAssumption DEF Clients, Counted
<1>5. Nobody \in Counted BY DEF Nobody, Counted
<1> QED BY <1>3, <1>4, <1>5

LEMMA LineTyped ==
  ASSUME NEW xs \in Seq(Announced), NEW c \in Clients
  PROVE  /\ Len(xs) \in Nat /\ line(xs, c) \in [1..(Len(xs) + 1) -> Counted]
         /\ \A i \in 1..Len(xs) : line(xs, c)[i] = report(xs[i])
         /\ line(xs, c)[Len(xs) + 1] = c
<1>1. Len(xs) \in Nat /\ \A i \in 1..Len(xs) : xs[i] \in Announced OBVIOUS
<1> DEFINE n == Len(xs)
<1> HIDE DEF n
<1>2. n \in Nat /\ \A i \in 1..n : xs[i] \in Announced BY <1>1 DEF n
<1>3. line(xs, c) = [i \in 1..(n + 1) |-> IF i <= n THEN report(xs[i]) ELSE c] BY DEF line, n
<1>4. \A i \in 1..(n + 1) : (IF i <= n THEN report(xs[i]) ELSE c) \in Counted
  <2> TAKE i \in 1..(n + 1)
  <2>1. CASE i <= n
    <3>1. i \in 1..n BY <1>2, <2>1
    <3> QED BY <1>2, <2>1, <3>1, ReportCounted
  <2>2. CASE ~(i <= n) BY <2>2, ReportCounted
  <2> QED BY <2>1, <2>2
<1>5. line(xs, c) \in [1..(n + 1) -> Counted] BY <1>3, <1>4
<1>6. \A i \in 1..n : i \in 1..(n + 1) /\ i <= n BY <1>2
<1>7. n + 1 \in 1..(n + 1) /\ ~(n + 1 <= n) BY <1>2
<1>8. \A i \in 1..n : line(xs, c)[i] = report(xs[i]) BY <1>3, <1>6
<1>9. line(xs, c)[n + 1] = c BY <1>3, <1>7
<1> QED BY <1>2, <1>5, <1>8, <1>9 DEF n

\* The first announce is gone, and d of the bytes are spent.
LEMMA TailBacked ==
  ASSUME NEW xs \in Seq(Announced), xs # <<>>, NEW c \in Clients, NEW u \in Uid, NEW side \in Side,
         NEW l \in Counted, NEW k \in Counted, NEW d \in Nat, NEW b \in Nat, Backed(l, xs, c, u, side, b),
         \A y \in Counted : first_gain(k, y, u, side) + d
           <= first_gain(l, report(Head(xs)), u, side) + gain(report(Head(xs)), y, u, side)
  PROVE  b - d \in Nat /\ Backed(k, Tail(xs), c, u, side, b - d)
<1> DEFINE n == Len(xs) + 1
           ys == Tail(xs)
           before == line(xs, c)
           after == line(ys, c)
<1>1. Len(xs) \in Nat /\ Len(xs) >= 1 /\ Len(ys) = Len(xs) - 1 /\ ys \in Seq(Announced) /\ Head(xs) = xs[1]
  OBVIOUS
<1>2. \A i \in 1..Len(ys) : ys[i] = xs[i + 1] OBVIOUS
<1>3. /\ before \in [1..n -> Counted] /\ before[n] = c
      /\ \A i \in 1..Len(xs) : before[i] = report(xs[i])
  BY LineTyped
<1>4. /\ after \in [1..(n - 1) -> Counted] /\ after[n - 1] = c
      /\ \A i \in 1..Len(ys) : after[i] = report(ys[i])
  <2>1. Len(ys) + 1 = n - 1 BY <1>1
  <2>2. /\ after \in [1..(Len(ys) + 1) -> Counted] /\ after[Len(ys) + 1] = c
        /\ \A i \in 1..Len(ys) : after[i] = report(ys[i])
    BY <1>1, LineTyped
  <2> HIDE DEF after, ys, n
  <2> QED BY <2>1, <2>2
<1>5. n \in Nat /\ n >= 2 BY <1>1
<1>6. Enough(l, before, n, u, side, b) BY DEF Backed
<1> HIDE DEF before, after
<1>7. ASSUME NEW i \in 1..(n - 1) PROVE after[i] = before[i + 1]
  <2>1. CASE i = n - 1 BY <1>3, <1>4, <1>5, <2>1
  <2>2. CASE i # n - 1
    <3>1. i \in 1..Len(ys) /\ i + 1 \in 1..Len(xs)
      <4>1. Len(xs) \in Nat /\ Len(ys) = Len(xs) - 1 /\ n = Len(xs) + 1 BY <1>1
      <4> HIDE DEF n, ys
      <4> QED BY <2>2, <4>1
    <3> QED BY <1>2, <1>3, <1>4, <3>1
  <2> QED BY <2>1, <2>2
<1>8. before[1] = report(Head(xs)) /\ before[2] \in Counted
  <2>1. 1 \in 1..Len(xs) /\ 2 \in 1..n BY <1>1, <1>5
  <2> QED BY <1>1, <1>3, <2>1
<1>9. first_gain(k, before[2], u, side) + d
        <= first_gain(l, before[1], u, side) + gain(before[1], before[2], u, side)
  BY <1>8
<1>10. Len(ys) + 1 = n - 1 BY <1>1
<1> HIDE DEF n, ys
<1>11. b - d \in Nat /\ Enough(k, after, n - 1, u, side, b - d)
  BY <1>3, <1>4, <1>5, <1>6, <1>7, <1>9, ShiftEnough
<1> QED BY <1>10, <1>11 DEF Backed, after, ys

\* An announce is lost, or refused.
LEMMA LoseBacked ==
  ASSUME NEW xs \in Seq(Announced), xs # <<>>, NEW c \in Clients, NEW u \in Uid, NEW side \in Side,
         NEW l \in Counted, NEW b \in Nat, Backed(l, xs, c, u, side, b)
  PROVE  Backed(l, Tail(xs), c, u, side, b)
<1>1. report(Head(xs)) \in Counted
  <2>1. Head(xs) \in Announced OBVIOUS
  <2> QED BY <2>1, ReportCounted
<1>2. \A y \in Counted : first_gain(l, y, u, side) + 0
        <= first_gain(l, report(Head(xs)), u, side) + gain(report(Head(xs)), y, u, side)
  <2> TAKE y \in Counted
  <2>1. first_gain(l, y, u, side) <= first_gain(l, report(Head(xs)), u, side) + gain(report(Head(xs)), y, u, side)
    BY <1>1, GainAdds
  <2>2. first_gain(l, y, u, side) \in Nat BY GainNat
  <2> QED BY <2>1, <2>2
<1>3. b - 0 \in Nat /\ Backed(l, Tail(xs), c, u, side, b - 0) BY <1>2, TailBacked
<1>4. b - 0 = b OBVIOUS
<1> QED BY <1>3, <1>4

\* An announce is accepted, of its user or of nobody; k is what the tracker keeps of it.
LEMMA AcceptBacked ==
  ASSUME NEW xs \in Seq(Announced), xs # <<>>, NEW c \in Clients, NEW u \in Uid, NEW side \in Side,
         NEW l \in Counted, NEW k \in Counted, NEW d \in Nat, NEW b \in Nat, Backed(l, xs, c, u, side, b),
         d <= first_gain(l, report(Head(xs)), u, side), k = report(Head(xs)) \/ k.uid = 0
  PROVE  b - d \in Nat /\ Backed(k, Tail(xs), c, u, side, b - d)
<1> DEFINE r == report(Head(xs))
<1>1. r \in Counted
  <2>1. Head(xs) \in Announced OBVIOUS
  <2> QED BY <2>1, ReportCounted
<1>2. u # 0 BY DataAssumption
<1>3. \A y \in Counted : first_gain(k, y, u, side) + d <= first_gain(l, r, u, side) + gain(r, y, u, side)
  <2> TAKE y \in Counted
  <2>1. gain(r, y, u, side) \in Nat /\ first_gain(l, r, u, side) \in Nat BY <1>1, GainNat
  <2>2. first_gain(k, y, u, side) <= gain(r, y, u, side) /\ first_gain(k, y, u, side) \in Nat
    <3>1. CASE k = r BY <1>1, <2>1, <3>1 DEF first_gain
    <3>2. CASE k.uid = 0 BY <1>2, <2>1, <3>2 DEF first_gain
    <3> QED BY <3>1, <3>2
  <2> HIDE DEF r
  <2> QED BY <2>1, <2>2 DEF r
<1> QED BY <1>3, TailBacked

\* An announce is sent, which says what the client has counted; it may count anew from then on.
LEMMA SendBacked ==
  ASSUME NEW xs \in Seq(Announced), NEW c \in Clients, NEW u \in Uid, NEW side \in Side,
         NEW l \in Counted, NEW b \in Nat, Backed(l, xs, c, u, side, b),
         NEW a \in Announced, report(a) = c, NEW e \in Clients, gain(c, e, u, side) = 0
  PROVE  Backed(l, Append(xs, a), e, u, side, b)
<1> DEFINE n == Len(xs) + 1
           ys == Append(xs, a)
           before == line(xs, c)
           after == line(ys, e)
<1>1. Len(xs) \in Nat /\ Len(ys) = n /\ ys \in Seq(Announced) OBVIOUS
<1>2. ys[n] = a /\ \A i \in 1..Len(xs) : ys[i] = xs[i] OBVIOUS
<1>3. /\ before \in [1..n -> Counted] /\ before[n] = c
      /\ \A i \in 1..Len(xs) : before[i] = report(xs[i])
  BY LineTyped
<1>4. /\ after \in [1..(n + 1) -> Counted] /\ after[n + 1] = e
      /\ \A i \in 1..n : after[i] = report(ys[i])
  <2>1. /\ after \in [1..(Len(ys) + 1) -> Counted] /\ after[Len(ys) + 1] = e
        /\ \A i \in 1..Len(ys) : after[i] = report(ys[i])
    BY <1>1, LineTyped
  <2> HIDE DEF after, ys, n
  <2> QED BY <1>1, <2>1
<1>5. n \in Nat \ {0} BY <1>1
<1>6. Enough(l, before, n, u, side, b) BY DEF Backed
<1> HIDE DEF before, after
<1>7. ASSUME NEW i \in 1..n PROVE after[i] = before[i]
  <2>1. CASE i = n BY <1>2, <1>3, <1>4, <2>1
  <2>2. CASE i # n
    <3>1. i \in 1..Len(xs) BY <1>1, <2>2
    <3> QED BY <1>2, <1>3, <1>4, <3>1
  <2> QED BY <2>1, <2>2
<1>8. gain(after[n], after[n + 1], u, side) = 0
  <2>1. after[n] = c BY <1>3, <1>5, <1>7
  <2> QED BY <1>4, <2>1
<1>9. Len(ys) + 1 = n + 1 BY <1>1
<1> HIDE DEF n, ys
<1>10. Enough(l, after, n + 1, u, side, b) BY <1>3, <1>4, <1>5, <1>6, <1>7, <1>8, ExtendEnough
<1> QED BY <1>9, <1>10 DEF Backed, after, ys

\* The client counts m bytes more, or starts again.
LEMMA CountBacked ==
  ASSUME NEW xs \in Seq(Announced), NEW c \in Clients, NEW u \in Uid, NEW side \in Side,
         NEW l \in Counted, NEW b \in Nat, Backed(l, xs, c, u, side, b), NEW m \in Nat,
         NEW e \in Clients, \A x \in Counted : gain(x, e, u, side) <= gain(x, c, u, side) + m
  PROVE  Backed(l, xs, e, u, side, b + m)
<1> DEFINE n == Len(xs) + 1
           before == line(xs, c)
           after == line(xs, e)
<1>1. /\ Len(xs) \in Nat /\ before \in [1..n -> Counted] /\ before[n] = c
      /\ \A i \in 1..Len(xs) : before[i] = report(xs[i])
  BY LineTyped
<1>2. /\ after \in [1..n -> Counted] /\ after[n] = e
      /\ \A i \in 1..Len(xs) : after[i] = report(xs[i])
  BY LineTyped
<1>3. Enough(l, before, n, u, side, b) BY DEF Backed
<1> HIDE DEF before, after
<1>4. ASSUME NEW i \in 1..n, i # n PROVE after[i] = before[i]
  <2>1. i \in 1..Len(xs) BY <1>1, <1>4
  <2> QED BY <1>1, <1>2, <2>1
<1>5. n \in Nat \ {0} BY <1>1
<1> HIDE DEF n
<1>6. Enough(l, after, n, u, side, b + m) BY <1>1, <1>2, <1>3, <1>4, <1>5, ReplaceEnough
<1> QED BY <1>6 DEF Backed, after, n

LEMMA ForgetBacked ==
  ASSUME NEW xs \in Seq(Announced), NEW c \in Clients, NEW u \in Uid, NEW side \in Side,
         NEW l \in Counted, NEW k, k = l \/ k.uid = 0, NEW b \in Nat, Backed(l, xs, c, u, side, b)
  PROVE  Backed(k, xs, c, u, side, b)
<1> DEFINE n == Len(xs) + 1
<1>1. n \in Nat /\ n >= 1 /\ line(xs, c) \in [1..n -> Counted] BY LineTyped
<1>2. line(xs, c)[1] \in Counted BY <1>1
<1>3. u # 0 BY DataAssumption
<1> QED BY <1>1, <1>2, <1>3, ForgetEnough DEF Backed

\* What counting gains: the bytes, if they are the user's.
LEMMA CountGains ==
  ASSUME NEW c \in Clients, NEW n \in Bytes, NEW e \in Clients,
         e = [uid |-> c.uid, downloaded |-> c.downloaded + n.downloaded, uploaded |-> c.uploaded + n.uploaded],
         NEW u \in Uid, NEW side \in Side, NEW x \in Counted
  PROVE  gain(x, e, u, side) <= gain(x, c, u, side) + (IF c.uid = u THEN part(n, side) ELSE 0)
<1>1. /\ c.downloaded \in Nat /\ c.uploaded \in Nat /\ n.downloaded \in Nat /\ n.uploaded \in Nat
      /\ x.downloaded \in Nat /\ x.uploaded \in Nat
  BY BoundsAssumption DEF Clients, Bytes, Counted
<1>2. e.uid = c.uid /\ e.downloaded = c.downloaded + n.downloaded /\ e.uploaded = c.uploaded + n.uploaded
  OBVIOUS
<1> QED BY <1>1, <1>2 DEF gain, went_on, part

\* A new session has gained nothing yet.
LEMMA SessionGains ==
  ASSUME NEW next \in Uid, NEW u \in Uid, NEW side \in Side, NEW x \in Counted
  PROVE  Session(next) \in Clients /\ gain(x, Session(next), u, side) = 0
<1>1. Session(next) \in Clients BY BoundsAssumption DEF Session, Clients
<1>2. x.downloaded \in Nat /\ x.uploaded \in Nat BY DEF Counted
<1> QED BY <1>1, <1>2 DEF gain, went_on, part, Session

-----------------------------------------------------------------------------
(* Every byte credited, or still to be credited for what clients say, was  *)
(* moved: each Cbt_file has its share of a user's bytes, which covers its  *)
(* line.                                                                   *)

\* What the tracker knows of a Cbt_file.
last(f) ==
  IF f[2] \in DOMAIN torrents /\ f[1] \in DOMAIN torrents[f[2]].peers
  THEN [uid |-> torrents[f[2]].peers[f[1]].uid,
        downloaded |-> torrents[f[2]].peers[f[1]].downloaded,
        uploaded |-> torrents[f[2]].peers[f[1]].uploaded]
  ELSE Nobody
backed(f, u, side, b) == Backed(last(f), flight[f], client[f], u, side, b)
Covered(u, side) ==
  \E b \in [Cbt_file -> Nat] :
    /\ IsFiniteSet(Tokens(b))
    /\ Cardinality(Tokens(b)) + part(credit(u), side) <= part(moved[u], side)
    /\ \A f \in Cbt_file : backed(f, u, side, b[f])
Honest ==
  /\ Good /\ TypeOKClients
  /\ DOMAIN dbUsers = Uid /\ "none" \notin DOMAIN passes
  /\ AccountsAgree
  /\ \A u \in Uid, side \in Side : Covered(u, side)

LEMMA HonestGives == Honest => ClientsCredited
<1> SUFFICES ASSUME Honest PROVE ClientsCredited OBVIOUS
<1>1. ASSUME NEW u \in Uid, NEW side \in Side PROVE part(credit(u), side) <= part(moved[u], side)
  <2>1. PICK b \in [Cbt_file -> Nat] :
          /\ IsFiniteSet(Tokens(b))
          /\ Cardinality(Tokens(b)) + part(credit(u), side) <= part(moved[u], side)
    BY <1>1 DEF Honest, Covered
  <2>2. Cardinality(Tokens(b)) \in Nat BY <2>1, FS_CardinalityType
  <2>3. credit(u) \in Bytes BY CreditIsBytes DEF Honest
  <2>4. moved[u] \in Bytes BY DEF Honest, TypeOKClients
  <2>5. part(credit(u), side) \in Nat /\ part(moved[u], side) \in Nat BY <2>3, <2>4 DEF Bytes, part
  <2> QED BY <2>1, <2>2, <2>5
<1>2. NoOverCredit
  <2>1. "downloaded" \in Side /\ "uploaded" \in Side BY DEF Side
  <2>2. \A u \in Uid : part(credit(u), "downloaded") <= part(moved[u], "downloaded")
                       /\ part(credit(u), "uploaded") <= part(moved[u], "uploaded")
    BY <1>1, <2>1
  <2> QED BY <2>2 DEF part, NoOverCredit, AtMost, Honest
<1> QED BY <1>2 DEF ClientsCredited, Honest

LEMMA LastCounted ==
  ASSUME Good, NEW f \in Cbt_file PROVE last(f) \in Counted
<1> DEFINE t == torrents[f[2]]
           p == t.peers[f[1]]
<1>1. CASE f[2] \in DOMAIN torrents /\ f[1] \in DOMAIN t.peers
  <2>1. IsTorrent(t) BY <1>1 DEF Good, TorrentsGood, GoodTorrent
  <2>2. p \in Peer BY <1>1, <2>1 DEF IsTorrent, IsMap
  <2>3. last(f) = [uid |-> p.uid, downloaded |-> p.downloaded, uploaded |-> p.uploaded]
    BY <1>1 DEF last
  <2> HIDE DEF p
  <2> QED BY <2>2, <2>3 DEF Peer, Counted
<1>2. CASE ~(f[2] \in DOMAIN torrents /\ f[1] \in DOMAIN t.peers)
  BY <1>2, ReportCounted DEF last
<1> QED BY <1>1, <1>2

\* The lines stay covered by the shares they have.
LEMMA KeepCovered ==
  ASSUME NEW u \in Uid, NEW side \in Side, Covered(u, side),
         credit(u) \in Bytes, credit(u)' \in Bytes, AtMost(credit(u)', credit(u)),
         moved'[u] = moved[u], moved[u] \in Bytes,
         \A f \in Cbt_file : \A b \in Nat : backed(f, u, side, b) => backed(f, u, side, b)'
  PROVE  Covered(u, side)'
<1>1. PICK b \in [Cbt_file -> Nat] :
        /\ IsFiniteSet(Tokens(b))
        /\ Cardinality(Tokens(b)) + part(credit(u), side) <= part(moved[u], side)
        /\ \A f \in Cbt_file : backed(f, u, side, b[f])
  BY DEF Covered
<1>2. \A f \in Cbt_file : backed(f, u, side, b[f])' BY <1>1
<1>3. Cardinality(Tokens(b)) \in Nat BY <1>1, FS_CardinalityType
<1>4. /\ part(credit(u), side) \in Nat /\ part(credit(u)', side) \in Nat /\ part(moved[u], side) \in Nat
      /\ part(credit(u)', side) <= part(credit(u), side)
  BY DEF Bytes, part, AtMost
<1>5. Cardinality(Tokens(b)) + part(credit(u)', side) <= part(moved'[u], side) BY <1>1, <1>3, <1>4
<1> QED BY <1>1, <1>2, <1>5 DEF Covered

\* One Cbt_file spends d bytes of its share, or has m more to share.
LEMMA ShareCovered ==
  ASSUME NEW u \in Uid, NEW side \in Side, Covered(u, side), NEW f \in Cbt_file, NEW d \in Nat, NEW m \in Nat,
         credit(u) \in Bytes, credit(u)' \in Bytes, part(credit(u)', side) <= part(credit(u), side) + d,
         moved[u] \in Bytes, moved'[u] \in Bytes, part(moved'[u], side) = part(moved[u], side) + m
  PROVE  /\ \A g \in Cbt_file \ {f} : \A b \in Nat : backed(g, u, side, b) => backed(g, u, side, b)'
         /\ \A b \in Nat : backed(f, u, side, b) => b - d \in Nat /\ backed(f, u, side, b - d + m)'
         => Covered(u, side)'
<1>a. SUFFICES
        ASSUME \A g \in Cbt_file \ {f} : \A b \in Nat : backed(g, u, side, b) => backed(g, u, side, b)',
               \A b \in Nat : backed(f, u, side, b) => b - d \in Nat /\ backed(f, u, side, b - d + m)'
        PROVE  Covered(u, side)'
  OBVIOUS
<1>b. \A b \in Nat : backed(f, u, side, b) => b - d \in Nat /\ backed(f, u, side, b - d + m)' BY <1>a
<1>1. PICK b \in [Cbt_file -> Nat] :
        /\ IsFiniteSet(Tokens(b))
        /\ Cardinality(Tokens(b)) + part(credit(u), side) <= part(moved[u], side)
        /\ \A g \in Cbt_file : backed(g, u, side, b[g])
  BY DEF Covered
<1> DEFINE n == b[f] - d + m
           c == [b EXCEPT ![f] = n]
<1>2. b[f] \in Nat /\ b[f] - d \in Nat /\ backed(f, u, side, n)' BY <1>1, <1>b
<1>3. n \in Nat BY <1>2
<1> HIDE DEF n
<1>4. /\ c \in [Cbt_file -> Nat] /\ IsFiniteSet(Tokens(c))
      /\ Cardinality(Tokens(c)) = Cardinality(Tokens(b)) - b[f] + n
  <2>1. Shares(b) BY <1>1 DEF Shares
  <2>2. Changed(b, f, n, c) BY <1>3, <2>1, TokensChange
  <2> HIDE DEF c
  <2> QED BY <2>2 DEF Changed, Shares
<1>5. c[f] = n /\ \A g \in Cbt_file \ {f} : c[g] = b[g] OBVIOUS
<1> HIDE DEF c
<1>6. \A g \in Cbt_file : backed(g, u, side, c[g])'
  <2> TAKE g \in Cbt_file
  <2>1. CASE g = f BY <1>2, <1>5, <2>1
  <2>2. CASE g # f
    <3>1. g \in Cbt_file \ {f} /\ c[g] = b[g] /\ b[g] \in Nat /\ backed(g, u, side, b[g]) BY <1>1, <1>5, <2>2
    <3>2. backed(g, u, side, b[g])' BY <1>a, <3>1
    <3> QED BY <3>1, <3>2
  <2> QED BY <2>1, <2>2
<1>7. Cardinality(Tokens(b)) \in Nat BY <1>1, FS_CardinalityType
<1>8. /\ part(credit(u), side) \in Nat /\ part(credit(u)', side) \in Nat
      /\ part(moved[u], side) \in Nat
  BY DEF Bytes, part
<1>9. Cardinality(Tokens(c)) + part(credit(u)', side) <= part(moved'[u], side)
  <2>1. n = b[f] - d + m BY DEF n
  <2> QED BY <1>1, <1>2, <1>4, <1>7, <1>8, <2>1
<1> QED BY <1>4, <1>6, <1>9 DEF Covered

\* The types a line needs.
LEMMA LinesTyped ==
  ASSUME TypeOKClients, NEW f \in Cbt_file
  PROVE  flight[f] \in Seq(Announced) /\ client[f] \in Clients
BY DEF TypeOKClients, Clients

-----------------------------------------------------------------------------
(* The tracker's own steps.                                                *)

LEMMA LastForgotten ==
  ASSUME PeersOnlyGo, NEW f \in Cbt_file
  PROVE  last(f)' = last(f) \/ last(f)' = Nobody
<1>1. CASE f[2] \in DOMAIN torrents' /\ f[1] \in DOMAIN torrents'[f[2]].peers
  <2>1. /\ f[2] \in DOMAIN torrents /\ f[1] \in DOMAIN torrents[f[2]].peers
        /\ torrents'[f[2]].peers[f[1]] = torrents[f[2]].peers[f[1]]
    BY <1>1 DEF PeersOnlyGo
  <2> QED BY <1>1, <2>1 DEF last
<1>2. CASE ~(f[2] \in DOMAIN torrents' /\ f[1] \in DOMAIN torrents'[f[2]].peers)
  BY <1>2 DEF last
<1> QED BY <1>1, <1>2

LEMMA PassesNamed ==
  ASSUME "none" \notin DOMAIN passes, Housekeeping \/ start \/ stop \/ crash \/ tick
  PROVE  "none" \notin DOMAIN passes'
<1>1. \A old, rows : \A m \in pass_maps(old, rows) : "none" \notin DOMAIN m BY DEF pass_maps
<1>2. CASE Housekeeping
  BY <1>1, <1>2 DEF Housekeeping, clean_up, read_config, read_db_torrents, read_db_users, write_db_torrents,
                    write_db_users, memory
<1>3. CASE start
  <2>1. passes' \in pass_maps(Empty, dbUsers) \/ passes' = Empty BY <1>3 DEF start
  <2> QED BY <1>1, <2>1 DEF Empty
<1>4. CASE stop \/ crash BY <1>4 DEF stop, crash, forget, Empty
<1>5. CASE tick BY <1>5 DEF tick, memory
<1> QED BY <1>2, <1>3, <1>4, <1>5

\* Nothing the tracker does by itself credits a byte that was not owed.
LEMMA QuietCredits ==
  ASSUME Good, DOMAIN dbUsers = Uid, AccountsAgree, Housekeeping \/ start \/ stop \/ crash \/ tick
  PROVE  DOMAIN dbUsers' = Uid /\ AccountsAgree' /\ \A u \in Uid : AtMost(credit(u)', credit(u))
<1>1. \A u \in Uid : credit(u) \in Bytes BY CreditIsBytes
<1>2. faults \in Nat BY BoundsAssumption DEF Good, ProcessOK
<1>3. \A c : Count(c) \in Nat BY DEF Count
<1>4. ASSUME UNCHANGED <<dbUsers, dbPeers, owedPeers, owedUsers>>, faults' = 0 => faults = 0
      PROVE  DOMAIN dbUsers' = Uid /\ AccountsAgree' /\ \A u \in Uid : AtMost(credit(u)', credit(u))
  <2>1. AccountsAgree' /\ \A u : credit(u)' = credit(u) BY <1>4, QuietAccounts
  <2> QED BY <1>1, <1>4, <2>1, AtMostReflexive
<1>5. CASE clean_up \/ read_config \/ read_db_users \/ tick
  BY <1>4, <1>5 DEF clean_up, read_config, read_db_users, tick, owed, db
<1>6. CASE read_db_torrents
  <2>1. faults' = faults \/ faults' = faults + 1 BY <1>6 DEF read_db_torrents
  <2>2. faults' = 0 => faults = 0 BY <1>2, <2>1
  <2> QED BY <1>4, <1>6, <2>2 DEF read_db_torrents, owed
<1>7. ASSUME NEW done, NEW lost, NEW ids, store_torrents(done, lost, ids) PROVE faults' = 0 => faults = 0
  <2>1. \E c : faults' = faults + Count(c) BY <1>7 DEF store_torrents
  <2> QED BY <1>2, <1>3, <2>1
<1>8. CASE write_db_torrents
  <2>1. faults' = 0 => faults = 0 BY <1>7, <1>8 DEF write_db_torrents
  <2> QED BY <1>4, <1>8, <2>1 DEF write_db_torrents, owed
<1>9. CASE start
  <2>1. \E c, e : faults' = faults + Count(c) + Count(e) BY <1>9 DEF start
  <2>2. faults' = 0 => faults = 0 BY <1>2, <1>3, <2>1
  <2> QED BY <1>4, <1>9, <2>2 DEF start, owed
<1>10. CASE write_db_users
  <2>1. flush_db_users(owedPeers, owedUsers) BY <1>10 DEF write_db_users
  <2>2. IsMap(owedPeers, Tid \X Uid, Bytes) /\ IsMap(owedUsers, Uid, Bytes) BY DEF Good, OwedOK
  <2>3. /\ DOMAIN dbUsers' = Uid
        /\ \A u \in Uid : AtMost(credit(u)', Plus(dbUsers[u].bytes, Get(owedUsers, u)))
        /\ faults' = 0 =>
             /\ faults = 0
             /\ \A u \in Uid :
                  /\ credit(u)' = Plus(dbUsers[u].bytes, Get(owedUsers, u))
                  /\ Plus(rows_of(dbPeers, u), rows_of(owedPeers, u))'
                       = Plus(rows_of(dbPeers, u), rows_of(owedPeers, u))
    BY <2>1, <2>2, FlushAccounts
  <2> QED BY <2>3 DEF AccountsAgree, credit
<1>11. CASE stop
  <2>1. /\ dbPeers' = Upsert(dbPeers, owedPeers) /\ dbUsers' = credit_users(dbUsers, owedUsers)
        /\ owedPeers' = Empty /\ owedUsers' = Empty
    BY <1>11 DEF stop, forget
  <2>2. faults' = 0 => faults = 0 BY <1>7, <1>11 DEF stop
  <2>3. /\ IsMap(owedPeers, Tid \X Uid, Bytes) /\ IsMap(owedUsers, Uid, Bytes)
        /\ IsMap(dbPeers, Tid \X Uid, Bytes) /\ IsMap(dbUsers, Uid, AccountRow)
    BY DEF Good, OwedOK, AccountsOK
  <2>4. DOMAIN dbUsers' = Uid BY <2>1, <2>3, CreditedRows
  <2>5. ASSUME NEW u \in Uid PROVE credit(u)' = credit(u)
    <3>1. dbUsers'[u].bytes = credit(u) BY <2>1, <2>3, CreditedRows DEF credit
    <3>2. Get(owedUsers', u) = NoBytes BY <2>1 DEF Get, Empty
    <3>3. credit(u)' = Plus(dbUsers'[u].bytes, Get(owedUsers', u)) BY DEF credit
    <3> QED BY <1>1, <3>1, <3>2, <3>3, BytesAdd
  <2>6. ASSUME NEW u \in Uid
        PROVE  Plus(rows_of(dbPeers, u), rows_of(owedPeers, u))' = Plus(rows_of(dbPeers, u), rows_of(owedPeers, u))
    <3>1. /\ rows_of(dbPeers, u) \in Bytes /\ rows_of(owedPeers, u) \in Bytes
          /\ rows_of(dbPeers', u) = Plus(rows_of(dbPeers, u), rows_of(owedPeers, u))
      BY <2>1, <2>3, SumOfUpsert
    <3>2. rows_of(owedPeers', u) = NoBytes BY <2>1, SumOfNone
    <3>3. rows_of(dbPeers', u) \in Bytes BY <3>1, BytesAdd
    <3> QED BY <3>1, <3>2, <3>3, BytesAdd
  <2>7. AccountsAgree' BY <2>2, <2>4, <2>5, <2>6 DEF AccountsAgree
  <2> QED BY <1>1, <2>4, <2>5, <2>7, AtMostReflexive
<1>12. CASE crash
  <2>1. dbUsers' = dbUsers /\ owedUsers' = Empty /\ faults' = faults + 1 BY <1>12 DEF crash, db, forget
  <2>2. AccountsAgree' BY <1>2, <2>1 DEF AccountsAgree
  <2>3. ASSUME NEW u \in Uid PROVE AtMost(credit(u)', credit(u))
    <3>1. Get(owedUsers', u) = NoBytes BY <2>1 DEF Get, Empty
    <3>2. dbUsers[u].bytes \in Bytes /\ Get(owedUsers, u) \in Bytes BY CreditIsBytes
    <3>3. credit(u)' = dbUsers[u].bytes
      <4>1. credit(u)' = Plus(dbUsers[u].bytes, NoBytes) BY <2>1, <3>1 DEF credit
      <4> QED BY <3>2, <4>1, BytesAdd
    <3> QED BY <3>2, <3>3 DEF credit, AtMost, Plus, Bytes
  <2> QED BY <2>1, <2>2, <2>3
<1> QED BY <1>5, <1>6, <1>8, <1>9, <1>10, <1>11, <1>12 DEF Housekeeping

LEMMA QuietHonest ==
  ASSUME Honest, Housekeeping \/ start \/ stop \/ crash \/ tick, UNCHANGED clientVars
  PROVE  Honest'
<1>1. Good'
  <2>1. Good /\ [Next]_vars BY DEF Honest, Next
  <2> QED BY <2>1, NextKeepsGood
<1>2. client' = client /\ flight' = flight /\ moved' = moved BY DEF clientVars
<1>3. TypeOKClients' BY <1>2 DEF Honest, TypeOKClients
<1>4. "none" \notin DOMAIN passes' BY PassesNamed DEF Honest
<1>5. DOMAIN dbUsers' = Uid /\ AccountsAgree' /\ \A u \in Uid : AtMost(credit(u)', credit(u))
  BY QuietCredits DEF Honest
<1>6. PeersOnlyGo BY QuietPeers DEF Honest
<1>7. ASSUME NEW u \in Uid, NEW side \in Side PROVE Covered(u, side)'
  <2>1. ASSUME NEW f \in Cbt_file, NEW b \in Nat, backed(f, u, side, b) PROVE backed(f, u, side, b)'
    <3>1. last(f)' = last(f) \/ last(f)'.uid = 0 BY <1>6, LastForgotten DEF Nobody
    <3>2. last(f) \in Counted BY LastCounted DEF Honest
    <3>3. flight[f] \in Seq(Announced) /\ client[f] \in Clients BY LinesTyped DEF Honest
    <3>4. Backed(last(f), flight[f], client[f], u, side, b) BY <2>1 DEF backed
    <3>5. Backed(last(f)', flight[f], client[f], u, side, b) BY <3>1, <3>2, <3>3, <3>4, ForgetBacked
    <3> QED BY <1>2, <3>5 DEF backed
  <2>2. credit(u) \in Bytes BY CreditIsBytes DEF Honest
  <2>3. credit(u)' \in Bytes
    BY <1>1, <1>5, CreditIsBytesNext
  <2>4. moved[u] \in Bytes /\ moved'[u] = moved[u] BY <1>2 DEF Honest, TypeOKClients
  <2>5. Covered(u, side) BY DEF Honest
  <2> QED BY <1>5, <2>1, <2>2, <2>3, <2>4, <2>5, KeepCovered
<1> QED BY <1>1, <1>3, <1>4, <1>5, <1>7 DEF Honest

-----------------------------------------------------------------------------
(* The clients' steps.                                                     *)

\* While the tracker stands still it is enough to look at the lines.
LEMMA ClientHonest ==
  ASSUME Honest, UNCHANGED vars, TypeOKClients', \A u \in Uid, side \in Side : Covered(u, side)'
  PROVE  Honest'
<1>1. Good'
  <2>1. Good /\ [Next]_vars BY DEF Honest
  <2> QED BY <2>1, NextKeepsGood
<1>2. UNCHANGED <<dbUsers, dbPeers, owedPeers, owedUsers, passes, faults>> BY DEF vars, memory, owed, db
<1>3. AccountsAgree'
  <2>1. AccountsAgree BY DEF Honest
  <2> QED BY <1>2, <2>1, QuietAccounts
<1> QED BY <1>1, <1>2, <1>3 DEF Honest

LEMMA StillTracker ==
  ASSUME UNCHANGED vars
  PROVE  (\A f : last(f)' = last(f)) /\ (\A u : credit(u)' = credit(u))
BY DEF vars, memory, owed, db, last, credit

\* Lines that stay covered by their shares.
LEMMA LinesHonest ==
  ASSUME Honest, UNCHANGED <<vars, moved>>, TypeOKClients',
         \A f \in Cbt_file : \A u \in Uid, side \in Side, b \in Nat :
           Backed(last(f), flight[f], client[f], u, side, b)
             => Backed(last(f), flight'[f], client'[f], u, side, b)
  PROVE  Honest'
<1>1. ASSUME NEW u \in Uid, NEW side \in Side PROVE Covered(u, side)'
  <2>1. ASSUME NEW f \in Cbt_file, NEW b \in Nat, backed(f, u, side, b) PROVE backed(f, u, side, b)'
    <3>1. Backed(last(f), flight'[f], client'[f], u, side, b) BY <2>1 DEF backed
    <3>2. last(f)' = last(f) BY StillTracker
    <3> QED BY <3>1, <3>2 DEF backed
  <2>2. credit(u) \in Bytes /\ credit(u)' = credit(u) BY CreditIsBytes, StillTracker DEF Honest
  <2>3. AtMost(credit(u)', credit(u)) BY <2>2, AtMostReflexive
  <2>4. moved[u] \in Bytes /\ moved'[u] = moved[u] BY DEF Honest, TypeOKClients
  <2>5. Covered(u, side) BY DEF Honest
  <2>6. credit(u)' \in Bytes BY <2>2
  <2> QED BY <2>1, <2>2, <2>3, <2>4, <2>5, <2>6, KeepCovered
<1> QED BY <1>1, ClientHonest

LEMMA AnnounceIs ==
  ASSUME TypeOKClients, NEW f \in Cbt_file, NEW event \in Event
  PROVE  /\ announce_of(f, event) \in Announced /\ report(announce_of(f, event)) = client[f]
         /\ <<announce_of(f, event).in.peer_id, announce_of(f, event).in.info_hash>> = f
<1>1. client[f] \in Clients BY LinesTyped
<1>2. f[1] \in PeerId /\ f[2] \in Hash /\ f = <<f[1], f[2]>> BY DEF Cbt_file
<1>3. announce_of(f, event) \in Announced BY <1>1, <1>2 DEF announce_of, Announced, Input, Clients
<1>4. report(announce_of(f, event)) = client[f] BY <1>1 DEF report, announce_of, Clients
<1> QED BY <1>2, <1>3, <1>4 DEF announce_of

\* Types, where one Cbt_file appends its announce.
LEMMA AppendTyped ==
  ASSUME TypeOKClients, NEW f \in Cbt_file, NEW event \in Event, Len(flight[f]) < MaxInFlight,
         flight' = [flight EXCEPT ![f] = Append(@, announce_of(f, event))],
         client' \in [Cbt_file -> Clients], moved' = moved
  PROVE  TypeOKClients'
<1> DEFINE a == announce_of(f, event)
<1>1. a \in Announced /\ <<a.in.peer_id, a.in.info_hash>> = f BY AnnounceIs
<1>2. flight[f] \in Seq(Announced) BY LinesTyped
<1> HIDE DEF a
<1>3. /\ Append(flight[f], a) \in Seq(Announced) /\ Len(Append(flight[f], a)) = Len(flight[f]) + 1
      /\ Len(flight[f]) \in Nat
      /\ \A i \in 1..(Len(flight[f]) + 1) :
           Append(flight[f], a)[i] = IF i <= Len(flight[f]) THEN flight[f][i] ELSE a
  BY <1>1, <1>2
<1>4. flight' = [flight EXCEPT ![f] = Append(flight[f], a)] BY DEF a
<1>5. flight \in [Cbt_file -> Seq(Announced)] BY DEF TypeOKClients
<1>6. flight' \in [Cbt_file -> Seq(Announced)] BY <1>3, <1>4, <1>5
<1>7. ASSUME NEW g \in Cbt_file
      PROVE  /\ Len(flight'[g]) <= MaxInFlight
             /\ \A i \in 1..Len(flight'[g]) : <<flight'[g][i].in.peer_id, flight'[g][i].in.info_hash>> = g
  <2>1. CASE g # f
    <3>1. flight'[g] = flight[g] BY <1>4, <1>5, <2>1
    <3> QED BY <3>1 DEF TypeOKClients
  <2>2. CASE g = f
    <3>1. flight'[g] = Append(flight[f], a) BY <1>4, <1>5, <2>2
    <3>2. Len(flight'[g]) <= MaxInFlight BY <1>3, <3>1, ClientBoundsAssumption
    <3>3. ASSUME NEW i \in 1..Len(flight'[g])
          PROVE  <<flight'[g][i].in.peer_id, flight'[g][i].in.info_hash>> = g
      <4>1. CASE i <= Len(flight[f])
        <5>1. i \in 1..Len(flight[f]) /\ flight'[g][i] = flight[f][i] BY <1>3, <3>1, <4>1
        <5> QED BY <2>2, <5>1 DEF TypeOKClients
      <4>2. CASE ~(i <= Len(flight[f]))
        <5>1. flight'[g][i] = a BY <1>3, <3>1, <4>2
        <5> QED BY <1>1, <2>2, <5>1
      <4> QED BY <4>1, <4>2
    <3> QED BY <3>2, <3>3
  <2> QED BY <2>1, <2>2
<1>8. moved' \in [Uid -> Bytes] BY DEF TypeOKClients
<1> QED BY <1>6, <1>7, <1>8 DEF TypeOKClients, Clients

LEMMA SendHonest == ASSUME Honest, NEW f \in Cbt_file, send(f) PROVE Honest'
<1> DEFINE a == announce_of(f, "none")
<1>1. "none" \in Event BY DEF Event
<1>2. a \in Announced /\ report(a) = client[f] BY <1>1, AnnounceIs DEF Honest
<1> HIDE DEF a
<1>3. flight' = [flight EXCEPT ![f] = Append(flight[f], a)] /\ client' = client /\ UNCHANGED <<vars, moved>>
  BY DEF send, a
<1>4. client \in [Cbt_file -> Clients] BY DEF Honest, TypeOKClients, Clients
<1>5. TypeOKClients' BY <1>1, <1>3, <1>4, AppendTyped DEF Honest, send
<1>6. ASSUME NEW g \in Cbt_file, NEW u \in Uid, NEW side \in Side, NEW b \in Nat,
             Backed(last(g), flight[g], client[g], u, side, b)
      PROVE  Backed(last(g), flight'[g], client'[g], u, side, b)
  <2>1. flight \in [Cbt_file -> Seq(Announced)] BY DEF Honest, TypeOKClients
  <2>2. CASE g # f BY <1>3, <1>6, <2>1, <2>2
  <2>3. CASE g = f
    <3>1. flight'[g] = Append(flight[f], a) /\ client'[g] = client[f] BY <1>3, <2>1, <2>3
    <3>2. last(f) \in Counted BY LastCounted DEF Honest
    <3>3. flight[f] \in Seq(Announced) /\ client[f] \in Clients BY LinesTyped DEF Honest
    <3>4. gain(client[f], client[f], u, side) = 0
      <4>1. client[f].downloaded \in Nat /\ client[f].uploaded \in Nat BY <3>3, BoundsAssumption DEF Clients
      <4> QED BY <4>1 DEF gain, went_on, part
    <3>5. Backed(last(f), Append(flight[f], a), client[f], u, side, b) BY <1>2, <1>6, <2>3, <3>2, <3>3, <3>4, SendBacked
    <3> QED BY <2>3, <3>1, <3>5
  <2> QED BY <2>2, <2>3
<1> QED BY <1>3, <1>5, <1>6, LinesHonest

LEMMA CloseHonest == ASSUME Honest, NEW f \in Cbt_file, NEW next \in Uid, close(f, next) PROVE Honest'
<1> DEFINE a == announce_of(f, "stopped")
<1>1. "stopped" \in Event BY DEF Event
<1>2. a \in Announced /\ report(a) = client[f] BY <1>1, AnnounceIs DEF Honest
<1> HIDE DEF a
<1>3. /\ flight' = [flight EXCEPT ![f] = Append(flight[f], a)]
      /\ client' = [client EXCEPT ![f] = Session(next)] /\ UNCHANGED <<vars, moved>>
  BY DEF close, a
<1>4. client \in [Cbt_file -> Clients] /\ Session(next) \in Clients
  BY BoundsAssumption DEF Honest, TypeOKClients, Clients, Session
<1>5. client' \in [Cbt_file -> Clients] BY <1>3, <1>4
<1>6. TypeOKClients' BY <1>1, <1>3, <1>5, AppendTyped DEF Honest, close
<1>7. ASSUME NEW g \in Cbt_file, NEW u \in Uid, NEW side \in Side, NEW b \in Nat,
             Backed(last(g), flight[g], client[g], u, side, b)
      PROVE  Backed(last(g), flight'[g], client'[g], u, side, b)
  <2>1. flight \in [Cbt_file -> Seq(Announced)] BY DEF Honest, TypeOKClients
  <2>2. CASE g # f BY <1>3, <1>4, <1>7, <2>1, <2>2
  <2>3. CASE g = f
    <3>1. flight'[g] = Append(flight[f], a) /\ client'[g] = Session(next) BY <1>3, <1>4, <2>1, <2>3
    <3>2. last(f) \in Counted BY LastCounted DEF Honest
    <3>3. flight[f] \in Seq(Announced) /\ client[f] \in Clients BY LinesTyped DEF Honest
    <3>4. client[f] \in Counted BY <3>3, ReportCounted
    <3>5. gain(client[f], Session(next), u, side) = 0 BY <3>4, SessionGains
    <3>6. Backed(last(f), Append(flight[f], a), Session(next), u, side, b)
      BY <1>2, <1>4, <1>7, <2>3, <3>2, <3>3, <3>5, SendBacked
    <3> QED BY <2>3, <3>1, <3>6
  <2> QED BY <2>2, <2>3
<1> QED BY <1>3, <1>6, <1>7, LinesHonest

LEMMA DieHonest == ASSUME Honest, NEW p \in PeerId, NEW next \in [Hash -> Uid], die(p, next) PROVE Honest'
<1>1. /\ client' = [f \in Cbt_file |-> IF f[1] = p THEN Session(next[f[2]]) ELSE client[f]]
      /\ flight' = flight /\ UNCHANGED <<vars, moved>>
  BY DEF die
<1>2. \A f \in Cbt_file : next[f[2]] \in Uid BY DEF Cbt_file
<1>3. \A u \in Uid : Session(u) \in Clients BY BoundsAssumption DEF Session, Clients
<1>4. \A f \in Cbt_file : client[f] \in Clients BY LinesTyped DEF Honest
<1>5. client' \in [Cbt_file -> Clients] BY <1>1, <1>2, <1>3, <1>4
<1>6. TypeOKClients' BY <1>1, <1>5 DEF Honest, TypeOKClients, Clients
<1>7. ASSUME NEW f \in Cbt_file, NEW u \in Uid, NEW side \in Side, NEW b \in Nat,
             Backed(last(f), flight[f], client[f], u, side, b)
      PROVE  Backed(last(f), flight'[f], client'[f], u, side, b)
  <2>1. CASE f[1] # p BY <1>1, <1>7, <2>1
  <2>2. CASE f[1] = p
    <3> DEFINE e == Session(next[f[2]])
    <3>1. client'[f] = e /\ flight'[f] = flight[f] BY <1>1, <2>2
    <3>2. last(f) \in Counted BY LastCounted DEF Honest
    <3>3. flight[f] \in Seq(Announced) /\ client[f] \in Clients BY LinesTyped DEF Honest
    <3>4. e \in Clients BY <1>2, <1>3
    <3>5. \A x \in Counted : gain(x, e, u, side) <= gain(x, client[f], u, side) + 0
      <4> TAKE x \in Counted
      <4>1. gain(x, e, u, side) = 0 BY <1>2, SessionGains
      <4>2. gain(x, client[f], u, side) \in Nat BY <3>3, ReportCounted, GainNat
      <4> QED BY <4>1, <4>2
    <3> HIDE DEF e
    <3>6. Backed(last(f), flight[f], e, u, side, b + 0) BY <1>7, <3>2, <3>3, <3>4, <3>5, CountBacked
    <3>7. b + 0 = b OBVIOUS
    <3> QED BY <3>1, <3>6, <3>7
  <2> QED BY <2>1, <2>2
<1> QED BY <1>1, <1>6, <1>7, LinesHonest

\* Types, where the first announce of one Cbt_file is gone.
LEMMA TailTyped ==
  ASSUME TypeOKClients, NEW f \in Cbt_file, flight[f] # <<>>,
         flight' = [flight EXCEPT ![f] = Tail(@)], client' = client, moved' = moved
  PROVE  TypeOKClients' /\ \A g \in Cbt_file : flight'[g] = IF g = f THEN Tail(flight[f]) ELSE flight[g]
<1>1. flight \in [Cbt_file -> Seq(Announced)] BY DEF TypeOKClients
<1>2. flight[f] \in Seq(Announced) BY <1>1
<1>3. /\ Tail(flight[f]) \in Seq(Announced) /\ Len(Tail(flight[f])) = Len(flight[f]) - 1
      /\ Len(flight[f]) \in Nat /\ Len(flight[f]) >= 1
      /\ \A i \in 1..(Len(flight[f]) - 1) : Tail(flight[f])[i] = flight[f][i + 1]
  BY <1>2
<1>4. \A g \in Cbt_file : flight'[g] = IF g = f THEN Tail(flight[f]) ELSE flight[g] BY <1>1
<1>5. flight' \in [Cbt_file -> Seq(Announced)] BY <1>1, <1>3
<1>6. ASSUME NEW g \in Cbt_file
      PROVE  /\ Len(flight'[g]) <= MaxInFlight
             /\ \A i \in 1..Len(flight'[g]) : <<flight'[g][i].in.peer_id, flight'[g][i].in.info_hash>> = g
  <2>1. CASE g # f BY <1>4, <2>1 DEF TypeOKClients
  <2>2. CASE g = f
    <3>1. flight'[g] = Tail(flight[f]) BY <1>4, <2>2
    <3>2. Len(flight[f]) <= MaxInFlight
          /\ \A i \in 1..Len(flight[f]) : <<flight[f][i].in.peer_id, flight[f][i].in.info_hash>> = f
      BY DEF TypeOKClients
    <3> DEFINE k == Len(flight[f])
               j == Len(flight'[g])
    <3>5. k \in Nat /\ k <= MaxInFlight /\ j = k - 1 BY <1>3, <3>1, <3>2
    <3>6. \A i \in 1..(k - 1) : flight'[g][i] = flight[f][i + 1] BY <1>3, <3>1
    <3> HIDE DEF k, j
    <3>3. j <= MaxInFlight BY <3>5, ClientBoundsAssumption
    <3>4. ASSUME NEW i \in 1..Len(flight'[g])
          PROVE  <<flight'[g][i].in.peer_id, flight'[g][i].in.info_hash>> = g
      <4>1. i \in 1..(k - 1) /\ i + 1 \in 1..k
        <5>1. i \in 1..j BY <3>4 DEF j
        <5> QED BY <3>5, <5>1
      <4>2. flight'[g][i] = flight[f][i + 1] BY <3>6, <4>1
      <4>3. i + 1 \in 1..Len(flight[f]) BY <4>1 DEF k
      <4> QED BY <2>2, <3>2, <4>2, <4>3
    <3> QED BY <3>3, <3>4 DEF j
  <2> QED BY <2>1, <2>2
<1> QED BY <1>4, <1>5, <1>6 DEF TypeOKClients

\* An announce is dropped, and the tracker does nothing.
LEMMA DropHonest ==
  ASSUME Honest, NEW f \in Cbt_file, flight[f] # <<>>, flight' = [flight EXCEPT ![f] = Tail(@)],
         UNCHANGED <<vars, client, moved>>
  PROVE  Honest'
<1>1. /\ TypeOKClients'
      /\ \A g \in Cbt_file : flight'[g] = IF g = f THEN Tail(flight[f]) ELSE flight[g]
  BY TailTyped DEF Honest
<1>2. ASSUME NEW g \in Cbt_file, NEW u \in Uid, NEW side \in Side, NEW b \in Nat,
             Backed(last(g), flight[g], client[g], u, side, b)
      PROVE  Backed(last(g), flight'[g], client'[g], u, side, b)
  <2>1. CASE g # f BY <1>1, <1>2, <2>1
  <2>2. CASE g = f
    <3>1. last(f) \in Counted BY LastCounted DEF Honest
    <3>2. flight[f] \in Seq(Announced) /\ client[f] \in Clients BY LinesTyped DEF Honest
    <3>3. Backed(last(f), Tail(flight[f]), client[f], u, side, b) BY <1>2, <2>2, <3>1, <3>2, LoseBacked
    <3> QED BY <1>1, <2>2, <3>3
  <2> QED BY <2>1, <2>2
<1> QED BY <1>1, <1>2, LinesHonest

LEMMA MoveHonest == ASSUME Honest, NEW f \in Cbt_file, NEW n \in Block, move(f, n) PROVE Honest'
<1> DEFINE v == client[f].uid
           c == Plus(client[f], n)
           e == [uid |-> v, downloaded |-> c.downloaded, uploaded |-> c.uploaded]
<1>1. n \in Bytes BY ClientBoundsAssumption
<1>2. flight[f] \in Seq(Announced) /\ client[f] \in Clients BY LinesTyped DEF Honest
<1>3. /\ c.downloaded <= MaxBytes /\ c.uploaded <= MaxBytes
      /\ moved' = [moved EXCEPT ![v] = Plus(moved[v], n)]
      /\ client' = [client EXCEPT ![f] = e] /\ flight' = flight /\ UNCHANGED vars
  BY DEF move
<1>4. c.downloaded = client[f].downloaded + n.downloaded /\ c.uploaded = client[f].uploaded + n.uploaded
  BY DEF Plus
<1>5. v \in Uid /\ client[f].downloaded \in Nat /\ client[f].uploaded \in Nat /\ n.downloaded \in Nat /\ n.uploaded \in Nat
  BY <1>1, <1>2, BoundsAssumption DEF Clients, Bytes
<1>6. e \in Clients /\ e = [uid |-> client[f].uid, downloaded |-> client[f].downloaded + n.downloaded,
                            uploaded |-> client[f].uploaded + n.uploaded]
  BY <1>3, <1>4, <1>5, BoundsAssumption DEF Clients
<1>7. client \in [Cbt_file -> Clients] /\ moved \in [Uid -> Bytes] BY DEF Honest, TypeOKClients, Clients
<1> HIDE DEF c, e, v
<1>8. client' \in [Cbt_file -> Clients] /\ client'[f] = e /\ \A g \in Cbt_file : g # f => client'[g] = client[g]
  BY <1>3, <1>6, <1>7
<1>9. /\ moved' \in [Uid -> Bytes] /\ moved'[v] = Plus(moved[v], n)
      /\ \A u \in Uid : u # v => moved'[u] = moved[u]
  <2>1. Plus(moved[v], n) \in Bytes BY <1>1, <1>5, <1>7, BytesAdd
  <2> QED BY <1>3, <1>5, <1>7, <2>1
<1>10. TypeOKClients' BY <1>3, <1>8, <1>9 DEF Honest, TypeOKClients, Clients
<1>11. ASSUME NEW u \in Uid, NEW side \in Side PROVE Covered(u, side)'
  <2>11. (IF v = u THEN part(n, side) ELSE 0) \in Nat BY <1>5 DEF part
  <2>1. PICK m \in Nat : m = IF v = u THEN part(n, side) ELSE 0 BY <2>11
  <2>2. \A x \in Counted : gain(x, e, u, side) <= gain(x, client[f], u, side) + m
    BY <1>1, <1>2, <1>6, <2>1, CountGains DEF v
  <2>3. part(moved'[u], side) = part(moved[u], side) + m
    <3>1. CASE u = v
      <4>1. moved'[u] = Plus(moved[u], n) BY <1>9, <3>1
      <4>2. part(Plus(moved[u], n), side) = part(moved[u], side) + part(n, side) BY DEF part, Plus
      <4> QED BY <2>1, <3>1, <4>1, <4>2
    <3>2. CASE u # v
      <4>1. part(moved[u], side) \in Nat BY <1>7 DEF part, Bytes
      <4> QED BY <1>9, <2>1, <3>2, <4>1
    <3> QED BY <3>1, <3>2
  <2>4. /\ \A g \in Cbt_file : last(g)' = last(g) /\ flight'[g] = flight[g]
        /\ credit(u)' = credit(u)
    BY <1>3, StillTracker
  <2>0. PICK z \in Nat : z = 0 OBVIOUS
  <2>5. ASSUME NEW b \in Nat, backed(f, u, side, b)
        PROVE  b - z \in Nat /\ backed(f, u, side, b - z + m)'
    <3>1. last(f) \in Counted BY LastCounted DEF Honest
    <3>2. Backed(last(f), flight[f], client[f], u, side, b) BY <2>5 DEF backed
    <3>3. Backed(last(f), flight[f], e, u, side, b + m) BY <1>2, <1>6, <2>1, <2>2, <3>1, <3>2, CountBacked
    <3>4. b - z = b /\ b - z + m = b + m BY <2>0, <2>1
    <3>5. Backed(last(f)', flight'[f], client'[f], u, side, b - z + m) BY <1>8, <2>4, <3>3, <3>4
    <3> QED BY <3>4, <3>5 DEF backed
  <2>6. ASSUME NEW g \in Cbt_file \ {f}, NEW b \in Nat, backed(g, u, side, b)
        PROVE  backed(g, u, side, b)'
    <3>1. client'[g] = client[g] BY <1>8
    <3> QED BY <2>4, <2>6, <3>1 DEF backed
  <2>7. credit(u) \in Bytes BY CreditIsBytes DEF Honest
  <2>8. credit(u)' \in Bytes /\ part(credit(u)', side) <= part(credit(u), side) + z
    BY <2>0, <2>4, <2>7 DEF part, Bytes
  <2>9. Covered(u, side) /\ moved[u] \in Bytes /\ moved'[u] \in Bytes BY <1>7, <1>9 DEF Honest
  <2> QED BY <2>1, <2>3, <2>5, <2>6, <2>7, <2>8, <2>9, ShareCovered
<1> QED BY <1>3, <1>10, <1>11, ClientHonest

-----------------------------------------------------------------------------
(* An announce that reaches the tracker.                                   *)

\* Every other peer is what it was.
LEMMA OthersStay ==
  ASSUME NEW h, NEW p, NEW t,
         torrents' = Put(torrents, h, t),
         h \in DOMAIN torrents => \A q \in DOMAIN torrents[h].peers : q # p => q \in DOMAIN t.peers /\ t.peers[q] = torrents[h].peers[q],
         \A q \in DOMAIN t.peers : q # p => h \in DOMAIN torrents /\ q \in DOMAIN torrents[h].peers,
         NEW g \in Cbt_file, g # <<p, h>>
  PROVE  last(g)' = last(g)
<1>1. g = <<g[1], g[2]>> BY DEF Cbt_file
<1>2. DOMAIN torrents' = DOMAIN torrents \cup {h}
      /\ \A x \in DOMAIN torrents' : torrents'[x] = IF x = h THEN t ELSE torrents[x]
  BY DEF Put
<1>3. CASE g[2] # h
  <2>1. /\ g[2] \in DOMAIN torrents' <=> g[2] \in DOMAIN torrents
        /\ g[2] \in DOMAIN torrents => torrents'[g[2]] = torrents[g[2]]
    BY <1>2, <1>3
  <2> QED BY <2>1 DEF last
<1>4. CASE g[2] = h
  <2>1. g[1] # p BY <1>1, <1>4
  <2>2. torrents'[g[2]] = t /\ g[2] \in DOMAIN torrents' BY <1>2, <1>4
  <2>3. CASE g[1] \in DOMAIN t.peers
    <3>1. g[2] \in DOMAIN torrents /\ g[1] \in DOMAIN torrents[g[2]].peers /\ t.peers[g[1]] = torrents[g[2]].peers[g[1]]
      BY <1>4, <2>1, <2>3
    <3> QED BY <2>2, <2>3, <3>1 DEF last
  <2>4. CASE g[1] \notin DOMAIN t.peers
    <3>1. ~(g[2] \in DOMAIN torrents /\ g[1] \in DOMAIN torrents[g[2]].peers) BY <1>4, <2>1, <2>4
    <3> QED BY <2>2, <2>4, <3>1 DEF last
  <2> QED BY <2>3, <2>4
<1> QED BY <1>3, <1>4

\* What an announce by a user is worth to the tracker.
worth(l, in, u, uid) == IF u = uid /\ l.uid = uid THEN moved_since(l, in) ELSE NoBytes

LEMMA WorthTyped ==
  ASSUME NEW l \in Counted, NEW in \in Input, NEW u, NEW uid
  PROVE  worth(l, in, u, uid) \in Bytes
<1>1. in.downloaded \in Nat /\ in.uploaded \in Nat BY BoundsAssumption DEF Input
<1>2. l.downloaded \in Nat /\ l.uploaded \in Nat BY DEF Counted
<1>3. moved_since(l, in) \in Bytes BY <1>1, <1>2, BytesAdd DEF moved_since, Bytes
<1> QED BY <1>3, BytesAdd DEF worth

LEMMA AnnounceCredits ==
  ASSUME Honest, NEW in \in Input, NEW uid \in DOMAIN users \cup {0}, srv_insert_peer(in, uid),
         NEW f \in Cbt_file, f = <<in.peer_id, in.info_hash>>
  PROVE  /\ DOMAIN dbUsers' = Uid /\ AccountsAgree' /\ passes' = passes
         /\ \A g \in Cbt_file \ {f} : last(g)' = last(g)
         /\ \/ /\ last(f)' = last(f)
               /\ \A u \in Uid : credit(u)' = credit(u)
            \/ /\ \/ last(f)' = Nobody
                  \/ last(f)' = [uid |-> uid, downloaded |-> in.downloaded, uploaded |-> in.uploaded]
               /\ \A u \in Uid : AtMost(credit(u)', Plus(credit(u), worth(last(f), in, u, uid)))
<1> DEFINE h == in.info_hash
           p == in.peer_id
           t == found_torrent(h)
           e == enter(t, in, uid, now)
<1>1. h \in Hash /\ p \in PeerId /\ f[1] = p /\ f[2] = h BY DEF Input
<1>2. GoodTorrent(t) BY <1>1, FoundTorrentGood DEF Honest
<1>3. passes' = passes BY DEF srv_insert_peer
<1>4. /\ h \in DOMAIN torrents => t.peers = torrents[h].peers
      /\ h \notin DOMAIN torrents => DOMAIN t.peers = {}
  BY DEF found_torrent, new_torrent, Empty
<1>5. last(f) = IF p \in DOMAIN t.peers
                THEN [uid |-> t.peers[p].uid, downloaded |-> t.peers[p].downloaded, uploaded |-> t.peers[p].uploaded]
                ELSE Nobody
  BY <1>1, <1>4 DEF last
<1>6. last(f) \in Counted BY LastCounted DEF Honest
<1>7. ASSUME NEW x, torrents' = Put(torrents, h, x)
      PROVE  last(f)' = IF p \in DOMAIN x.peers
                        THEN [uid |-> x.peers[p].uid, downloaded |-> x.peers[p].downloaded, uploaded |-> x.peers[p].uploaded]
                        ELSE Nobody
  <2>1. h \in DOMAIN torrents' /\ torrents'[h] = x BY <1>7 DEF Put
  <2> QED BY <1>1, <2>1 DEF last
<1>8. \/ torrents' = Put(torrents, h, t) /\ UNCHANGED <<owed, dbUsers, dbPeers, faults>>
      \/ /\ torrents' = Put(torrents, h, e)
         /\ IF uid # 0 /\ t.tid # 0 THEN owe(t, in, uid) ELSE UNCHANGED <<owed, dbUsers, dbPeers, faults>>
  BY DEF srv_insert_peer
<1> HIDE DEF t, h, p
<1>9. AccountsAgree /\ DOMAIN dbUsers = Uid /\ Good BY DEF Honest
<1>10. ASSUME UNCHANGED <<owed, dbUsers, dbPeers, faults>>
       PROVE  DOMAIN dbUsers' = Uid /\ AccountsAgree' /\ \A u : credit(u)' = credit(u)
  <2>1. UNCHANGED <<dbUsers, dbPeers, owedPeers, owedUsers>> /\ (faults' = 0 => faults = 0)
    BY <1>10 DEF owed
  <2> QED BY <1>9, <2>1, QuietAccounts
<1>11. CASE torrents' = Put(torrents, h, t) /\ UNCHANGED <<owed, dbUsers, dbPeers, faults>>
  <2>1. last(f)' = last(f) BY <1>5, <1>7, <1>11
  <2>2. \A g \in Cbt_file \ {f} : last(g)' = last(g)
    <3> TAKE g \in Cbt_file \ {f}
    <3>1. g # <<p, h>> BY DEF p, h
    <3> QED BY <1>4, <1>11, <3>1, OthersStay
  <2> QED BY <1>3, <1>10, <1>11, <2>1, <2>2
<1>12. CASE /\ torrents' = Put(torrents, h, e)
            /\ IF uid # 0 /\ t.tid # 0 THEN owe(t, in, uid) ELSE UNCHANGED <<owed, dbUsers, dbPeers, faults>>
  <2> DEFINE entry == [left |-> in.left, uid |-> uid, downloaded |-> in.downloaded,
                       uploaded |-> in.uploaded, mtime |-> now]
  <2>1. e.peers = IF in.event = "stopped" THEN Restrict(t.peers, DOMAIN t.peers \ {p}) ELSE Put(t.peers, p, entry)
    BY DEF enter, p
  <2>2. /\ DOMAIN e.peers = IF in.event = "stopped" THEN DOMAIN t.peers \ {p} ELSE DOMAIN t.peers \cup {p}
        /\ \A q \in DOMAIN e.peers : q # p => e.peers[q] = t.peers[q]
        /\ in.event # "stopped" => e.peers[p] = entry
    BY <2>1 DEF Restrict, Put
  <2> HIDE DEF e
  <2>3. \/ last(f)' = Nobody
        \/ last(f)' = [uid |-> uid, downloaded |-> in.downloaded, uploaded |-> in.uploaded]
    <3>1. last(f)' = IF p \in DOMAIN e.peers
                     THEN [uid |-> e.peers[p].uid, downloaded |-> e.peers[p].downloaded, uploaded |-> e.peers[p].uploaded]
                     ELSE Nobody
      BY <1>7, <1>12
    <3>2. CASE in.event = "stopped"
      <4>1. p \notin DOMAIN e.peers BY <2>2, <3>2
      <4> QED BY <3>1, <4>1
    <3>3. CASE in.event # "stopped"
      <4>1. p \in DOMAIN e.peers /\ e.peers[p] = entry BY <2>2, <3>3
      <4>2. e.peers[p].uid = uid /\ e.peers[p].downloaded = in.downloaded /\ e.peers[p].uploaded = in.uploaded
        BY <4>1
      <4> QED BY <3>1, <4>1, <4>2
    <3> QED BY <3>2, <3>3
  <2>4. \A g \in Cbt_file \ {f} : last(g)' = last(g)
    <3> TAKE g \in Cbt_file \ {f}
    <3>1. g # <<p, h>> BY DEF p, h
    <3>2. h \in DOMAIN torrents =>
            \A q \in DOMAIN torrents[h].peers : q # p => q \in DOMAIN e.peers /\ e.peers[q] = torrents[h].peers[q]
      BY <1>4, <2>2
    <3>3. \A q \in DOMAIN e.peers : q # p => h \in DOMAIN torrents /\ q \in DOMAIN torrents[h].peers
      BY <1>4, <2>2
    <3> QED BY <1>12, <3>1, <3>2, <3>3, OthersStay
  <2>5. CASE uid # 0 /\ t.tid # 0
    <3>1. uid \in Uid BY <1>9, <2>5 DEF Good, UsersGood, UsersOK, IsMap
    <3>2. owe(t, in, uid) BY <1>12, <2>5
    <3>3. /\ DOMAIN dbUsers' = Uid /\ AccountsAgree'
          /\ \A u \in Uid : AtMost(credit(u)', Plus(credit(u), IF u = uid THEN delta(t, in, uid) ELSE NoBytes))
      BY <1>2, <1>9, <2>5, <3>1, <3>2, OweAccounts
    <3>4. delta(t, in, uid) = worth(last(f), in, uid, uid)
      <4>1. delta(t, in, uid) = IF p \in DOMAIN t.peers /\ t.peers[p].uid = uid THEN moved_since(t.peers[p], in) ELSE NoBytes
        BY DEF delta, p
      <4>2. CASE p \in DOMAIN t.peers
        <5>1. last(f).uid = t.peers[p].uid /\ moved_since(last(f), in) = moved_since(t.peers[p], in)
          BY <1>5, <4>2 DEF moved_since
        <5> QED BY <4>1, <4>2, <5>1 DEF worth
      <4>3. CASE p \notin DOMAIN t.peers
        <5>1. last(f).uid # uid BY <1>5, <2>5, <4>3 DEF Nobody
        <5> QED BY <4>1, <4>3, <5>1 DEF worth
      <4> QED BY <4>2, <4>3
    <3>5. \A u \in Uid : worth(last(f), in, u, uid) = IF u = uid THEN delta(t, in, uid) ELSE NoBytes
      BY <3>4 DEF worth
    <3> QED BY <1>3, <2>3, <2>4, <3>3, <3>5
  <2>6. CASE ~(uid # 0 /\ t.tid # 0)
    <3>1. DOMAIN dbUsers' = Uid /\ AccountsAgree' /\ \A u : credit(u)' = credit(u) BY <1>10, <1>12, <2>6
    <3>2. ASSUME NEW u \in Uid PROVE AtMost(credit(u)', Plus(credit(u), worth(last(f), in, u, uid)))
      <4>1. credit(u) \in Bytes /\ worth(last(f), in, u, uid) \in Bytes BY <1>6, <1>9, CreditIsBytes, WorthTyped
      <4>2. \A a, b \in Bytes : AtMost(a, Plus(a, b)) BY DEF AtMost, Plus, Bytes
      <4>3. credit(u)' = credit(u) BY <3>1
      <4>4. AtMost(credit(u), Plus(credit(u), worth(last(f), in, u, uid))) BY <4>1, <4>2
      <4> QED BY <4>3, <4>4
    <3> QED BY <1>3, <2>3, <2>4, <3>1, <3>2
  <2> QED BY <2>5, <2>6
<1> QED BY <1>8, <1>11, <1>12

\* The tracker credits no more than the line still held.
LEMMA WorthGained ==
  ASSUME NEW l \in Counted, NEW a \in Announced, NEW uid, uid = 0 \/ uid = a.uid,
         NEW u \in Uid, NEW side \in Side
  PROVE  part(worth(l, a.in, u, uid), side) <= first_gain(l, report(a), u, side)
<1> DEFINE r == report(a)
<1>1. r \in Counted /\ r.uid = a.uid /\ r.downloaded = a.in.downloaded /\ r.uploaded = a.in.uploaded
  BY ReportCounted DEF report
<1> HIDE DEF r
<1>2. r.downloaded \in Nat /\ r.uploaded \in Nat /\ l.downloaded \in Nat /\ l.uploaded \in Nat BY <1>1 DEF Counted
<1>3. first_gain(l, r, u, side) \in Nat BY <1>1, GainNat
<1>4. part(NoBytes, side) = 0 BY DEF part, NoBytes
<1>5. CASE u = uid /\ l.uid = uid /\ went_on(l, r)
  <2>1. r.uid = u BY <1>1, <1>5, DataAssumption
  <2>2. first_gain(l, r, u, side) = part(r, side) - part(l, side) BY <1>5, <2>1 DEF first_gain, gain
  <2>3. worth(l, a.in, u, uid) = [downloaded |-> r.downloaded - l.downloaded, uploaded |-> r.uploaded - l.uploaded]
    BY <1>1, <1>5 DEF worth, moved_since, went_on
  <2>4. part(worth(l, a.in, u, uid), side) = part(r, side) - part(l, side) BY <2>3 DEF part
  <2>5. part(r, side) - part(l, side) \in Int BY <1>2 DEF part
  <2> QED BY <2>2, <2>4, <2>5 DEF r
<1>6. CASE ~(u = uid /\ l.uid = uid /\ went_on(l, r))
  <2>1. worth(l, a.in, u, uid) = NoBytes BY <1>1, <1>6 DEF worth, moved_since, went_on
  <2> QED BY <1>3, <1>4, <2>1 DEF r
<1> QED BY <1>5, <1>6

LEMMA DeliveredHonest ==
  ASSUME Honest, NEW f \in Cbt_file, flight[f] # <<>>, flight' = [flight EXCEPT ![f] = Tail(@)],
         UNCHANGED <<client, moved>>,
         NEW uid \in DOMAIN users \cup {0}, uid = 0 \/ uid = Head(flight[f]).uid,
         srv_insert_peer(Head(flight[f]).in, uid)
  PROVE  Honest'
<1> DEFINE a == Head(flight[f])
<1>1. flight[f] \in Seq(Announced) /\ client[f] \in Clients BY LinesTyped DEF Honest
<1>2. a \in Announced /\ a = flight[f][1] /\ 1 \in 1..Len(flight[f]) BY <1>1
<1>3. f = <<a.in.peer_id, a.in.info_hash>> BY <1>2 DEF Honest, TypeOKClients
<1>4. a.in \in Input BY <1>2 DEF Announced
<1>5. srv_insert_peer(a.in, uid) /\ (uid = 0 \/ uid = a.uid) OBVIOUS
<1>6. /\ TypeOKClients'
      /\ \A g \in Cbt_file : flight'[g] = IF g = f THEN Tail(flight[f]) ELSE flight[g]
  BY TailTyped DEF Honest
<1> HIDE DEF a
<1>7. Good' BY <1>4, <1>5, AnnounceStep DEF Honest
<1>8. /\ DOMAIN dbUsers' = Uid /\ AccountsAgree' /\ passes' = passes
      /\ \A g \in Cbt_file \ {f} : last(g)' = last(g)
      /\ \/ last(f)' = last(f) /\ \A u \in Uid : credit(u)' = credit(u)
         \/ /\ \/ last(f)' = Nobody
               \/ last(f)' = [uid |-> uid, downloaded |-> a.in.downloaded, uploaded |-> a.in.uploaded]
            /\ \A u \in Uid : AtMost(credit(u)', Plus(credit(u), worth(last(f), a.in, u, uid)))
  BY <1>3, <1>4, <1>5, AnnounceCredits
<1>9. last(f) \in Counted BY LastCounted DEF Honest
<1>10. ASSUME NEW u \in Uid, NEW side \in Side PROVE Covered(u, side)'
  <2>1. credit(u) \in Bytes /\ credit(u)' \in Bytes BY <1>7, <1>8, CreditIsBytes, CreditIsBytesNext DEF Honest
  <2>2. Covered(u, side) /\ moved[u] \in Bytes /\ moved'[u] = moved[u] BY DEF Honest, TypeOKClients
  <2>3. ASSUME NEW g \in Cbt_file \ {f}, NEW b \in Nat, backed(g, u, side, b) PROVE backed(g, u, side, b)'
    <3>1. last(g)' = last(g) /\ flight'[g] = flight[g] /\ client'[g] = client[g] BY <1>6, <1>8
    <3> QED BY <2>3, <3>1 DEF backed
  <2>4. CASE last(f)' = last(f) /\ \A v \in Uid : credit(v)' = credit(v)
    <3>1. ASSUME NEW b \in Nat, backed(f, u, side, b) PROVE backed(f, u, side, b)'
      <4>1. Backed(last(f), flight[f], client[f], u, side, b) BY <3>1 DEF backed
      <4>2. Backed(last(f), Tail(flight[f]), client[f], u, side, b) BY <1>1, <1>9, <4>1, LoseBacked
      <4>3. Backed(last(f)', flight'[f], client'[f], u, side, b) BY <1>6, <2>4, <4>2
      <4> QED BY <4>3 DEF backed
    <3>2. AtMost(credit(u)', credit(u)) BY <2>1, <2>4, AtMostReflexive
    <3>3. \A g \in Cbt_file : \A b \in Nat : backed(g, u, side, b) => backed(g, u, side, b)'
      <4> SUFFICES ASSUME NEW g \in Cbt_file, NEW b \in Nat, backed(g, u, side, b) PROVE backed(g, u, side, b)'
        OBVIOUS
      <4>1. CASE g = f BY <3>1, <4>1
      <4>2. CASE g # f BY <2>3, <4>2
      <4> QED BY <4>1, <4>2
    <3> QED BY <2>1, <2>2, <3>2, <3>3, KeepCovered
  <2>5. CASE /\ \/ last(f)' = Nobody
                \/ last(f)' = [uid |-> uid, downloaded |-> a.in.downloaded, uploaded |-> a.in.uploaded]
             /\ \A v \in Uid : AtMost(credit(v)', Plus(credit(v), worth(last(f), a.in, v, uid)))
    <3>1. worth(last(f), a.in, u, uid) \in Bytes BY <1>4, <1>9, WorthTyped
    <3>2. PICK d \in Nat : d = part(worth(last(f), a.in, u, uid), side) BY <3>1 DEF part, Bytes
    <3>3. d <= first_gain(last(f), report(a), u, side) BY <1>2, <1>5, <1>9, <3>2, WorthGained
    <3>4. part(credit(u)', side) <= part(credit(u), side) + d
      <4>1. AtMost(credit(u)', Plus(credit(u), worth(last(f), a.in, u, uid))) BY <2>5
      <4> QED BY <3>2, <4>1 DEF AtMost, Plus, part
    <3>5. last(f)' \in Counted /\ (last(f)' = report(a) \/ last(f)'.uid = 0)
      <4>1. CASE last(f)' = Nobody BY <4>1, ReportCounted DEF Nobody
      <4>2. CASE last(f)' = [uid |-> uid, downloaded |-> a.in.downloaded, uploaded |-> a.in.uploaded]
        <5>1. CASE uid = a.uid
          <6>1. last(f)' = report(a) BY <4>2, <5>1 DEF report
          <6> QED BY <1>2, <6>1, ReportCounted
        <5>2. CASE uid = 0
          <6>1. a.in.downloaded \in Nat /\ a.in.uploaded \in Nat BY <1>4, BoundsAssumption DEF Input
          <6> QED BY <4>2, <5>2, <6>1 DEF Counted
        <5> QED BY <1>5, <5>1, <5>2
      <4> QED BY <2>5, <4>1, <4>2
    <3>6. PICK z \in Nat : z = 0 OBVIOUS
    <3>7. ASSUME NEW b \in Nat, backed(f, u, side, b)
          PROVE  b - d \in Nat /\ backed(f, u, side, b - d + z)'
      <4>1. Backed(last(f), flight[f], client[f], u, side, b) BY <3>7 DEF backed
      <4>2. b - d \in Nat /\ Backed(last(f)', Tail(flight[f]), client[f], u, side, b - d)
        BY <1>1, <1>9, <3>3, <3>5, <4>1, AcceptBacked DEF a
      <4>3. b - d + z = b - d BY <3>6, <4>2
      <4>4. Backed(last(f)', flight'[f], client'[f], u, side, b - d + z) BY <1>6, <4>2, <4>3
      <4> QED BY <4>2, <4>4 DEF backed
    <3>8. moved'[u] \in Bytes /\ part(moved'[u], side) = part(moved[u], side) + z
      BY <2>2, <3>6 DEF part, Bytes
    <3> QED BY <2>1, <2>2, <2>3, <3>4, <3>7, <3>8, ShareCovered
  <2> QED BY <1>8, <2>4, <2>5
<1> QED BY <1>6, <1>7, <1>8, <1>10 DEF Honest

LEMMA DeliverHonest ==
  ASSUME Honest, NEW f \in Cbt_file, NEW udp \in BOOLEAN, deliver(f, udp)
  PROVE  Honest'
<1> DEFINE a == Head(flight[f])
           uid == IF udp THEN 0 ELSE find_user_by_torrent_pass("none", a.uid, 0)
<1>1. /\ flight[f] # <<>> /\ flight' = [flight EXCEPT ![f] = Tail(@)] /\ UNCHANGED <<client, moved>>
      /\ \/ IF udp THEN announce_udp(a.in) ELSE announce_http(a.in, "none", a.uid, 0)
         \/ UNCHANGED vars
  BY DEF deliver
<1>2. CASE UNCHANGED vars BY <1>1, <1>2, DropHonest
<1>3. CASE IF udp THEN announce_udp(a.in) ELSE announce_http(a.in, "none", a.uid, 0)
  <2>1. uid \in DOMAIN users \cup {0} /\ (uid = 0 \/ uid = a.uid)
    BY DEF find_user_by_torrent_pass, Honest, Good, UsersGood, PassesNameLiveUsers
  <2>2. srv_insert_peer(a.in, uid) BY <1>3 DEF announce_udp, announce_http
  <2> HIDE DEF uid
  <2> QED BY <1>1, <2>1, <2>2, DeliveredHonest
<1> QED BY <1>1, <1>2, <1>3

-----------------------------------------------------------------------------
LEMMA InitHonest == ASSUME InitClients PROVE Honest
<1>1. Good BY InitGood DEF InitClients
<1>2. /\ client \in [Cbt_file -> {Session(u) : u \in Uid}]
      /\ flight = [f \in Cbt_file |-> <<>>] /\ moved = [u \in Uid |-> NoBytes]
  BY DEF InitClients
<1>3. \A u \in Uid : Session(u) \in Clients BY BoundsAssumption DEF Session, Clients
<1>4. client \in [Cbt_file -> Clients] BY <1>2, <1>3
<1>5. TypeOKClients
  <2>1. <<>> \in Seq(Announced) /\ Len(<<>>) = 0 OBVIOUS
  <2>2. \A f \in Cbt_file : flight[f] = <<>> BY <1>2
  <2>3. flight \in [Cbt_file -> Seq(Announced)] BY <1>2, <2>1
  <2>4. \A f \in Cbt_file : Len(flight[f]) <= MaxInFlight /\ 1..Len(flight[f]) = {}
    BY <2>1, <2>2, ClientBoundsAssumption
  <2>5. moved \in [Uid -> Bytes] BY <1>2, BytesAdd
  <2> QED BY <1>4, <2>3, <2>4, <2>5 DEF TypeOKClients, Clients
<1>6. dbPeers = Empty /\ owedPeers = Empty /\ owedUsers = Empty /\ passes = Empty /\ torrents = Empty
  BY DEF InitClients, Init
<1>7. DOMAIN dbUsers = Uid /\ \A u \in Uid : dbUsers[u].bytes = NoBytes
  <2>1. PICK row \in [Uid -> UserRow] : dbUsers = [u \in Uid |-> with_bytes(row[u], NoBytes)]
    BY DEF InitClients, Init
  <2> QED BY <2>1 DEF with_bytes
<1>8. \A u \in Uid : credit(u) = NoBytes
  <2>1. \A u : Get(owedUsers, u) = NoBytes BY <1>6 DEF Get, Empty
  <2>2. Plus(NoBytes, NoBytes) = NoBytes BY BytesAdd
  <2> QED BY <1>7, <2>1, <2>2 DEF credit
<1>9. AccountsAgree
  <2>1. \A u : rows_of(dbPeers, u) = NoBytes /\ rows_of(owedPeers, u) = NoBytes BY <1>6, SumOfNone
  <2>2. Plus(NoBytes, NoBytes) = NoBytes BY BytesAdd
  <2> QED BY <1>7, <1>8, <2>1, <2>2 DEF AccountsAgree
<1>10. ASSUME NEW u \in Uid, NEW side \in Side PROVE Covered(u, side)
  <2> DEFINE b == [f \in Cbt_file |-> 0]
  <2>1. b \in [Cbt_file -> Nat] OBVIOUS
  <2>2. IsFiniteSet(Tokens(b)) /\ Cardinality(Tokens(b)) = 0 BY NoTokens
  <2>3. part(credit(u), side) = 0 /\ part(moved[u], side) = 0 BY <1>2, <1>8 DEF part, NoBytes
  <2>4. ASSUME NEW f \in Cbt_file PROVE backed(f, u, side, 0)
    <3>1. last(f) = Nobody BY <1>6 DEF last, Empty
    <3>2. flight[f] = <<>> /\ Len(<<>>) = 0 /\ client[f] \in Clients BY <1>2, <1>4
    <3>3. u # 0 BY DataAssumption
    <3>4. first_gain(Nobody, line(<<>>, client[f])[1], u, side) = 0 BY <3>3 DEF first_gain, Nobody
    <3>5. Enough(Nobody, line(<<>>, client[f]), 1, u, side, 0)
      <4> DEFINE w == [i \in 1..1 |-> 0]
      <4>1. w \in [1..1 -> Nat] /\ w[1] = 0 OBVIOUS
      <4>2. \A i \in 1..1 : i = 1 OBVIOUS
      <4>3. 0 >= w[1] + first_gain(Nobody, line(<<>>, client[f])[1], u, side) BY <3>4, <4>1
      <4> HIDE DEF w
      <4> QED BY <4>1, <4>2, <4>3 DEF Enough
    <3>6. Len(<<>>) + 1 = 1 BY <3>2
    <3>7. Backed(Nobody, <<>>, client[f], u, side, 0) BY <3>5, <3>6 DEF Backed
    <3> QED BY <3>1, <3>2, <3>7 DEF backed
  <2>5. \A f \in Cbt_file : backed(f, u, side, b[f]) BY <2>4
  <2>6. Cardinality(Tokens(b)) + part(credit(u), side) <= part(moved[u], side) BY <2>2, <2>3
  <2> HIDE DEF b
  <2> QED BY <2>1, <2>2, <2>5, <2>6 DEF Covered
<1> QED BY <1>1, <1>5, <1>6, <1>7, <1>9, <1>10 DEF Honest, Empty

LEMMA NextHonest == Honest /\ [NextClients]_allVars => Honest'
<1> SUFFICES ASSUME Honest, [NextClients]_allVars PROVE Honest' OBVIOUS
<1>1. ASSUME NEW f \in Cbt_file, NEW n \in Block, move(f, n) PROVE Honest' BY <1>1, MoveHonest
<1>2. ASSUME NEW f \in Cbt_file, send(f) PROVE Honest' BY <1>2, SendHonest
<1>3. ASSUME NEW f \in Cbt_file, NEW u \in Uid, close(f, u) PROVE Honest' BY <1>3, CloseHonest
<1>4. ASSUME NEW f \in Cbt_file, NEW udp \in BOOLEAN, deliver(f, udp) PROVE Honest' BY <1>4, DeliverHonest
<1>5. ASSUME NEW f \in Cbt_file, lose(f) PROVE Honest' BY <1>5, DropHonest DEF lose
<1>6. ASSUME NEW p \in PeerId, NEW next \in [Hash -> Uid], die(p, next) PROVE Honest' BY <1>6, DieHonest
<1>7. CASE (Housekeeping \/ start \/ stop \/ crash \/ tick) /\ UNCHANGED clientVars BY <1>7, QuietHonest
<1>8. CASE UNCHANGED allVars
  <2>1. UNCHANGED <<vars, client, flight, moved>> BY <1>8 DEF allVars, clientVars
  <2>2. TypeOKClients' BY <2>1 DEF Honest, TypeOKClients
  <2> QED BY <2>1, <2>2, LinesHonest
<1> QED BY <1>1, <1>2, <1>3, <1>4, <1>5, <1>6, <1>7, <1>8 DEF NextClients

\* No user is ever credited with more than its clients moved, and as long as no query fails what
\* it is credited with is the sum of its rows: for any number of clients, torrents and users, any
\* announces lost and refused, and restarts of either side (srv_insert_peer, write_db_users,
\* Cbt_file::close, Cbt_tracker_link::http_request).
THEOREM CreditsAreFaithful == SpecClients => []ClientsCredited
<1>1. InitClients => Honest BY InitHonest
<1> QED BY <1>1, NextHonest, HonestGives, PTL DEF SpecClients
=============================================================================
